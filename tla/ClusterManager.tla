---------------------------- MODULE ClusterManager ----------------------------
(***************************************************************************)
(* internal/cluster/manager.go with what it starts and what uses it: main  *)
(* of cmd/monitor (add the configured clusters, serve, stop on a signal),  *)
(* other callers of AddCluster and RemoveCluster, the collection loop of   *)
(* each cluster, and the readiness handler of internal/api/health.go.      *)
(*                                                                         *)
(* Every CollectorCluster ever made has a number.  Its collector is an     *)
(* AbstractCollection of one group, with the calls to Kafka that fail once *)
(* the client is closed.  The Kafka library and Redis are external.        *)
(* AddCluster of a disabled cluster returns at once and is no step, and    *)
(* neither is the end of the process, which only cuts a behaviour short.   *)
(***************************************************************************)
EXTENDS Integers, Sequences, FiniteSets, Routes

CONSTANTS
    Names,       \* cluster names
    Configured,  \* config.Clusters: the names main adds, in order
    GroupIds,    \* ids the group of a cluster may have, sequences of path segments
    Operators,   \* other callers of AddCluster and RemoveCluster
    RCAEnabled,  \* config.RCA.Publisher.Enabled
    MaxMade,     \* bound: AddCluster calls that come to create a client
    MaxRounds    \* bound: successful listings of one cluster

ASSUME ManagerAssumption ==
    /\ Names # {} /\ Configured \in Seq(Names) /\ RCAEnabled \in BOOLEAN
    /\ GroupIds \subseteq Seq(STRING) \ {<<>>}
    /\ "main" \notin Operators /\ "noOne" \notin Operators
    /\ MaxMade \in Nat /\ MaxRounds \in Nat

Callers == Operators \cup {"main"}
NoOne == "noOne"
Made == 1..MaxMade

VARIABLES
    clusters,  \* m.clusters: number of the cluster of a name, 0 for none
    lock,      \* who holds clustersMu for writing
    stopped,   \* m.ctx is cancelled
    made,      \* number of clusters made so far
    cc,        \* the CollectorClusters with their clients and loops
    pc,        \* where a caller is
    name,      \* clusterName or config.Name of its call
    cur,       \* number of the cluster its call works on
    toAdd,     \* what main has still to add
    toClose,   \* what Stop has still to close
    probe      \* the readiness handler

callVars == <<pc, name, cur, toAdd, toClose>>
vars == <<clusters, lock, stopped, made, cc, callVars, probe>>

\* No request is being answered.
NoProbe == [pc |-> "idle", todo |-> {}, cluster |-> 0, detail |-> FALSE, ready |-> FALSE]

Init ==
    /\ clusters = [n \in Names |-> 0]
    /\ lock = NoOne /\ stopped = FALSE /\ made = 0
    /\ cc = [i \in Made |-> [name |-> CHOOSE n \in Names : TRUE, client |-> "closed",
                             publisher |-> FALSE, stray |-> FALSE, cancelled |-> FALSE,
                             loop |-> "none", round |-> 0, store |-> 0, ready |-> FALSE]]
    /\ pc = [c \in Callers |-> "idle"]
    /\ name = [c \in Callers |-> CHOOSE n \in Names : TRUE]
    /\ cur = [c \in Callers |-> 0]
    /\ toAdd = Configured
    /\ toClose = {}
    /\ probe = NoProbe

Registered == {i \in Made : \E n \in Names : clusters[n] = i}

-----------------------------------------------------------------------------
(* Callers *)

\* A caller goes from one of its steps to the next.
Goto(c, from, to) == pc[c] = from /\ pc' = [pc EXCEPT ![c] = to]

\* The deferred Unlock, and the call returns.
Unlock(c, from) ==
    /\ Goto(c, from, "idle")
    /\ lock = c /\ lock' = NoOne
    /\ cur' = [cur EXCEPT ![c] = 0]

\* main adds the configured clusters one by one; a failure is logged and the next one is added.
MainAdd ==
    /\ toAdd # <<>>
    /\ Goto("main", "idle", "add")
    /\ name' = [name EXCEPT !["main"] = Head(toAdd)]
    /\ toAdd' = Tail(toAdd)
    /\ UNCHANGED <<clusters, lock, stopped, made, cc, cur, toClose, probe>>

\* startHTTPServer
MainServe ==
    /\ toAdd = <<>>
    /\ ~stopped
    /\ Goto("main", "idle", "serve")
    /\ UNCHANGED <<clusters, lock, stopped, made, cc, name, cur, toAdd, toClose, probe>>

\* A signal: Shutdown waits for the handlers, but not for longer than 30 seconds.
MainShutdown ==
    /\ Goto("main", "serve", "cancelAll")
    /\ UNCHANGED <<clusters, lock, stopped, made, cc, name, cur, toAdd, toClose, probe>>

Call(c, n, op) ==
    /\ Goto(c, "idle", op)
    /\ name' = [name EXCEPT ![c] = n]
    /\ UNCHANGED <<clusters, lock, stopped, made, cc, cur, toAdd, toClose, probe>>

-----------------------------------------------------------------------------
(* AddCluster *)

\* Mutant: the early return for an existing cluster comes without the deferred Unlock.
AddExistsLocked(c) ==
    /\ lock = NoOne
    /\ clusters[name[c]] # 0
    /\ Goto(c, "add", "idle")
    /\ lock' = c
    /\ UNCHANGED <<clusters, stopped, made, cc, name, cur, toAdd, toClose, probe>>

\* The name is taken: an error.
AddExists(c) ==
    /\ lock = NoOne
    /\ clusters[name[c]] # 0
    /\ Goto(c, "add", "idle")
    /\ UNCHANGED <<clusters, lock, stopped, made, cc, name, cur, toAdd, toClose, probe>>

\* Lock, and the name is free.
AddNew(c) ==
    /\ lock = NoOne
    /\ clusters[name[c]] = 0
    /\ made < MaxMade
    /\ Goto(c, "add", "newAdmin")
    /\ lock' = c
    /\ made' = made + 1
    /\ cur' = [cur EXCEPT ![c] = made + 1]
    /\ cc' = [cc EXCEPT ![made + 1].name = name[c]]
    /\ UNCHANGED <<clusters, stopped, name, toAdd, toClose, probe>>

NewAdmin(c) ==
    /\ Goto(c, "newAdmin", "newConsumer")
    /\ cc' = [cc EXCEPT ![cur[c]].client = "admin"]
    /\ UNCHANGED <<clusters, lock, stopped, made, name, cur, toAdd, toClose, probe>>

NewAdminError(c) ==
    /\ Unlock(c, "newAdmin")
    /\ UNCHANGED <<clusters, stopped, made, cc, name, toAdd, toClose, probe>>

NewConsumer(c) ==
    /\ Goto(c, "newConsumer", "newPublisher")
    /\ cc' = [cc EXCEPT ![cur[c]].client = "open"]
    /\ UNCHANGED <<clusters, lock, stopped, made, name, cur, toAdd, toClose, probe>>

\* Mutant: the admin client is left open when the consumer cannot be made.
NewConsumerErrorLeaks(c) ==
    /\ Unlock(c, "newConsumer")
    /\ UNCHANGED <<clusters, stopped, made, cc, name, toAdd, toClose, probe>>

\* The consumer cannot be made: the admin client is closed and the call fails.
NewConsumerError(c) ==
    /\ Unlock(c, "newConsumer")
    /\ cc' = [cc EXCEPT ![cur[c]].client = "closed"]
    /\ UNCHANGED <<clusters, stopped, made, name, toAdd, toClose, probe>>

\* NewEventPublisher makes a publisher; or its first ping fails, the cluster goes without RCA, and
\* the Redis client that was pinged is dropped without being closed: a stray.
NewPublisher(c) ==
    /\ Goto(c, "newPublisher", "register")
    /\ \E connected \in {RCAEnabled, FALSE} :
          cc' = [cc EXCEPT ![cur[c]].publisher = connected, ![cur[c]].stray = RCAEnabled /\ ~connected]
    /\ UNCHANGED <<clusters, lock, stopped, made, name, cur, toAdd, toClose, probe>>

\* The cluster is entered, its collection started, and the call returns.
Register(c) ==
    /\ Unlock(c, "register")
    /\ clusters' = [clusters EXCEPT ![name[c]] = cur[c]]
    /\ cc' = [cc EXCEPT ![cur[c]].loop = "list"]
    /\ UNCHANGED <<stopped, made, name, toAdd, toClose, probe>>

-----------------------------------------------------------------------------
(* RemoveCluster *)

RemoveMissing(c) ==
    /\ lock = NoOne
    /\ clusters[name[c]] = 0
    /\ Goto(c, "remove", "idle")
    /\ UNCHANGED <<clusters, lock, stopped, made, cc, name, cur, toAdd, toClose, probe>>

\* Lock, look the cluster up and cancel its context.
RemoveCancel(c) ==
    /\ lock = NoOne
    /\ clusters[name[c]] # 0
    /\ Goto(c, "remove", "close")
    /\ lock' = c
    /\ cur' = [cur EXCEPT ![c] = clusters[name[c]]]
    /\ cc' = [cc EXCEPT ![clusters[name[c]]].cancelled = TRUE]
    /\ UNCHANGED <<clusters, stopped, made, name, toAdd, toClose, probe>>

\* Mutant: the context is cancelled but the client left to the garbage collector.
ClosedPublisherOnly(x) == [x EXCEPT !.publisher = FALSE]

\* Collector.Close and RCAPublisher.Close
Closed(x) == [x EXCEPT !.client = "closed", !.publisher = FALSE]

RemoveClose(c) ==
    /\ Goto(c, "close", "delete")
    /\ cc' = [cc EXCEPT ![cur[c]] = Closed(@)]
    /\ UNCHANGED <<clusters, lock, stopped, made, name, cur, toAdd, toClose, probe>>

\* Mutant: a cluster that was never collected is not taken out of the map.
RemoveDeleteReady(c) ==
    /\ Unlock(c, "delete")
    /\ clusters' = IF cc[cur[c]].ready THEN [clusters EXCEPT ![name[c]] = 0] ELSE clusters
    /\ UNCHANGED <<stopped, made, cc, name, toAdd, toClose, probe>>

RemoveDelete(c) ==
    /\ Unlock(c, "delete")
    /\ clusters' = [clusters EXCEPT ![name[c]] = 0]
    /\ UNCHANGED <<stopped, made, cc, name, toAdd, toClose, probe>>

-----------------------------------------------------------------------------
(* Stop, called by main *)

\* m.cancel(), before the lock is taken.
StopCancel ==
    /\ Goto("main", "cancelAll", "stop")
    /\ stopped' = TRUE
    /\ UNCHANGED <<clusters, lock, made, cc, name, cur, toAdd, toClose, probe>>

\* Mutant: clusters without a publisher are skipped altogether.
StopLockWithRCA ==
    /\ lock = NoOne
    /\ Goto("main", "stop", "closeAll")
    /\ lock' = "main"
    /\ toClose' = {i \in Registered : cc[i].publisher}
    /\ UNCHANGED <<clusters, stopped, made, cc, name, cur, toAdd, probe>>

StopLock ==
    /\ lock = NoOne
    /\ Goto("main", "stop", "closeAll")
    /\ lock' = "main"
    /\ toClose' = Registered
    /\ UNCHANGED <<clusters, stopped, made, cc, name, cur, toAdd, probe>>

\* One turn of the loop over the clusters, which stay in the map.
StopClose(i) ==
    /\ pc["main"] = "closeAll"
    /\ i \in toClose
    /\ cc' = [cc EXCEPT ![i] = [Closed(@) EXCEPT !.cancelled = TRUE]]
    /\ toClose' = toClose \ {i}
    /\ UNCHANGED <<clusters, lock, stopped, made, pc, name, cur, toAdd, probe>>

StopUnlock ==
    /\ toClose = {}
    /\ Unlock("main", "closeAll")
    /\ UNCHANGED <<clusters, stopped, made, cc, name, toAdd, toClose, probe>>

-----------------------------------------------------------------------------
(* The collection loop of a cluster; see Collector *)

\* Mutant: the context of a cluster is not derived from that of the manager.
DoneOwn(i) == cc[i].cancelled

\* ctx.Done() is ready: the cluster's context is derived from m.ctx.
ContextDone(i) == cc[i].cancelled \/ stopped

Step(i, from, to) ==
    /\ cc[i].loop = from
    /\ cc' = [cc EXCEPT ![i].loop = to]
    /\ UNCHANGED <<clusters, lock, stopped, made, callVars, probe>>

\* Mutant: a cluster is ready as soon as its groups are listed.
ListOKMarksReady(i) ==
    /\ cc[i].loop = "list"
    /\ cc[i].client = "open"
    /\ cc[i].round < MaxRounds
    /\ cc' = [cc EXCEPT ![i].loop = "offsets", ![i].round = @ + 1, ![i].ready = TRUE]
    /\ UNCHANGED <<clusters, lock, stopped, made, callVars, probe>>

\* ListConsumerGroups answers with the group.
ListOK(i) ==
    /\ cc[i].loop = "list"
    /\ cc[i].client = "open"
    /\ cc[i].round < MaxRounds
    /\ cc' = [cc EXCEPT ![i].loop = "offsets", ![i].round = @ + 1]
    /\ UNCHANGED <<clusters, lock, stopped, made, callVars, probe>>

\* The listing fails or is empty.
ListError(i) == Step(i, "list", "select")

OffsetsOK(i) == cc[i].client = "open" /\ Step(i, "offsets", "store")

\* Mutant: a failing call ends the loop.
OffsetsErrorQuits(i) == Step(i, "offsets", "stopped")

OffsetsError(i) == Step(i, "offsets", "drain")

\* The status is stored, even if the client was closed while the partitions were evaluated.
StoreStatus(i) ==
    /\ cc[i].loop = "store"
    /\ cc' = [cc EXCEPT ![i].loop = "mark", ![i].store = cc[i].round]
    /\ UNCHANGED <<clusters, lock, stopped, made, callVars, probe>>

MarkReady(i) ==
    /\ cc[i].loop = "mark"
    /\ cc' = [cc EXCEPT ![i].loop = "drain", ![i].ready = TRUE]
    /\ UNCHANGED <<clusters, lock, stopped, made, callVars, probe>>

EndRound(i) == Step(i, "drain", "select")

Tick(i) == Step(i, "select", "list")

Done(i) == ContextDone(i) /\ Step(i, "select", "stopped")

Collect(i) ==
    \/ ListOK(i) \/ ListError(i) \/ OffsetsOK(i) \/ OffsetsError(i)
    \/ StoreStatus(i) \/ MarkReady(i) \/ EndRound(i)

-----------------------------------------------------------------------------
(* ClusterReadyHandler *)

\* GetAllClusters under the read lock; without clusters the reply is not_ready.
ProbeStart ==
    /\ probe.pc = "lock"
    /\ lock = NoOne
    /\ probe' = IF Registered = {} THEN NoProbe
                ELSE [probe EXCEPT !.pc = "each", !.todo = Registered]
    /\ UNCHANGED <<clusters, lock, stopped, made, cc, callVars>>

\* A request comes in while the server runs.
ProbeRequest ==
    /\ pc["main"] = "serve"
    /\ probe.pc = "idle"
    /\ probe' = [probe EXCEPT !.pc = "lock"]
    /\ UNCHANGED <<clusters, lock, stopped, made, cc, callVars>>

\* "ready": IsReady()
ProbeDetail(i) ==
    /\ probe.pc = "each"
    /\ i \in probe.todo
    /\ probe' = [probe EXCEPT !.pc = "count", !.cluster = i, !.todo = @ \ {i},
                              !.detail = cc[i].ready]
    /\ UNCHANGED <<clusters, lock, stopped, made, cc, callVars>>

\* The loop over the clusters goes on.
NextCluster == [probe EXCEPT !.pc = "each", !.cluster = 0, !.detail = FALSE]

\* if IsReady(), asked a second time: readyClusters++
ProbeCount ==
    /\ probe.pc = "count"
    /\ probe' = IF cc[probe.cluster].ready THEN [probe EXCEPT !.pc = "groups", !.ready = TRUE]
                                           ELSE NextCluster
    /\ UNCHANGED <<clusters, lock, stopped, made, cc, callVars>>

\* "consumer_groups": len(GetAllGroupStatuses())
ProbeGroups ==
    /\ probe.pc = "groups"
    /\ probe' = NextCluster
    /\ UNCHANGED <<clusters, lock, stopped, made, cc, callVars>>

\* 200 if a cluster was ready, else 503
ProbeReply ==
    /\ probe.pc = "each"
    /\ probe.todo = {}
    /\ probe' = NoProbe
    /\ UNCHANGED <<clusters, lock, stopped, made, cc, callVars>>

Handle ==
    ProbeStart \/ (\E i \in Made : ProbeDetail(i)) \/ ProbeCount \/ ProbeGroups \/ ProbeReply

-----------------------------------------------------------------------------
(* The other handlers only read, under the locks of the manager and then of the collectors. *)

\* GetGroupStatus: the round of the status, 0 for one of the two 404 replies.
GroupStatus(n, g) ==
    IF n \in Names /\ g \in GroupIds /\ clusters[n] # 0 THEN cc[clusters[n]].store ELSE 0

\* The reply to GET path: which cluster and group, and the round of the status; <<>> for an error.
GetStatus(path) ==
    LET r == Route(path)
    IN  IF r.kind = "group" /\ GroupStatus(r.cluster, r.group) # 0
        THEN <<r.cluster, r.group, GroupStatus(r.cluster, r.group)>>
        ELSE <<>>

\* GetAllGroupsList: cluster and group out of each key of GetAllGroupStatuses.
GetAllGroups ==
    {SplitKey(StatusKey(x[1], x[2])) : x \in {y \in Names \X GroupIds : GroupStatus(y[1], y[2]) # 0}}

-----------------------------------------------------------------------------
Proceed(c) ==
    \/ AddNew(c) \/ AddExists(c) \/ NewAdmin(c) \/ NewAdminError(c) \/ NewConsumer(c)
    \/ NewConsumerError(c) \/ NewPublisher(c) \/ Register(c)
    \/ RemoveMissing(c) \/ RemoveCancel(c) \/ RemoveClose(c) \/ RemoveDelete(c)

Stop == StopCancel \/ StopLock \/ (\E i \in Made : StopClose(i)) \/ StopUnlock

Next ==
    \/ MainAdd \/ MainServe \/ MainShutdown \/ Stop
    \/ \E c \in Operators, n \in Names, op \in {"add", "remove"} : Call(c, n, op)
    \/ \E c \in Callers : Proceed(c)
    \/ \E i \in Made : Collect(i) \/ Tick(i) \/ Done(i)
    \/ ProbeRequest \/ Handle

\* Goroutines that can go on do, calls to Kafka and Redis return, a mutex that is released again
\* and again is not withheld from anyone who waits for it, and select picks a ready case in the end.
Fairness ==
    /\ WF_vars(Stop)
    /\ \A c \in Callers : WF_vars(Proceed(c))
    /\ \A i \in Made : WF_vars(Collect(i)) /\ SF_vars(Done(i))
    /\ WF_vars(Handle)

Spec == Init /\ [][Next]_vars /\ Fairness

-----------------------------------------------------------------------------
(* Properties *)

\* A Kafka client or publisher that is open belongs to the map or to the call that is making it.
OpenIsOwned ==
    \A i \in Made : (cc[i].client \in {"admin", "open"} \/ cc[i].publisher) =>
        \/ i \in Registered
        \/ lock # NoOne /\ cur[lock] = i

\* A stray is the client of a first ping that failed: its cluster goes without a publisher.
StraysOfPings == \A i \in Made : cc[i].stray => RCAEnabled /\ ~cc[i].publisher

\* What is open is owned: neither a failed AddCluster nor RemoveCluster leaves a Kafka client or a
\* publisher behind (manager.go:89-94, 130-140).  What does stay behind is the Redis client of a
\* first ping that failed (publisher.go:43), and that is all: one for such a cluster at most.
HandlesOwned == OpenIsOwned /\ StraysOfPings

\* A name in the map is monitored: unless somebody is changing the map, its client is open, its
\* context is not cancelled and its loop runs, whatever was removed and added under that name.
RegisteredIsMonitored ==
    (lock = NoOne /\ ~stopped) => \A i \in Registered :
        cc[i].client = "open" /\ ~cc[i].cancelled /\ cc[i].loop \notin {"none", "stopped"}

\* A removed cluster begins no collection, although the select of its loop may prefer the ticker
\* to the cancelled context: at most the collection it was in writes statuses and gauges of a
\* name that may have been added again.
RemovedBeginsNothing ==
    [][\A i \in Made : cc'[i].round > cc[i].round => i \in Registered]_vars

\* When Stop is about to return, no client and no publisher that the manager knows is open, those
\* of clusters that were being added while it cancelled the context included.
StopClosesAll ==
    (pc["main"] = "closeAll" /\ toClose = {}) =>
        \A i \in Made : cc[i].client = "closed" /\ ~cc[i].publisher

\* Whoever is removed or stopped stops collecting, also a cluster that is added after Stop: there is
\* always a time to come when no loop is left under a cancelled context (which stays cancelled).
CancelledLoopsStop ==
    []<>(\A i \in Made : cc[i].cancelled \/ stopped => cc[i].loop \in {"none", "stopped"})

\* A request for readiness is answered, although AddCluster and RemoveCluster hold the lock while
\* they talk to Kafka and Redis: whenever there is one, there comes a time when there is none.
ProbeAnswered == []<>(probe.pc = "idle")

\* The reply is consistent in itself although collections go on between the three reads of a
\* cluster: one that it calls ready is counted, and one that it counts has groups to show.
ReplyConsistent ==
    /\ probe.pc = "count" /\ probe.detail => cc[probe.cluster].ready
    /\ probe.pc = "groups" => cc[probe.cluster].store > 0

\* Whether a request for the group is taken for another one: the id, or the name, has a segment that
\* ServeMux cleans away, or the id ends in a word of the routes.
Misrouted(n, g) == ~Clean(GroupPath(n, g)) \/ g[Len(g)] \in {"status", "groups"}

\* README.md:120, "GET /api/v1/clusters/{cluster}/groups/{group}": the path of a group leads to the
\* status that the cluster now in the map has of that very group, slashes in its id or not, and
\* what the aggregated list offers can be asked for one by one, misrouted ids excepted.
GroupPathLeadsToGroup ==
    /\ \A n \in Names, g \in GroupIds : ~Misrouted(n, g) =>
          GetStatus(GroupPath(n, g)) =
              IF clusters[n] # 0 /\ cc[clusters[n]].store # 0
              THEN <<n, g, cc[clusters[n]].store>> ELSE <<>>
    /\ \A x \in GetAllGroups : ~Misrouted(x[1], x[2]) => GetStatus(GroupPath(x[1], x[2])) # <<>>

\* The loop of a cluster as an AbstractCollection of one group.
Collection(i) == INSTANCE AbstractCollection WITH
    Groups <- {"group"},
    phase <- CASE cc[i].loop \in {"none", "list", "select"} -> "idle"
               [] cc[i].loop = "stopped" -> "stopped"
               [] OTHER -> "collecting",
    round <- cc[i].round,
    left <- IF cc[i].loop \in {"offsets", "store"} THEN {"group"} ELSE {},
    failed <- IF cc[i].loop \notin {"offsets", "store"} /\ cc[i].store # cc[i].round
              THEN {"group"} ELSE {},
    store <- [g \in {"group"} |-> cc[i].store],
    ready <- cc[i].ready,
    cancelled <- ContextDone(i)

\* The loops are collections as Collector implements them, clients being closed under them or not.
LoopsAreCollections ==
    /\ \A i \in Made : Collection(i)!Init
    /\ [][\A i \in Made : Collection(i)!Next \/ UNCHANGED Collection(i)!vars]_vars
=============================================================================
