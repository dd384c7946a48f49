------------------------------ MODULE Collector ------------------------------
(***************************************************************************)
(* One collector of internal/collector/collector.go: the periodic loop of  *)
(* StartPeriodicCollection, the goroutines one collection starts (one per  *)
(* consumer group, at most MaxConcurrency at a time, and one that closes   *)
(* the result channel), the sliding windows and the status store.          *)
(*                                                                         *)
(* A record of a window, and the LastUpdateTime of a status, is the number *)
(* of the collection that made it.  What the evaluator says about a window *)
(* (module LagEvaluator) is any health once the window is full enough.     *)
(* Prometheus gauges, member counts, lag sums and the evaluation hook      *)
(* (module PartitionMonitor) carry no control of the collector and are left *)
(* out.                                                                    *)
(***************************************************************************)
EXTENDS Integers, Sequences, FiniteSets

CONSTANTS
    Groups,          \* consumer group ids, each a nonempty sequence of colon-free segments
    Partitions,      \* topic partitions a group may have offsets for
    MaxConcurrency,  \* config.MaxConcurrency
    WindowSize,      \* config.WindowSize
    MinWindowSize,   \* config.MinWindowSize
    MaxRounds        \* bound: number of collections whose group listing succeeds

\* config.MaxConcurrency is not validated by the code: it may be 0, and then `sem <-` blocks forever.
ASSUME ConcurrencyAssumption == MaxConcurrency \in Nat
ASSUME WindowAssumption == WindowSize \in Nat \ {0} /\ MinWindowSize \in Nat
ASSUME GroupsAssumption == IsFiniteSet(Groups)
ASSUME RoundsAssumption == MaxRounds \in Nat

VARIABLES
    loop,         \* where the goroutine of StartPeriodicCollection is
    round,        \* number of collections started with a successful listing
    listed,       \* groupIDs of the latest successful ListConsumerGroups
    pending,      \* groups of the spawn loop that have no goroutine yet
    sem,          \* tokens in the channel sem
    worker,       \* where the goroutine of a group is
    todo,         \* offsets the goroutine of a group has still to evaluate
    acc,          \* the GroupStatus the goroutine is building
    results,      \* the channel results
    closed,       \* close(results) has happened
    failed,       \* history: groups counted in metrics.ScrapeErrors by this collection
    statusStore,  \* c.statusStore; NoStatus where the map has no entry
    hasCollected, \* c.hasCollected
    windows,      \* c.windows; <<>> where the map has no entry
    cancelled     \* the cluster's context is cancelled

loopVars == <<loop, round, listed, pending>>
chanVars == <<sem, results, closed>>
workVars == <<worker, todo, acc>>
storeVars == <<failed, statusStore, hasCollected, windows>>
vars == <<loopVars, chanVars, workVars, storeVars, cancelled>>

LoopState == {"list", "spawn", "drain", "ready", "select", "stopped"}
WorkerState == {"none", "offsets", "eval", "send", "release", "finish"}
Health == {"GOOD", "WARNING", "CRITICAL"}
Unset == ""      \* the zero value of ConsumerHealth

\* GroupStatus: `of` is the set PartitionCount counts; the other sets are its partition lists.
Status == [round : 0..MaxRounds, of : SUBSET Partitions,
           critical : SUBSET Partitions, warning : SUBSET Partitions,
           healthy : SUBSET Partitions, overall : Health \cup {Unset}]

NewStatus(r, ps) == [round |-> r, of |-> ps, critical |-> {}, warning |-> {},
                     healthy |-> {}, overall |-> Unset]

\* GroupStatus{}; in statusStore, no entry.
NoStatus == NewStatus(0, {})

Result == [group : Groups, err : BOOLEAN, status : Status]

Init ==
    /\ loop = "list" /\ round = 0 /\ listed = {} /\ pending = {}
    /\ sem = 0 /\ results = <<>> /\ closed = FALSE
    /\ worker = [g \in Groups |-> "none"]
    /\ todo = [g \in Groups |-> {}]
    /\ acc = [g \in Groups |-> NoStatus]
    /\ failed = {}
    /\ statusStore = [g \in Groups |-> NoStatus]
    /\ hasCollected = FALSE
    /\ windows = [g \in Groups |-> [p \in Partitions |-> <<>>]]
    /\ cancelled = FALSE

-----------------------------------------------------------------------------
(* CollectMetricsWithCluster *)

\* ListConsumerGroups fails: the collection ends before it starts a goroutine.
ListError ==
    /\ loop = "list"
    /\ loop' = "select"
    /\ UNCHANGED <<round, listed, pending, chanVars, workVars, storeVars, cancelled>>

\* ListConsumerGroups answers gs; sem and results are made anew for it.
ListOK(gs) ==
    /\ loop = "list"
    /\ round < MaxRounds
    /\ loop' = "spawn"
    /\ round' = round + 1
    /\ listed' = gs
    /\ pending' = gs
    /\ sem' = 0 /\ results' = <<>> /\ closed' = FALSE
    /\ failed' = {}
    /\ UNCHANGED <<workVars, statusStore, hasCollected, windows, cancelled>>

\* One turn of the spawn loop: wg.Add, wait for a token of sem, start the goroutine.
Spawn(g) ==
    /\ loop = "spawn"
    /\ g \in pending
    /\ sem < MaxConcurrency
    /\ sem' = sem + 1
    /\ pending' = pending \ {g}
    /\ worker' = [worker EXCEPT ![g] = "offsets"]
    /\ UNCHANGED <<loop, round, listed, results, closed, todo, acc, storeVars, cancelled>>

\* The spawn loop is over; the closing goroutine exists from here on.
StartDrain ==
    /\ loop = "spawn"
    /\ pending = {}
    /\ loop' = "drain"
    /\ UNCHANGED <<round, listed, pending, chanVars, workVars, storeVars, cancelled>>

\* Mutant: wg.Add(1) moved into the goroutine, so that Wait can miss one that has just started.
AllDoneRacy == \A g \in Groups : worker[g] \in {"none", "offsets"}

\* wg.Wait() returns: no goroutine is left to call wg.Done.
AllDone == \A g \in Groups : worker[g] = "none"

CloseResults ==
    /\ loop \in {"drain", "ready"}
    /\ ~closed
    /\ AllDone
    /\ closed' = TRUE
    /\ UNCHANGED <<loopVars, sem, results, workVars, storeVars, cancelled>>

\* Mutant: the `continue` after an error is missing and the zero status is stored.
ReceiveErrorStores ==
    /\ loop = "drain"
    /\ results # <<>>
    /\ Head(results).err
    /\ failed' = failed \cup {Head(results).group}
    /\ statusStore' = [statusStore EXCEPT ![Head(results).group] = Head(results).status]
    /\ results' = Tail(results)
    /\ loop' = "ready"
    /\ UNCHANGED <<round, listed, pending, sem, closed, workVars, hasCollected, windows, cancelled>>

\* `range results` takes a result that carries an error.
ReceiveError ==
    /\ loop = "drain"
    /\ results # <<>>
    /\ Head(results).err
    /\ failed' = failed \cup {Head(results).group}
    /\ results' = Tail(results)
    /\ UNCHANGED <<loopVars, sem, closed, workVars, statusStore, hasCollected, windows, cancelled>>

\* `range results` takes a status and stores it under statusStoreMu.
ReceiveStatus ==
    /\ loop = "drain"
    /\ results # <<>>
    /\ ~Head(results).err
    /\ statusStore' = [statusStore EXCEPT ![Head(results).group] = Head(results).status]
    /\ results' = Tail(results)
    /\ loop' = "ready"
    /\ UNCHANGED <<round, listed, pending, sem, closed, workVars, failed, hasCollected,
                   windows, cancelled>>

\* hasCollected.Store(true), a step of its own for readers of IsReady.
MarkReady ==
    /\ loop = "ready"
    /\ hasCollected' = TRUE
    /\ loop' = "drain"
    /\ UNCHANGED <<round, listed, pending, chanVars, workVars, failed, statusStore,
                   windows, cancelled>>

\* Mutant: the drain stops at the first moment the channel is empty.
EndRoundOnEmpty ==
    /\ loop = "drain"
    /\ results = <<>>
    /\ loop' = "select"
    /\ UNCHANGED <<round, listed, pending, chanVars, workVars, storeVars, cancelled>>

\* `range results` ends: the channel is closed and empty.
EndRound ==
    /\ loop = "drain"
    /\ closed
    /\ results = <<>>
    /\ loop' = "select"
    /\ UNCHANGED <<round, listed, pending, chanVars, workVars, storeVars, cancelled>>

-----------------------------------------------------------------------------
(* The goroutine of one group: collectGroupMetricsWithCluster, the send of *)
(* its result and the deferred calls, which run last-in first-out.         *)

\* Mutant: the error path gives its token back, and the deferred call does so again.
OffsetsErrorReleases(g) ==
    /\ worker[g] = "offsets"
    /\ worker' = [worker EXCEPT ![g] = "send"]
    /\ acc' = [acc EXCEPT ![g] = NoStatus]
    /\ sem' = sem - 1
    /\ UNCHANGED <<loopVars, results, closed, todo, storeVars, cancelled>>

\* Mutant: the error path returns past the send and the release of the token.
OffsetsErrorLeaks(g) ==
    /\ worker[g] = "offsets"
    /\ worker' = [worker EXCEPT ![g] = "finish"]
    /\ UNCHANGED <<loopVars, chanVars, todo, acc, storeVars, cancelled>>

\* GetConsumerGroupOffsets fails: an error result, no window touched.
OffsetsError(g) ==
    /\ worker[g] = "offsets"
    /\ worker' = [worker EXCEPT ![g] = "send"]
    /\ acc' = [acc EXCEPT ![g] = NoStatus]
    /\ UNCHANGED <<loopVars, chanVars, todo, storeVars, cancelled>>

OffsetsOK(g, ps) ==
    /\ worker[g] = "offsets"
    /\ worker' = [worker EXCEPT ![g] = "eval"]
    /\ acc' = [acc EXCEPT ![g] = NewStatus(round, ps)]
    /\ todo' = [todo EXCEPT ![g] = ps]
    /\ UNCHANGED <<loopVars, chanVars, storeVars, cancelled>>

\* addToWindow: append, and drop the oldest record of a window that is too long.
AddToWindow(w, r) ==
    LET longer == Append(w, r)
    IN  IF Len(longer) > WindowSize THEN Tail(longer) ELSE longer

\* What the evaluator may say about a window.
Verdicts(w) == IF Len(w) < MinWindowSize THEN {"WARNING"} ELSE Health

\* Groups a partition by its health.
Classified(st, p, h) ==
    [st EXCEPT !.critical = IF h = "CRITICAL" THEN @ \cup {p} ELSE @,
               !.warning  = IF h = "WARNING"  THEN @ \cup {p} ELSE @,
               !.healthy  = IF h = "GOOD"     THEN @ \cup {p} ELSE @]

\* Takes partition p off the goroutine's list of offsets.
Evaluating(g, p) ==
    /\ worker[g] = "eval"
    /\ p \in todo[g]
    /\ todo' = [todo EXCEPT ![g] = @ \ {p}]
    /\ UNCHANGED <<loopVars, chanVars, worker, failed, statusStore, hasCollected, cancelled>>

\* GetHighWatermark fails: the partition is logged and skipped.
EvaluateError(g, p) ==
    /\ Evaluating(g, p)
    /\ UNCHANGED <<acc, windows>>

\* No committed offset: UNKNOWN with a warning, and no record.
EvaluateNoOffset(g, p) ==
    /\ Evaluating(g, p)
    /\ acc' = [acc EXCEPT ![g] = Classified(@, p, "WARNING")]
    /\ UNCHANGED windows

\* A record is added to the window and the window is evaluated.
EvaluateWindow(g, p) ==
    /\ Evaluating(g, p)
    /\ LET w == AddToWindow(windows[g][p], round)
       IN  /\ windows' = [windows EXCEPT ![g][p] = w]
           /\ \E h \in Verdicts(w) : acc' = [acc EXCEPT ![g] = Classified(@, p, h)]

\* Mutant: a group without an evaluated partition gets a value that is no ConsumerHealth.
OverallUnknown(st) == CASE st.critical # {} -> "CRITICAL"
                        [] st.critical = {} /\ st.warning # {} -> "WARNING"
                        [] st.critical \cup st.warning = {} /\ st.healthy # {} -> "GOOD"
                        [] OTHER -> "UNKNOWN"

\* Mutant: the lists are looked at in the order the partitions were grouped into them.
OverallWarningFirst(st) == CASE st.warning # {} -> "WARNING"
                             [] st.warning = {} /\ st.critical # {} -> "CRITICAL"
                             [] OTHER -> "GOOD"

\* OverallHealth: the worst list that is not empty.
Overall(st) == CASE st.critical # {} -> "CRITICAL"
                 [] st.critical = {} /\ st.warning # {} -> "WARNING"
                 [] OTHER -> "GOOD"

\* Mutant: a goroutine that looks at its deadline once more after the evaluation gives up.
FinishGroupTimesOut(g) ==
    /\ worker[g] = "eval"
    /\ todo[g] = {}
    /\ acc' = [acc EXCEPT ![g] = NoStatus]
    /\ worker' = [worker EXCEPT ![g] = "send"]
    /\ UNCHANGED <<loopVars, chanVars, todo, storeVars, cancelled>>

FinishGroup(g) ==
    /\ worker[g] = "eval"
    /\ todo[g] = {}
    /\ acc' = [acc EXCEPT ![g] = [@ EXCEPT !.overall = Overall(acc[g])]]
    /\ worker' = [worker EXCEPT ![g] = "send"]
    /\ UNCHANGED <<loopVars, chanVars, todo, storeVars, cancelled>>

\* Mutant: the buffer has one slot per token instead of one per group.
ResultsCapByConcurrency == MaxConcurrency

\* make(chan groupResult, len(groupIDs))
ResultsCap == Cardinality(listed)

\* results <- groupResult{...}; acc[g] is GroupStatus{} exactly when the offsets failed.
Send(g) ==
    /\ worker[g] = "send"
    /\ Len(results) < ResultsCap
    /\ results' = Append(results, [group |-> g, err |-> acc[g].round = 0, status |-> acc[g]])
    /\ acc' = [acc EXCEPT ![g] = NoStatus]
    /\ worker' = [worker EXCEPT ![g] = "release"]
    /\ UNCHANGED <<loopVars, sem, closed, todo, storeVars, cancelled>>

\* defer func() { <-sem }()
ReleaseSem(g) ==
    /\ worker[g] = "release"
    /\ sem > 0
    /\ sem' = sem - 1
    /\ worker' = [worker EXCEPT ![g] = "finish"]
    /\ UNCHANGED <<loopVars, results, closed, todo, acc, storeVars, cancelled>>

\* Mutant: a goroutine that sees the cancelled context returns without wg.Done.
WgDoneUnlessCancelled(g) ==
    /\ worker[g] = "finish"
    /\ ~cancelled
    /\ worker' = [worker EXCEPT ![g] = "none"]
    /\ UNCHANGED <<loopVars, chanVars, todo, acc, storeVars, cancelled>>

\* defer wg.Done()
WgDone(g) ==
    /\ worker[g] = "finish"
    /\ worker' = [worker EXCEPT ![g] = "none"]
    /\ UNCHANGED <<loopVars, chanVars, todo, acc, storeVars, cancelled>>

-----------------------------------------------------------------------------
(* The select of StartPeriodicCollection *)

\* case <-ticker.C
Tick ==
    /\ loop = "select"
    /\ loop' = "list"
    /\ UNCHANGED <<round, listed, pending, chanVars, workVars, storeVars, cancelled>>

\* Mutant: only the groups the latest collection reached count as active.
ActiveGroupsThisRound == {g \in Groups : statusStore[g].round = round}

\* Keys of GetAllGroupStatuses.
ActiveGroups == {g \in Groups : statusStore[g] # NoStatus}

\* key[:strings.Index(key, ":")] of a window key "group:topic:partition".
KeyGroup(g) == <<Head(g)>>

\* case <-cleanupTicker.C: CleanupOldWindows(activeGroups)
CleanupOldWindows ==
    /\ loop = "select"
    /\ windows' = [g \in Groups |-> [p \in Partitions |->
                      IF KeyGroup(g) \in ActiveGroups THEN windows[g][p] ELSE <<>>]]
    /\ UNCHANGED <<loopVars, chanVars, workVars, failed, statusStore, hasCollected, cancelled>>

\* case <-ctx.Done()
Done ==
    /\ loop = "select"
    /\ cancelled
    /\ loop' = "stopped"
    /\ UNCHANGED <<round, listed, pending, chanVars, workVars, storeVars, cancelled>>

\* RemoveCluster or Stop cancels the context, at any moment.
Cancel ==
    /\ ~cancelled
    /\ cancelled' = TRUE
    /\ UNCHANGED <<loopVars, chanVars, workVars, storeVars>>

-----------------------------------------------------------------------------
Evaluate(g) ==
    \E p \in Partitions : EvaluateError(g, p) \/ EvaluateNoOffset(g, p) \/ EvaluateWindow(g, p)

\* What one goroutine of a group does.
Work(g) ==
    \/ OffsetsError(g)
    \/ \E ps \in SUBSET Partitions : OffsetsOK(g, ps)
    \/ Evaluate(g)
    \/ FinishGroup(g)
    \/ Send(g)
    \/ ReleaseSem(g)
    \/ WgDone(g)

\* What the collecting goroutine does between a tick and the next select.
Collect ==
    \/ ListError
    \/ \E gs \in SUBSET Groups : ListOK(gs)
    \/ \E g \in Groups : Spawn(g)
    \/ StartDrain
    \/ ReceiveError
    \/ ReceiveStatus
    \/ MarkReady
    \/ EndRound

Next ==
    \/ Collect
    \/ \E g \in Groups : Work(g)
    \/ CloseResults
    \/ Tick
    \/ CleanupOldWindows
    \/ Done
    \/ Cancel

Spec == Init /\ [][Next]_vars

\* Runnable goroutines are scheduled and Kafka calls return (the client sets timeouts); a select
\* with several ready cases picks one at random, so ctx.Done, once ready, is picked in the end.
Fairness ==
    /\ WF_vars(Collect)
    /\ \A g \in Groups : WF_vars(Work(g))
    /\ WF_vars(CloseResults)
    /\ SF_vars(Done)

FairSpec == Spec /\ Fairness

-----------------------------------------------------------------------------
(* Properties *)

TypeOK ==
    /\ loop \in LoopState
    /\ round \in 0..MaxRounds
    /\ listed \in SUBSET Groups
    /\ pending \in SUBSET Groups
    /\ sem \in Nat
    /\ worker \in [Groups -> WorkerState]
    /\ todo \in [Groups -> SUBSET Partitions]
    /\ acc \in [Groups -> Status]
    /\ results \in Seq(Result)
    /\ closed \in BOOLEAN
    /\ failed \in SUBSET Groups
    /\ statusStore \in [Groups -> Status]
    /\ hasCollected \in BOOLEAN
    /\ windows \in [Groups -> [Partitions -> Seq(0..MaxRounds)]]
    /\ cancelled \in BOOLEAN

\* Goroutines that hold a token of sem.
Holders == {g \in Groups : worker[g] \in {"offsets", "eval", "send", "release"}}

\* MaxConcurrency (collector.go:112): at no time are more groups being collected than the
\* semaphore admits, and every token in sem belongs to a goroutine that will give it back.
ConcurrencyLimit == sem = Cardinality(Holders) /\ Cardinality(Holders) <= MaxConcurrency

\* The buffer of results is large enough for a goroutine never to block on its send, even while
\* the spawn loop, which drains nothing, waits for a token that only this goroutine can give back.
SendNeverBlocks == \A g \in Groups : worker[g] = "send" => Len(results) < ResultsCap

\* No goroutine can reach its send after close(results), which would panic.
NoSendOnClosed == closed => pending = {} /\ \A g \in Groups : worker[g] = "none"

\* When a collection has ended, each listed group has either a status of this very collection in
\* the store or was counted as a scrape error: no result is lost between goroutine and store.
EveryGroupAccounted ==
    loop \in {"select", "stopped", "list"} =>
        /\ results = <<>> /\ \A g \in Groups : worker[g] = "none"
        /\ \A g \in listed : (statusStore[g].round = round) <=> (g \notin failed)

\* IsReady (collector.go:537): a reader that saw hasCollected finds a status.
ReadyMeansStatus == hasCollected => \E g \in Groups : statusStore[g] # NoStatus

\* Between collections no window is ahead of the published status of its group, so the status an
\* operator reads reflects the latest record of every window.
StatusKeepsUpWithWindow ==
    loop = "select" =>
        \A g \in Groups, p \in Partitions :
            windows[g][p] # <<>> =>
                statusStore[g].round >= windows[g][p][Len(windows[g][p])]

\* The overall health is the worst of the partition lists, and a partition is in one list only.
Summarises(st) ==
    /\ st.critical \cup st.warning \cup st.healthy \subseteq st.of
    /\ st.critical \cap st.warning = {}
    /\ (st.critical \cup st.warning) \cap st.healthy = {}
    /\ st.overall = "CRITICAL" <=> st.critical # {}
    /\ st.overall = "WARNING" <=> st.critical = {} /\ st.warning # {}
    /\ st.overall = "GOOD" <=> st.critical \cup st.warning = {}

\* The partitions of g with a record of collection r.
Recorded(g, r) ==
    {p \in Partitions : \E i \in 1..Len(windows[g][p]) : windows[g][p][i] = r}

\* The partition lists of a status leave out no partition that its collection evaluated.
Covers(g, st) == Recorded(g, st.round) \subseteq st.critical \cup st.warning \cup st.healthy

\* Every published status (collector.go:296-316) summarises its partitions and leaves none out that
\* it evaluated, in whatever order they came and whichever others failed or had no offset.
HealthSummarises ==
    \A g \in Groups :
        statusStore[g] # NoStatus => Summarises(statusStore[g]) /\ Covers(g, statusStore[g])

\* A status is only ever replaced by one of a later collection.
StatusNeverGoesBack ==
    [][\A g \in Groups : statusStore'[g] # statusStore[g] =>
            statusStore'[g].round > statusStore[g].round]_vars

\* The history of a group that the latest listing has is kept: no step, the cleanup included,
\* empties one of its windows or takes back the latest record.
WindowHistoryKept ==
    [][\A g \in listed, p \in Partitions :
            windows[g][p] # <<>> =>
                /\ windows'[g][p] # <<>>
                /\ windows'[g][p][Len(windows'[g][p])] >= windows[g][p][Len(windows[g][p])]]_vars

\* A collection that has started ends: neither the semaphore, the result channel nor the
\* closing goroutine can leave the loop waiting forever.
CollectionEnds == loop = "list" ~> loop \in {"select", "stopped"}

\* A cancelled collector stops, although ctx.Done is only looked at between collections.
CancelStops == cancelled ~> loop = "stopped"

-----------------------------------------------------------------------------
(* Inductive invariants, for the proofs of CollectorProofs *)

Collecting == loop \in {"spawn", "drain", "ready"}

\* A goroutine, a pending group and a buffered result belong to the collection in progress; a
\* group has at most one buffered result, and only after its goroutine has sent it.
ControlInv ==
    /\ Collecting => round >= 1
    /\ pending \subseteq listed
    /\ loop # "spawn" => pending = {}
    /\ \A g \in Groups : worker[g] # "none" => Collecting /\ g \in listed \ pending
    /\ closed => loop # "spawn" /\ \A g \in Groups : worker[g] = "none"
    /\ ~Collecting => results = <<>>
    /\ \A i \in 1..Len(results) :
          /\ results[i].group \in listed \ pending
          /\ worker[results[i].group] \in {"release", "finish", "none"}
    /\ \A i, j \in 1..Len(results) : results[i].group = results[j].group => i = j
    /\ ConcurrencyLimit

\* The result of g is still under way to the store.
Outstanding(g) ==
    \/ g \in pending
    \/ worker[g] \in {"offsets", "eval", "send"}
    \/ \E i \in 1..Len(results) : results[i].group = g

\* A result under way is for a group that this collection has neither stored nor counted as an
\* error; the others have been stored or counted.
StoreInv ==
    /\ \A g \in Groups : statusStore[g].round <= round
    /\ \A g \in Groups : worker[g] = "eval" => acc[g].round = round
    /\ \A g \in Groups : worker[g] = "send" => acc[g].round \in {0, round}
    /\ \A i \in 1..Len(results) :
          /\ results[i].err <=> results[i].status.round = 0
          /\ results[i].status.round \in {0, round}
    /\ \A g \in listed : Outstanding(g) => statusStore[g].round < round /\ g \notin failed
    /\ \A g \in listed : ~Outstanding(g) => (statusStore[g].round = round <=> g \notin failed)
    /\ (hasCollected \/ loop = "ready") => \E g \in Groups : statusStore[g] # NoStatus

\* What this collection has stored shows in hasCollected before the next result is taken.
PublishedInv ==
    LET published == \E g \in Groups : statusStore[g].round = round
    IN  /\ loop = "ready" => published
        /\ loop \in {"spawn", "drain"} /\ published => hasCollected

\* A status of this collection is under way for g.
Carries(g) ==
    \/ worker[g] = "eval"
    \/ worker[g] = "send" /\ acc[g].round = round
    \/ \E i \in 1..Len(results) : results[i].group = g /\ ~results[i].err

\* All records of a window are of collections up to r.
UpTo(w, r) == \A i \in 1..Len(w) : w[i] \in 1..r

\* No record is newer than the status of its group unless a newer status is under way.
RecordInv ==
    \A g \in Groups, p \in Partitions :
        /\ UpTo(windows[g][p], round)
        /\ UpTo(windows[g][p], statusStore[g].round) \/ Carries(g)

\* The lists a goroutine has built so far hold evaluated partitions, each once.
HealthInv ==
    /\ \A g \in Groups : worker[g] = "eval" =>
          LET st == acc[g]
          IN  /\ st.critical \cup st.warning \cup st.healthy \subseteq st.of \ todo[g]
              /\ todo[g] \subseteq st.of
              /\ st.critical \cap st.warning = {}
              /\ (st.critical \cup st.warning) \cap st.healthy = {}
    /\ \A g \in Groups : worker[g] = "send" /\ acc[g].round # 0 => Summarises(acc[g])
    /\ \A i \in 1..Len(results) : ~results[i].err => Summarises(results[i].status)
    /\ \A g \in Groups : statusStore[g] # NoStatus => Summarises(statusStore[g])

\* A group that is not evaluated yet has no record of this collection; every record of it is in the
\* lists that a goroutine builds or sends, that wait in the channel or that are stored.
CoverInv ==
    /\ \A g \in Groups : g \in pending \/ worker[g] = "offsets" => Recorded(g, round) = {}
    /\ \A g \in Groups : worker[g] \in {"eval", "send"} /\ acc[g].round # 0 => Covers(g, acc[g])
    /\ \A i \in 1..Len(results) : ~results[i].err => Covers(results[i].group, results[i].status)
    /\ \A g \in Groups : statusStore[g] # NoStatus => Covers(g, statusStore[g])
=============================================================================
