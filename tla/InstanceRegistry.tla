--------------------------- MODULE InstanceRegistry ---------------------------
(***************************************************************************)
(* The instance records of distributed/state/state_store.go: one key with  *)
(* a time to live per LagRadar instance, written and listed by any number  *)
(* of callers.  The methods are sequences of Redis commands; each command  *)
(* is one step here, so calls of different callers interleave between      *)
(* them.  Redis is external: a command may fail before it took effect      *)
(* ("request") or after ("reply"), and go-redis repeats one whose reply is *)
(* lost before it gives up.                                                *)
(*                                                                         *)
(* JSON and metadata are left out.                                         *)
(***************************************************************************)
EXTENDS Integers, FiniteSets

CONSTANTS
    Instances,        \* instance ids
    Callers,          \* goroutines or processes that use the store, one call at a time each
    Calls,            \* the methods they call
    InstanceTTL,      \* Config.InstanceTTL
    InstanceTimeout,  \* the timeout given to GetActiveInstances
    OfflineTTL,       \* the 30*time.Second of MarkInstanceOffline
    MaxIterations,    \* MaxIterations, 100 in the code
    Faults,           \* subset of {"request", "reply"}
    MaxCalls,         \* bound on the calls of one caller
    MaxClock          \* bound on time

Methods == {"register", "heartbeat", "offline", "list"}

ASSUME RegistryAssumption ==
    /\ Calls \subseteq Methods /\ Faults \subseteq {"request", "reply"}
    /\ InstanceTTL \in Nat \ {0} /\ OfflineTTL \in Nat \ {0} /\ InstanceTimeout \in Nat
    /\ MaxIterations \in Nat /\ MaxCalls \in Nat /\ MaxClock \in Nat

VARIABLES
    clock,     \* time
    info,      \* Redis: the InstanceInfo under each key, and when the key expires
    call,      \* the method a caller is in, or was in last
    pc,        \* where it is in that method
    arg,       \* instanceID, or Nobody
    data,      \* the InstanceInfo it has read or made
    started,   \* when the call began; now of GetActiveInstances
    scans,     \* iterations
    left,      \* keys the SCAN cursor has not passed
    page,      \* keys of the page whose values are being read
    found,     \* instances
    returned,  \* how the latest call ended
    calls,     \* number of calls so far
    always,    \* history: instances that were active from the start of a listing on
    ever,      \* history: instances that were active at some time during a listing
    retired    \* history: MarkInstanceOffline returned nil and nothing revives the instance since

local == <<data, scans, left, page, found>>
vars == <<clock, info, call, pc, arg, started, local, returned, calls, always, ever, retired>>

Nobody == "nobody"
\* The key is there until its time to live is over.
Exists(i) == clock < info[i].expires

\* The test of GetActiveInstances for a value it has read.
Counts(i, t) == t - info[i].heartbeat < InstanceTimeout /\ info[i].status = "active"

Blank == [status |-> "active", heartbeat |-> 0]

\* Redis holds the records of instances that registered before.
Init ==
    /\ clock = 0
    /\ info \in [Instances -> [status : {"active"}, heartbeat : {0}, expires : {0, InstanceTTL}]]
    /\ call = [c \in Callers |-> "none"]
    /\ pc = [c \in Callers |-> "idle"]
    /\ arg = [c \in Callers |-> Nobody]
    /\ data = [c \in Callers |-> Blank]
    /\ started = [c \in Callers |-> 0]
    /\ scans = [c \in Callers |-> 0]
    /\ left = [c \in Callers |-> {}]
    /\ page = [c \in Callers |-> {}]
    /\ found = [c \in Callers |-> {}]
    /\ returned = [c \in Callers |-> "none"]
    /\ calls = [c \in Callers |-> 0]
    /\ always = [c \in Callers |-> {}]
    /\ ever = [c \in Callers |-> {}]
    /\ retired = [i \in Instances |-> FALSE]

-----------------------------------------------------------------------------
(* Calls and returns *)

\* A call begins; what it notes before its first command is noted here.
Begin(c, method, i, at) ==
    /\ method \in Calls
    /\ pc[c] = "idle"
    /\ calls[c] < MaxCalls
    /\ pc' = [pc EXCEPT ![c] = at]
    /\ call' = [call EXCEPT ![c] = method]
    /\ arg' = [arg EXCEPT ![c] = i]
    /\ started' = [started EXCEPT ![c] = clock]
    /\ found' = [found EXCEPT ![c] = {}]
    /\ returned' = [returned EXCEPT ![c] = "none"]
    /\ calls' = [calls EXCEPT ![c] = @ + 1]
    /\ UNCHANGED <<clock, info, scans, page>>

\* The instance is marked offline, and no call that could revive it is under way.
Retires(c) ==
    /\ call[c] = "offline"
    /\ \A d \in Callers : pc[d] # "idle" /\ call[d] \in {"register", "heartbeat"} => arg[d] # arg[c]

Return(c, how) ==
    /\ pc' = [pc EXCEPT ![c] = "idle"]
    /\ returned' = [returned EXCEPT ![c] = how]
    /\ arg' = [arg EXCEPT ![c] = Nobody]
    /\ started' = [started EXCEPT ![c] = 0]
    /\ data' = [data EXCEPT ![c] = Blank]
    /\ scans' = [scans EXCEPT ![c] = 0]
    /\ retired' = IF how = "ok" /\ Retires(c) THEN [retired EXCEPT ![arg[c]] = TRUE] ELSE retired
    /\ UNCHANGED <<clock, call, calls>>

\* The outcomes of a command that took effect.
Outcome == {"ok"} \cup (IF "reply" \in Faults THEN {"error"} ELSE {})

\* A command fails without effect; every method returns the error.
CommandFails(c) ==
    /\ "request" \in Faults
    /\ pc[c] # "idle"
    /\ Return(c, "error")
    /\ left' = [left EXCEPT ![c] = {}]
    /\ page' = [page EXCEPT ![c] = {}]
    /\ UNCHANGED <<info, found>>

-----------------------------------------------------------------------------
(* RegisterInstance and UpdateHeartbeat *)

Fresh == [status |-> "active", heartbeat |-> clock]

RegisterInstance(c, i) ==
    /\ Begin(c, "register", i, "set")
    /\ data' = [data EXCEPT ![c] = Fresh]
    /\ retired' = [retired EXCEPT ![i] = FALSE]
    /\ UNCHANGED <<left>>

\* The record that the call has made or changed, with its time to live.
Stored(c, ttl) == [status |-> data[c].status, heartbeat |-> data[c].heartbeat, expires |-> clock + ttl]

\* SET
Store(c, ttl) == info' = [info EXCEPT ![arg[c]] = Stored(c, ttl)]

SetInstance(c) ==
    /\ pc[c] = "set"
    /\ Store(c, InstanceTTL)
    /\ \E how \in Outcome : Return(c, how)
    /\ UNCHANGED <<left, page, found>>

UpdateHeartbeat(c, i) ==
    /\ Begin(c, "heartbeat", i, "exists")
    /\ retired' = [retired EXCEPT ![i] = FALSE]
    /\ UNCHANGED <<data, left>>

\* EXISTS says 0: the heartbeat goes on as RegisterInstance.
ExistsNo(c) ==
    /\ pc[c] = "exists"
    /\ ~Exists(arg[c])
    /\ pc' = [pc EXCEPT ![c] = "set"]
    /\ data' = [data EXCEPT ![c] = Fresh]
    /\ UNCHANGED <<clock, info, call, arg, started, scans, left, page, found, returned, calls, retired>>

ExistsYes(c) ==
    /\ pc[c] = "exists"
    /\ Exists(arg[c])
    /\ pc' = [pc EXCEPT ![c] = "expire"]
    /\ UNCHANGED <<clock, info, call, arg, started, local, returned, calls, retired>>

\* Mutant: the key is written again, also when it has gone meanwhile.
ExpireSets(c) ==
    /\ pc[c] = "expire"
    /\ info' = [info EXCEPT ![arg[c]].expires = clock + InstanceTTL]
    /\ \E how \in Outcome : Return(c, how)
    /\ UNCHANGED <<left, page, found>>

\* EXPIRE renews the time to live of a key that is still there, and is no error otherwise.
Renew(c) ==
    info' = IF Exists(arg[c]) THEN [info EXCEPT ![arg[c]].expires = clock + InstanceTTL] ELSE info

Expire(c) ==
    /\ pc[c] = "expire"
    /\ Renew(c)
    /\ \E how \in Outcome : Return(c, how)
    /\ UNCHANGED <<left, page, found>>

-----------------------------------------------------------------------------
(* MarkInstanceOffline *)

MarkInstanceOffline(c, i) ==
    /\ Begin(c, "offline", i, "get")
    /\ UNCHANGED <<data, left, retired>>

\* GET says nil: the instance is already gone.
GetNil(c) ==
    /\ pc[c] = "get"
    /\ ~Exists(arg[c])
    /\ Return(c, "ok")
    /\ UNCHANGED <<info, left, page, found>>

\* Mutant: the status is left as it was read.
OfflinedKeepsStatus(c) == [status |-> info[arg[c]].status, heartbeat |-> clock]

\* What becomes of the info that was read.
Offlined(c) == [status |-> "offline", heartbeat |-> clock]

\* The changed info is written back in a later step.
GetInfo(c) ==
    /\ pc[c] = "get"
    /\ Exists(arg[c])
    /\ data' = [data EXCEPT ![c] = Offlined(c)]
    /\ pc' = [pc EXCEPT ![c] = "setoffline"]
    /\ UNCHANGED <<clock, info, call, arg, started, scans, left, page, found, returned, calls, retired>>

SetOffline(c) ==
    /\ pc[c] = "setoffline"
    /\ Store(c, OfflineTTL)
    /\ \E how \in Outcome : Return(c, how)
    /\ UNCHANGED <<left, page, found>>

-----------------------------------------------------------------------------
(* GetActiveInstances *)

GetActiveInstances(c) ==
    /\ Begin(c, "list", Nobody, "scan")
    /\ left' = [left EXCEPT ![c] = Instances]
    /\ UNCHANGED <<data, retired>>

\* On to the next page, or the end of the listing; n is the number of SCANs so far.
NextPage(c, n) ==
    IF left'[c] = {}
    THEN Return(c, "ok")
    ELSE /\ pc' = [pc EXCEPT ![c] = "scan"]
         /\ scans' = [scans EXCEPT ![c] = n]
         /\ UNCHANGED <<clock, call, arg, started, data, returned, calls, retired>>

\* SCAN passes some keys, or only keys of other kinds, and answers those that are there.
Scan(c, keys) ==
    /\ pc[c] = "scan"
    /\ scans[c] < MaxIterations
    /\ left' = [left EXCEPT ![c] = @ \ keys]
    /\ page' = [page EXCEPT ![c] = {i \in keys : Exists(i)}]
    /\ IF page'[c] = {}
       THEN NextPage(c, scans[c] + 1)
       ELSE /\ pc' = [pc EXCEPT ![c] = "values"]
            /\ scans' = [scans EXCEPT ![c] = @ + 1]
            /\ UNCHANGED <<clock, call, arg, started, data, returned, calls, retired>>
    /\ UNCHANGED <<info, found>>

\* Mutant: the limit ends the listing as the last page does.
TooManyScansOK(c) ==
    /\ pc[c] = "scan"
    /\ scans[c] >= MaxIterations
    /\ Return(c, "ok")
    /\ left' = [left EXCEPT ![c] = {}]
    /\ UNCHANGED <<info, page, found>>

\* The limit is reached: what was found so far is returned with an error.
TooManyScans(c) ==
    /\ pc[c] = "scan"
    /\ scans[c] >= MaxIterations
    /\ Return(c, "error")
    /\ left' = [left EXCEPT ![c] = {}]
    /\ UNCHANGED <<info, page, found>>

\* A pipeline of GETs reads the page; keys that have gone since are skipped.
ReadPage(c) ==
    /\ pc[c] = "values"
    /\ found' = [found EXCEPT ![c] = @ \cup {i \in page[c] : Exists(i) /\ Counts(i, started[c])}]
    /\ page' = [page EXCEPT ![c] = {}]
    /\ UNCHANGED <<info, left>>
    /\ NextPage(c, scans[c])

-----------------------------------------------------------------------------
(* The client library *)

\* The reply to a command that writes is lost and go-redis will send it again, so that it takes
\* effect more than once, with the calls of others in between.
Repeated(c) ==
    /\ "reply" \in Faults
    /\ \/ pc[c] = "set" /\ Store(c, InstanceTTL)
       \/ pc[c] = "expire" /\ Renew(c)
       \/ pc[c] = "setoffline" /\ Store(c, OfflineTTL)
    /\ UNCHANGED <<clock, call, pc, arg, started, local, returned, calls, retired>>

-----------------------------------------------------------------------------

Tick ==
    /\ clock < MaxClock
    /\ clock' = clock + 1
    /\ UNCHANGED <<info, call, pc, arg, started, local, returned, calls, retired>>

\* What a listing that is under way could have seen.
IsActive(i, t) == Exists(i) /\ t - info[i].heartbeat < InstanceTimeout /\ info[i].status = "active"

Observe ==
    LET Seen(c) == {i \in Instances : IsActive(i, started[c])}
        Record(c, old, both) == CASE call'[c] # "list" -> {}
                                  [] call'[c] = "list" /\ pc'[c] = "idle" -> old
                                  [] call'[c] = "list" /\ pc[c] = "idle" /\ pc'[c] # "idle" -> Seen(c)'
                                  [] OTHER -> both
    IN  /\ always' = [c \in Callers |-> Record(c, always[c], always[c] \cap Seen(c)')]
        /\ ever' = [c \in Callers |-> Record(c, ever[c], ever[c] \cup Seen(c)')]

Step(c) ==
    \/ CommandFails(c)
    \/ SetInstance(c) \/ ExistsNo(c) \/ ExistsYes(c) \/ Expire(c)
    \/ GetNil(c) \/ GetInfo(c) \/ SetOffline(c)
    \/ \E keys \in SUBSET left[c] : Scan(c, keys)
    \/ TooManyScans(c) \/ ReadPage(c)
    \/ Repeated(c)

Request(c) ==
    \/ \E i \in Instances : RegisterInstance(c, i) \/ UpdateHeartbeat(c, i) \/ MarkInstanceOffline(c, i)
    \/ GetActiveInstances(c)

Next ==
    /\ Tick \/ \E c \in Callers : Request(c) \/ Step(c)
    /\ Observe

Spec == Init /\ [][Next]_vars

-----------------------------------------------------------------------------
(* Properties *)

\* A listing is read page by page while instances come and go.  It misses no instance that was
\* active all the time, and has none that was active at no time.
ListingIsAccurate ==
    \A c \in Callers : (call[c] = "list" /\ returned[c] = "ok") =>
        always[c] \subseteq found[c] /\ found[c] \subseteq ever[c]

\* When MarkInstanceOffline has returned nil and nobody registers the instance or sends a heartbeat
\* for it, it is not active.
RetiredIsNotActive ==
    \A i \in Instances : retired[i] => ~(Exists(i) /\ info[i].status = "active")

\* A heartbeat brings nothing back by itself: an instance whose key expired, be it between the
\* EXISTS and the EXPIRE of a heartbeat, or that was marked offline becomes active only by the SET
\* of a registration.
RevivedByRegistration ==
    [][\A i \in Instances :
         (~(Exists(i) /\ info[i].status = "active") /\ (Exists(i) /\ info[i].status = "active")')
             => \E c \in Callers :
                    pc[c] = "set" /\ arg[c] = i /\ info'[i] = Stored(c, InstanceTTL)]_vars
=============================================================================
