---------------------------- MODULE AssignmentStore ----------------------------
(***************************************************************************)
(* The group assignments of distributed/state/state_store.go: a Redis hash *)
(* with one field per instance and a timestamp under a key of its own,     *)
(* written together in a transaction and read by two commands.  Redis is   *)
(* external and may fail to run a command.  What is stored is what         *)
(* AssignGroups of Sharding returned; a field is the number of the store   *)
(* that wrote it, JSON is left out.                                        *)
(***************************************************************************)
EXTENDS Integers, FiniteSets, Sharding

CONSTANTS
    Instances,          \* instance ids
    Groups,             \* consumer groups to be assigned
    Callers,            \* users of the store, one call at a time each
    AssignmentTimeout,  \* Config.AssignmentTimeout
    Unreliable,         \* commands may fail
    MaxStores,          \* bound on the number of stores
    MaxClock            \* bound on time

ASSUME AssignmentAssumption ==
    /\ AssignmentTimeout \in Nat \ {0}
    /\ Unreliable \in BOOLEAN
    /\ MaxStores \in Nat /\ MaxClock \in Nat

VARIABLES
    clock,   \* time
    hash,    \* Redis: the store that wrote the field of each instance, or NoField
    stamp,   \* Redis: the timestamp, and when its key expires
    pc,      \* where a caller is
    number,  \* the number of the store that is about to write
    made,    \* the timestamp it is about to write
    seen,    \* when a reader found a timestamp that is not too old, or Unstamped
    served,  \* the map that its GetAssignments returned
    stores,  \* number of stores so far
    plan,    \* the map of assignments that each store is given
    latest,  \* history: the store that was executed last, 0 for none
    written, \* history: when each store was executed
    told     \* history: what was latest when a reader got its map, or Refused for an error

redis == <<hash, stamp>>
writer == <<number, made>>
reader == <<seen, served, told>>
executed == <<latest, written>>
vars == <<clock, redis, pc, writer, reader, stores, plan, executed>>

NoField == 0
Unstamped == -1
NoFields == [i \in Instances |-> NoField]
Refused == -1

Init ==
    /\ clock = 0
    /\ hash = [i \in Instances |-> NoField]
    /\ stamp = [time |-> 0, expires |-> 0]
    /\ pc = [c \in Callers |-> "idle"]
    /\ number = [c \in Callers |-> 0]
    /\ made = [c \in Callers |-> 0]
    /\ seen = [c \in Callers |-> Unstamped]
    /\ served = [c \in Callers |-> NoFields]
    /\ stores = 0
    /\ plan = [n \in 1..MaxStores |-> <<>>]
    /\ latest = 0
    /\ written = [n \in 1..MaxStores |-> 0]
    /\ told = [c \in Callers |-> Refused]

\* A caller forgets what its last GetAssignments saw and returned.
Forget(c) ==
    /\ seen' = [seen EXCEPT ![c] = Unstamped]
    /\ served' = [served EXCEPT ![c] = NoFields]
    /\ told' = [told EXCEPT ![c] = Refused]

-----------------------------------------------------------------------------
(* StoreAssignments *)

\* time.Now().UTC().Unix()
Timestamp == clock

\* The commands of the transaction are put together, the timestamp among them.
StoreAssignments(c, assignments) ==
    /\ pc[c] = "idle"
    /\ stores < MaxStores
    /\ stores' = stores + 1
    /\ pc' = [pc EXCEPT ![c] = "exec"]
    /\ plan' = [plan EXCEPT ![stores + 1] = assignments]
    /\ number' = [number EXCEPT ![c] = stores + 1]
    /\ made' = [made EXCEPT ![c] = Timestamp]
    /\ Forget(c)
    /\ UNCHANGED <<clock, redis, executed>>

\* Mutant: the hash is not deleted first.
ReplacedMerges(c) == [i \in Instances |-> IF i \in DOMAIN plan[number[c]] THEN number[c] ELSE hash[i]]

\* DEL, and one HSET per instance.
Replaced(c) == [i \in Instances |-> IF i \in DOMAIN plan[number[c]] THEN number[c] ELSE NoField]

WriterReturns(c) ==
    /\ pc' = [pc EXCEPT ![c] = "idle"]
    /\ number' = [number EXCEPT ![c] = 0]
    /\ made' = [made EXCEPT ![c] = 0]
    /\ UNCHANGED <<clock, reader, stores, plan>>

\* Redis executes the transaction.
Execute(c) ==
    /\ pc[c] = "exec"
    /\ hash' = Replaced(c)
    /\ stamp' = [time |-> made[c], expires |-> clock + 2 * AssignmentTimeout]
    /\ latest' = number[c]
    /\ written' = [written EXCEPT ![number[c]] = clock]

\* EXEC; whether its reply arrives makes no difference to anybody else.
Exec(c) == Execute(c) /\ WriterReturns(c)

\* The reply is lost and go-redis will send the transaction again.
ExecRepeated(c) ==
    /\ Unreliable
    /\ Execute(c)
    /\ UNCHANGED <<clock, pc, writer, reader, stores, plan>>

ExecFails(c) ==
    /\ pc[c] = "exec"
    /\ Unreliable
    /\ WriterReturns(c)
    /\ UNCHANGED <<redis, executed>>

-----------------------------------------------------------------------------
(* GetAssignments *)

GetAssignments(c) ==
    /\ pc[c] = "idle"
    /\ pc' = [pc EXCEPT ![c] = "stamp"]
    /\ Forget(c)
    /\ UNCHANGED <<clock, redis, writer, stores, plan, executed>>

\* Mutant: compares with the time to live of the timestamp.
TooOldLate(t) == clock - t > 2 * AssignmentTimeout

TooOld(t) == clock - t > AssignmentTimeout

\* GET finds a timestamp that is not too old.
StampFresh(c) ==
    /\ pc[c] = "stamp"
    /\ clock < stamp.expires
    /\ ~TooOld(stamp.time)
    /\ seen' = [seen EXCEPT ![c] = clock]
    /\ pc' = [pc EXCEPT ![c] = "fields"]
    /\ UNCHANGED <<clock, redis, writer, served, told, stores, plan, executed>>

\* GET finds a timestamp that is too old: an error is returned.
StampTooOld(c) ==
    /\ pc[c] = "stamp"
    /\ clock < stamp.expires
    /\ TooOld(stamp.time)
    /\ pc' = [pc EXCEPT ![c] = "idle"]
    /\ UNCHANGED <<clock, redis, writer, reader, stores, plan, executed>>

\* GET finds no timestamp, or fails: the assignments are read all the same.
StampUnknown(c) ==
    /\ pc[c] = "stamp"
    /\ clock >= stamp.expires \/ Unreliable
    /\ pc' = [pc EXCEPT ![c] = "fields"]
    /\ UNCHANGED <<clock, redis, writer, reader, stores, plan, executed>>

\* HGETALL: without a field the map is empty, and no error.
ReadFields(c) ==
    /\ pc[c] = "fields"
    /\ served' = [served EXCEPT ![c] = hash]
    /\ told' = [told EXCEPT ![c] = latest]
    /\ pc' = [pc EXCEPT ![c] = "idle"]
    /\ UNCHANGED <<clock, redis, writer, seen, stores, plan, executed>>

ReadFieldsFails(c) ==
    /\ pc[c] = "fields"
    /\ Unreliable
    /\ pc' = [pc EXCEPT ![c] = "idle"]
    /\ UNCHANGED <<clock, redis, writer, reader, stores, plan, executed>>

-----------------------------------------------------------------------------

Tick ==
    /\ clock < MaxClock
    /\ clock' = clock + 1
    /\ UNCHANGED <<redis, pc, writer, reader, stores, plan, executed>>

Step(c) ==
    \/ \E assignments \in Assignments(Groups, Instances) : StoreAssignments(c, assignments)
    \/ Exec(c) \/ ExecRepeated(c) \/ ExecFails(c)
    \/ GetAssignments(c)
    \/ StampFresh(c) \/ StampTooOld(c) \/ StampUnknown(c)
    \/ ReadFields(c) \/ ReadFieldsFails(c)

Next == Tick \/ \E c \in Callers : Step(c)

Spec == Init /\ [][Next]_vars

-----------------------------------------------------------------------------
(* Properties *)

\* The instances that have to watch group g, as far as caller c was told.
WatchersOf(c, g) == {i \in Instances : served[c][i] # NoField /\ g \in plan[served[c][i]][i]}

\* Whoever gets a map gets that of the store executed last, as a whole, however stores and reads
\* overlap: it is told one instance for each group, none watched twice and none forgotten.  The map
\* is empty only if that store was given no instances, which erases all assignments there were
\* (sharding.go:74, state_store.go:174), or if nothing was stored yet.
EveryGroupWatchedOnce ==
    \A c \in Callers : told[c] # Refused =>
        IF told[c] = 0 \/ plan[told[c]] = <<>> THEN served[c] = NoFields
        ELSE \A g \in Groups : Cardinality(WatchersOf(c, g)) = 1

\* The assignments a store wrote longer than AssignmentTimeout before t.
Stale(n, t) == n # NoField /\ t - written[n] > AssignmentTimeout

\* The two reads of GetAssignments are not atomic: assignments that passed the check of the
\* timestamp were not stale at that time, even if others have been stored in between.
CheckedIsFresh ==
    \A c \in Callers, i \in Instances : seen[c] # Unstamped => ~Stale(served[c][i], seen[c])
=============================================================================
