-------------------------- MODULE AbstractCollection --------------------------
(***************************************************************************)
(* What collector.go promises a reader of its status store, without       *)
(* goroutines, channels or windows: a collection takes the listed groups  *)
(* in any order, publishes each or counts it as failed, exactly once, and *)
(* is ready once it has published.  A status is the number of the         *)
(* collection it is from, 0 for none.                                     *)
(***************************************************************************)
EXTENDS Integers

CONSTANTS Groups, MaxRounds

VARIABLES
    phase,      \* "idle", "collecting" or "stopped"
    round,      \* number of collections begun
    left,       \* groups of this collection that are neither published nor failed
    failed,     \* groups of this collection that failed
    store,      \* status of each group
    ready,      \* what IsReady answers
    cancelled   \* the collector was told to stop

vars == <<phase, round, left, failed, store, ready, cancelled>>

Init ==
    /\ phase = "idle" /\ round = 0 /\ left = {} /\ failed = {}
    /\ store = [g \in Groups |-> 0]
    /\ ready = FALSE /\ cancelled = FALSE

Begin(gs) ==
    /\ phase = "idle" /\ round < MaxRounds
    /\ phase' = "collecting" /\ round' = round + 1
    /\ left' = gs /\ failed' = {}
    /\ UNCHANGED <<store, ready, cancelled>>

Publish(g) ==
    /\ phase = "collecting" /\ g \in left
    /\ left' = left \ {g}
    /\ store' = [store EXCEPT ![g] = round]
    /\ UNCHANGED <<phase, round, failed, ready, cancelled>>

Fail(g) ==
    /\ phase = "collecting" /\ g \in left
    /\ left' = left \ {g}
    /\ failed' = failed \cup {g}
    /\ UNCHANGED <<phase, round, store, ready, cancelled>>

MarkReady ==
    /\ phase = "collecting"
    /\ \E g \in Groups : store[g] = round
    /\ ready' = TRUE
    /\ UNCHANGED <<phase, round, left, failed, store, cancelled>>

\* A collection ends when every group is accounted for, and ready if it published any.
End ==
    /\ phase = "collecting" /\ left = {}
    /\ (\E g \in Groups : store[g] = round) => ready
    /\ phase' = "idle"
    /\ UNCHANGED <<round, left, failed, store, ready, cancelled>>

Cancel ==
    /\ ~cancelled
    /\ cancelled' = TRUE
    /\ UNCHANGED <<phase, round, left, failed, store, ready>>

\* Only between collections.
Stop ==
    /\ phase = "idle" /\ cancelled
    /\ phase' = "stopped"
    /\ UNCHANGED <<round, left, failed, store, ready, cancelled>>

Next ==
    \/ \E gs \in SUBSET Groups : Begin(gs)
    \/ \E g \in Groups : Publish(g) \/ Fail(g)
    \/ MarkReady \/ End \/ Cancel \/ Stop

Spec == Init /\ [][Next]_vars
=============================================================================
