------------------------- MODULE CollectorRefinement -------------------------
(* Collector implements AbstractCollection. *)
EXTENDS Collector

\* The groups of this collection whose result has not reached the store.
Unaccounted == {g \in listed : Outstanding(g)}

Phase == CASE loop \in {"list", "select"} -> "idle"
           [] loop = "stopped" -> "stopped"
           [] OTHER -> "collecting"

Abstract == INSTANCE AbstractCollection WITH
    phase <- Phase,
    left <- Unaccounted,
    store <- [g \in Groups |-> statusStore[g].round],
    ready <- hasCollected

\* Semaphore, goroutines, result channel and wait group (collector.go:204-249) come to this: each
\* listed group is published or counted as failed, once, and only then the collection is over.
ImplementsCollection == Abstract!Spec
=============================================================================
