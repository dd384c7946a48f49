--------------------------- MODULE MCEventPublisher ---------------------------
(* Small instances of EventPublisher. *)
EXTENDS EventPublisher, TLC

CONSTANTS p1, p2,   \* publishers
          c1, c2,   \* clusters
          s1        \* an event subject

\* Two LagRadar processes that watch the same cluster.
SameCluster == p1 :> c1 @@ p2 :> c1

\* Two clusters with a group and a topic of the same name.
TwoClusters == p1 :> c1 @@ p2 :> c2

Replicas == Permutations({p1, p2})
=============================================================================
