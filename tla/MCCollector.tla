----------------------------- MODULE MCCollector -----------------------------
(* Small instances of Collector. *)
EXTENDS CollectorRefinement, TLC

CONSTANTS a, b,  \* segments of group ids
          p, q   \* partitions

TwoGroups == {<<a>>, <<b>>}

OnePartition == {p}

TwoPartitions == {p, q}

\* Group ids are interchangeable as long as no id holds a colon.
Symmetric == Permutations({a, b})
=============================================================================
