-------------------------- MODULE MCAssignmentStore --------------------------
(* Small instances of AssignmentStore. *)
EXTENDS AssignmentStore, TLC

CONSTANTS i1, i2,     \* instance ids
          c1, c2, c3, \* callers
          g1, g2      \* groups

Symmetric == Permutations({i1, i2}) \cup Permutations({c1, c2, c3})
             \cup Permutations({g1, g2})
=============================================================================
