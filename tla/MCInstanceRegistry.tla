-------------------------- MODULE MCInstanceRegistry --------------------------
(* Small instances of InstanceRegistry. *)
EXTENDS InstanceRegistry, TLC

CONSTANTS i1, i2,   \* instance ids
          c1, c2, c3  \* callers

Symmetric == Permutations({c1, c2, c3}) \cup Permutations({i1, i2})
=============================================================================
