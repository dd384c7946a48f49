------------------------------- MODULE Sharding -------------------------------
(***************************************************************************)
(* AssignGroups of distributed/coordinator/sharding.go.  The consistent    *)
(* hashing library is external: with at least one member, LocateKey finds  *)
(* a member for every key, so a ring is a function from groups to          *)
(* instances.                                                              *)
(***************************************************************************)

\* consistent.New: what LocateKey may answer.
Rings(groups, instances) == [groups -> instances]

\* Every instance has an entry; without instances the map is empty.
AssignGroups(groups, instances, ring) == [i \in instances |-> {g \in groups : ring[g] = i}]

\* The maps AssignGroups may return for some of these instances.
Assignments(groups, instances) ==
    {<<>>} \cup UNION {{AssignGroups(groups, is, ring) : ring \in Rings(groups, is)} :
                       is \in SUBSET instances \ {{}}}
=============================================================================
