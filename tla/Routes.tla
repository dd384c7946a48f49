-------------------------------- MODULE Routes --------------------------------
(***************************************************************************)
(* How cmd/monitor/main.go and internal/api/cluster_handlers.go find out   *)
(* which cluster and group a request is about.  A path is the sequence of  *)
(* its segments after /api/v1/clusters/, so that strings.Split is the      *)
(* identity and a group id with slashes in it is several segments.         *)
(***************************************************************************)
EXTENDS Integers, Sequences

\* /api/v1/clusters/{cluster}/groups/{group}
GroupPath(n, g) == <<n, "groups">> \o g

Invalid == [kind |-> "invalid"]

\* parts[1] is what the handler is for, and there are enough parts.
Fits(path, kind, parts) == Len(path) >= parts /\ path[2] = kind

ClusterStatus(path) ==
    IF Fits(path, "status", 2) THEN [kind |-> "status", cluster |-> path[1]] ELSE Invalid

ClusterGroups(path) ==
    IF Fits(path, "groups", 2) THEN [kind |-> "groups", cluster |-> path[1]] ELSE Invalid

\* Mutant: only the part after "groups" is taken for the group id.
GroupPart(path) == <<path[3]>>

\* strings.Join(parts[2:], "/")
GroupID(path) == SubSeq(path, 3, Len(path))

ClusterGroupStatus(path) ==
    IF Fits(path, "groups", 3)
    THEN [kind |-> "group", cluster |-> path[1], group |-> GroupID(path)]
    ELSE Invalid

\* Whether net/http's ServeMux hands the path to its handler: it redirects one with an empty segment
\* (a trailing slash is no such thing), "." or ".." to the cleaned path, which is another one.
Clean(path) ==
    \A k \in 1..Len(path) : path[k] \notin {".", ".."} /\ (path[k] = "" => k = Len(path))

\* The switch of startHTTPServer: the suffixes are looked at before the group.
Route(path) ==
    LET last == path[Len(path)]
    IN  CASE ~Clean(path) -> [kind |-> "redirect"]
          [] Clean(path) /\ last = "status" -> ClusterStatus(path)
          [] Clean(path) /\ last = "groups" -> ClusterGroups(path)
          [] /\ Clean(path) /\ last \notin {"status", "groups"}
             /\ \E k \in 1..(Len(path) - 1) : path[k] = "groups" -> ClusterGroupStatus(path)
          [] OTHER -> [kind |-> "notFound"]

\* The key of GetAllGroupStatuses, fmt.Sprintf("%s/%s").
StatusKey(n, g) == <<n>> \o g

\* strings.SplitN(key, "/", 2)
SplitKey(key) == <<key[1], Tail(key)>>
=============================================================================
