--------------------------- MODULE MCClusterManager ---------------------------
(* A small instance of ClusterManager. *)
EXTENDS ClusterManager

CONSTANTS a,   \* a cluster name
          op   \* an operator

JustOne == <<a>>

\* Plain, with a slash, the words of the routes in and at the end of an id, and ids with segments
\* that ServeMux minds, a trailing slash being none.
Ids == {<<"g">>, <<"h", "g">>, <<"groups", "status", "g">>, <<"g", "groups", "h">>,
        <<"status">>, <<"g", "groups">>, <<"g", "">>, <<"g", "", "h">>, <<"..", "g">>}
=============================================================================
