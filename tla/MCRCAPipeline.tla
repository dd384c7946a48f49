---------------------------- MODULE MCRCAPipeline ----------------------------
(* A small instance of RCAPipeline. *)
EXTENDS RCAPipeline

CONSTANTS w1, w2,   \* goroutines of a collection
          p1, k1,   \* a publisher and its cluster
          s1,       \* an event subject
          c1        \* a consumer
=============================================================================
