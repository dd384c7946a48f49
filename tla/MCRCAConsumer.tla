---------------------------- MODULE MCRCAConsumer ----------------------------
(* Small instances of RCAConsumer. *)
EXTENDS RCAConsumer

CONSTANTS c1, c2   \* consumer names
=============================================================================
