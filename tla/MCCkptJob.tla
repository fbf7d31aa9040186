---------------------------- MODULE MCCkptJob ----------------------------
(* Four ranks: root, its two neighbours, and one that is two hops away. *)
EXTENDS CkptJob
=============================================================================
