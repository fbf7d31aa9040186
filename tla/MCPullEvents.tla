---------------------------- MODULE MCPullEvents ----------------------------
(* Small instances of PullEvents for TLC. *)
EXTENDS PullEvents, TLC

(* Signals and payloads are only compared for equality. *)
Symmetry == Permutations(Signal) \cup Permutations(Payload)
=============================================================================
