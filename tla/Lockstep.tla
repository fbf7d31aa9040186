------------------------------ MODULE Lockstep ------------------------------
(***************************************************************************)
(* What a halo exchange promises to an iterative program: nobody begins    *)
(* another round before all its neighbours have begun the one it is in.    *)
(* There is no barrier; nodes that are further apart may drift, by a round *)
(* for each hop between them.  A failure sets everybody back.              *)
(***************************************************************************)
EXTENDS Integers

CONSTANTS
  Node,     \* the processes
  Near,     \* the neighbours of each, as a function
  Rounds    \* how many rounds there are

VARIABLE round   \* the round each node has begun, -1 before the first

NotBegun == [p \in Node |-> -1]

Init == round = NotBegun

Advance(p) ==
  /\ round[p] + 1 < Rounds
  /\ \A q \in Near[p] : round[p] <= round[q]
  /\ round' = [round EXCEPT ![p] = @ + 1]

Restart == round' = NotBegun

Next == Restart \/ \E p \in Node : Advance(p)

Spec == Init /\ [][Next]_round
=============================================================================
