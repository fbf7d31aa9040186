------------------------------- MODULE Mailbox -------------------------------
(***************************************************************************)
(* What the pull side of the event library promises its application,       *)
(* without the handle storage, the round robin or the receive buffers:     *)
(* every subscription is a FIFO of undelivered events, and the application *)
(* holds at most one event, which stays exactly as it was taken until the  *)
(* application releases it.                                                *)
(***************************************************************************)
EXTENDS Sequences

CONSTANTS
  Slot,     \* the subscriptions a process may hold
  Event,    \* the events a peer may publish
  NoEvent   \* the content of an empty box

VARIABLES
  pending,  \* per subscription, the events not yet taken, oldest first
  box       \* the event the application holds, or NoEvent

vars == <<pending, box>>

Init ==
  /\ pending = [i \in Slot |-> <<>>]
  /\ box = NoEvent

(* An event reaches every subscription that matches it, in one step. *)
Arrive(S, e) ==
  /\ pending' = [i \in Slot |-> IF i \in S THEN Append(pending[i], e)
                                           ELSE pending[i]]
  /\ UNCHANGED box

(* The oldest event of some subscription becomes the held one. *)
Take(i) ==
  /\ box = NoEvent
  /\ pending[i] # <<>>
  /\ box' = Head(pending[i])
  /\ pending' = [pending EXCEPT ![i] = Tail(@)]

Release ==
  /\ box' = NoEvent
  /\ UNCHANGED pending

(* Ending subscriptions drops what they had not delivered, never the box. *)
Cancel(S) ==
  /\ pending' = [i \in Slot |-> IF i \in S THEN <<>> ELSE pending[i]]
  /\ UNCHANGED box

Next ==
  \/ \E S \in SUBSET Slot, e \in Event : Arrive(S, e)
  \/ \E i \in Slot : Take(i)
  \/ Release
  \/ \E S \in SUBSET Slot : Cancel(S)

Spec == Init /\ [][Next]_vars
=============================================================================
