----------------------------- MODULE PullEvents -----------------------------
(***************************************************************************)
(* The pull side of one process: the handle storage and the polling loop   *)
(* of libxpti (xpti/ftb/xptftb.c) under the one-event slot of libxpt       *)
(* (XPT_base.c).  The process is single threaded; FTB queues events for    *)
(* its subscriptions from another thread, so an event may arrive between   *)
(* any two probes of the polling loop.                                     *)
(*                                                                         *)
(* Init is the state after XPT_init and XPT_phdl_init(N): every caller in  *)
(* the repository makes these two calls once, before any other, and goes   *)
(* on whether or not FTB_Connect succeeded.                                *)
(***************************************************************************)
EXTENDS Integers, Sequences

CONSTANTS
  N,         \* n_phdl, the argument of XPTI_phdl_init
  Signal,    \* FTB event names
  Payload,   \* event payloads, told apart only by identity
  MaxQueue,  \* bound: undelivered events FTB holds for one subscription
  NoSub,     \* a handle FTB does not know: zeroed, or unsubscribed
  NoEvent    \* a receive buffer never written

ASSUME NAssumption == N \in Nat \ {0}
ASSUME MaxQueueAssumption == MaxQueue \in Nat \ {0}
ASSUME NoSubAssumption == NoSub \notin Signal

Slot == 0 .. N - 1
NULL == -1          \* the null pointer, and "not inside the polling loop"
Event == [name : Signal, payload : Payload]

ASSUME NoEventAssumption == NoEvent \notin Event

VARIABLES
  running,         \* the process has not called exit()
  connected,       \* FTB_Connect done and FTB_Disconnect not yet
  used,            \* phdl[i].used
  hdl,             \* phdl[i].hdl: the signal it is subscribed to, or NoSub
  flexible,        \* FTB holds the flexible subscription made in shdl[0]
  evt,             \* phdl[i].evt, the receive buffer of slot i
  last_polling,    \* static int last_polling
  scan,            \* loop variable i of XPTI_poll_pull_event, or NULL
  restate_pull,    \* "XPT_RES_NULL" or "XPT_RES_RECIEVED"
  pulled_event,    \* slot whose evt.event_name is pointed to, or NULL
  pulled_payload,  \* slot whose evt.event_payload is pointed to, or NULL
  queue,           \* FTB (external): undelivered events of phdl[i].hdl
  bypass           \* history: events other slots delivered while i waited

vars == <<running, connected, used, hdl, flexible, evt, last_polling, scan,
          restate_pull, pulled_event, pulled_payload, queue, bypass>>

slotVars == <<restate_pull, pulled_event, pulled_payload>>
poolVars == <<used, hdl, flexible, queue, bypass>>

-----------------------------------------------------------------------------
Init ==
  /\ running = TRUE
  /\ connected \in BOOLEAN
  /\ used = [i \in Slot |-> FALSE]
  /\ hdl = [i \in Slot |-> NoSub]
  /\ flexible = FALSE
  /\ evt = [i \in Slot |-> NoEvent]
  /\ last_polling = -1
  /\ scan = NULL
  /\ restate_pull = "XPT_RES_NULL"
  /\ pulled_event = NULL
  /\ pulled_payload = NULL
  /\ queue = [i \in Slot |-> <<>>]
  /\ bypass = [i \in Slot |-> 0]

(* The application may make a library call: no call is in progress. *)
Idle == running /\ scan = NULL

(* FTB has an event for the handle stored in slot i. *)
Ready(i) == queue[i] # <<>>

-----------------------------------------------------------------------------
(* The scan for a free slot stops at the first one that is not in use. *)
FirstUnused(i) ==
  /\ ~ used[i]
  /\ \A j \in 0 .. i - 1 : used[j]

(* A new subscription overwrites the slot's handle.  One that was still    *)
(* live there, because FTB_Unsubscribe had failed, stays inside FTB, where *)
(* nothing polls or ends it any more.                                      *)
NewSubscription(i, s) ==
  /\ hdl' = [hdl EXCEPT ![i] = s]
  /\ queue' = [queue EXCEPT ![i] = <<>>]
  /\ bypass' = [bypass EXCEPT ![i] = 0]

(* XPT_pull_subscribe: the slot is marked used whatever FTB answers. *)
PullSubscribe(s) ==
  /\ Idle
  /\ \E i \in Slot :
       /\ FirstUnused(i)
       /\ used' = [used EXCEPT ![i] = TRUE]
       /\ \/ connected /\ NewSubscription(i, s)
          \/ UNCHANGED <<hdl, queue, bypass>>         \* FTB_Subscribe failed
  /\ UNCHANGED <<running, connected, flexible, evt, last_polling, scan, slotVars>>

(* XPTI_pull_subscribe_flexible marks the pull slot but hands FTB the push *)
(* handle shdl[i]: the pull slot's own handle stays as it was, and the     *)
(* pull side neither polls the new subscription nor ends it.  shdl has one *)
(* element: only i = 0 is defined behaviour, and modelled.                 *)
PullSubscribeFlexible ==
  /\ Idle
  /\ FirstUnused(0)
  /\ used' = [used EXCEPT ![0] = TRUE]
  /\ \/ connected /\ flexible' = TRUE
     \/ UNCHANGED flexible                           \* FTB_Subscribe failed
  /\ UNCHANGED <<running, connected, hdl, evt, last_polling, scan, queue,
                 bypass, slotVars>>

(* XPT_push_unsubscribe ends what shdl[0] holds, a flexible subscription   *)
(* too; if FTB_Unsubscribe fails nothing changes.                          *)
PushUnsubscribe ==
  /\ Idle
  /\ flexible
  /\ flexible' = FALSE
  /\ UNCHANGED <<running, connected, used, hdl, evt, last_polling, scan, queue,
                 bypass, slotVars>>

(* "pull handler storage is exhausted": ERROR_EXIT. *)
StorageExhausted ==
  /\ Idle
  /\ \A i \in Slot : used[i]
  /\ running' = FALSE
  /\ UNCHANGED <<connected, evt, last_polling, scan, poolVars, slotVars>>

(* The subscriptions of the slots in S end; FTB drops their events. *)
EndSubscriptions(S) ==
  /\ hdl' = [i \in Slot |-> IF i \in S THEN NoSub ELSE hdl[i]]
  /\ queue' = [i \in Slot |-> IF i \in S THEN <<>> ELSE queue[i]]
  /\ bypass' = [i \in Slot |-> IF i \in S THEN 0 ELSE bypass[i]]

(* XPT_pull_unsubscribe: all used slots at once, there is no partial form. *)
(* What FTB_Unsubscribe answers is dropped: the subscriptions of S end,    *)
(* the others stay live in slots that are no longer marked used, and the   *)
(* polling loop, which probes every slot, goes on delivering them.         *)
PullUnsubscribe ==
  /\ Idle
  /\ \E S \in SUBSET {i \in Slot : used[i]} : EndSubscriptions(S)
  /\ used' = [i \in Slot |-> FALSE]
  /\ UNCHANGED <<running, connected, flexible, evt, last_polling, scan, slotVars>>

(* XPT_fini: FTB_Disconnect ends every subscription, the storage stays; if *)
(* it fails nothing changes.                                               *)
Fini ==
  /\ Idle
  /\ connected
  /\ connected' = FALSE
  /\ EndSubscriptions(Slot)
  /\ flexible' = FALSE
  /\ UNCHANGED <<running, used, evt, last_polling, scan, slotVars>>

-----------------------------------------------------------------------------
(* Mutant of PollBegin: the check of restate_pull is lost. *)
PollBegin_Unguarded ==
  /\ Idle
  /\ last_polling' = last_polling + 1
  /\ scan' = 0
  /\ UNCHANGED <<running, connected, evt, poolVars, slotVars>>

(* XPT_poll_pull_event goes on to poll only when the slot is free, and     *)
(* XPTI_poll_pull_event starts one past the slot that answered last.       *)
PollBegin ==
  /\ Idle
  /\ restate_pull = "XPT_RES_NULL"
  /\ last_polling' = last_polling + 1
  /\ scan' = 0
  /\ UNCHANGED <<running, connected, evt, poolVars, slotVars>>

(* Mutant of Chk: the rotation is lost. *)
Chk_Unrotated == scan

(* The slot the loop polls in this iteration: every slot, used or not. *)
Chk == (scan + last_polling) % N

(* Bookkeeping of the history variable when slot c delivers an event. *)
CountBypass(c) ==
  bypass' = [i \in Slot |-> IF i # c /\ Ready(i) THEN bypass[i] + 1 ELSE 0]

(* Mutant of PollHit: the payload is looked up with the loop variable. *)
PollHit_PayloadAtLoopIndex ==
  /\ running
  /\ scan # NULL
  /\ Ready(Chk)
  /\ evt' = [evt EXCEPT ![Chk] = Head(queue[Chk])]
  /\ queue' = [queue EXCEPT ![Chk] = Tail(@)]
  /\ pulled_event' = Chk
  /\ last_polling' = Chk
  /\ pulled_payload' = scan
  /\ restate_pull' = "XPT_RES_RECIEVED"
  /\ scan' = NULL
  /\ CountBypass(Chk)
  /\ UNCHANGED <<running, connected, used, hdl, flexible>>

(* FTB_Poll_event fills the slot's buffer; the loop stops, last_polling is *)
(* the answering slot, and the payload is looked up through last_polling.  *)
PollHit ==
  /\ running
  /\ scan # NULL
  /\ Ready(Chk)
  /\ evt' = [evt EXCEPT ![Chk] = Head(queue[Chk])]
  /\ queue' = [queue EXCEPT ![Chk] = Tail(@)]
  /\ pulled_event' = Chk
  /\ last_polling' = Chk
  /\ pulled_payload' = last_polling'
  /\ restate_pull' = "XPT_RES_RECIEVED"
  /\ scan' = NULL
  /\ CountBypass(Chk)
  /\ UNCHANGED <<running, connected, used, hdl, flexible>>

(* Mutant of PollMiss: last_polling is not written back after the loop. *)
PollMiss_CounterKept ==
  /\ running
  /\ scan # NULL
  /\ ~ Ready(Chk)
  /\ scan' = IF scan + 1 < N THEN scan + 1 ELSE NULL
  /\ UNCHANGED <<running, connected, evt, last_polling, poolVars, slotVars>>

(* No event on this handle, or a handle FTB rejects: go on, or give up     *)
(* after the last slot with last_polling on that slot.                     *)
PollMiss ==
  /\ running
  /\ scan # NULL
  /\ ~ Ready(Chk)
  /\ IF scan + 1 < N
       THEN scan' = scan + 1 /\ UNCHANGED last_polling
       ELSE scan' = NULL /\ last_polling' = Chk
  /\ UNCHANGED <<running, connected, evt, poolVars, slotVars>>

(* Mutant of PullDone: the slot is not given back. *)
PullDone_SlotKept ==
  /\ Idle
  /\ restate_pull = "XPT_RES_RECIEVED"
  /\ UNCHANGED vars

(* XPT_pull_done, which XPT_CHECKED expands to. *)
PullDone ==
  /\ Idle
  /\ restate_pull = "XPT_RES_RECIEVED"
  /\ restate_pull' = "XPT_RES_NULL"
  /\ UNCHANGED <<running, connected, evt, last_polling, scan, poolVars,
                 pulled_event, pulled_payload>>

-----------------------------------------------------------------------------
(* XPTI_publish by this process or a peer: FTB queues the event for every  *)
(* matching subscription.  MaxQueue bounds the model.                      *)
Publish(s, p) ==
  LET matching == {i \in Slot : hdl[i] = s}
  IN  /\ matching # {}
      /\ \A i \in matching : Len(queue[i]) < MaxQueue
      /\ queue' = [i \in Slot |->
                     IF i \in matching
                       THEN Append(queue[i], [name |-> s, payload |-> p])
                       ELSE queue[i]]
      /\ UNCHANGED <<running, connected, used, hdl, flexible, evt, last_polling,
                     scan, slotVars, bypass>>

-----------------------------------------------------------------------------
(* The three library steps that finish a poll or free the slot. *)
Poll == PollBegin \/ PollHit \/ PollMiss

Next ==
  \/ \E s \in Signal : PullSubscribe(s)
  \/ PullSubscribeFlexible
  \/ PushUnsubscribe
  \/ StorageExhausted
  \/ PullUnsubscribe
  \/ Fini
  \/ Poll
  \/ PullDone
  \/ \E s \in Signal, p \in Payload : Publish(s, p)

Spec == Init /\ [][Next]_vars

(* The application runs the loop of libxpt.h's usage comment (XPT_POLL     *)
(* around XPT_CHECK ... XPT_CHECKED): it keeps polling and releases what   *)
(* it got.  No program in the repository calls XPT_pull_done; this is how  *)
(* the library asks to be used.                                            *)
Fairness == WF_vars(Poll) /\ WF_vars(PullDone)

FairSpec == Spec /\ Fairness

-----------------------------------------------------------------------------
(* Every variable has its type, the pointers stay inside the storage and   *)
(* last_polling inside -1 .. N-1 (0 .. N while the loop runs).             *)
TypeOK ==
  /\ running \in BOOLEAN
  /\ connected \in BOOLEAN
  /\ used \in [Slot -> BOOLEAN]
  /\ hdl \in [Slot -> Signal \cup {NoSub}]
  /\ flexible \in BOOLEAN
  /\ evt \in [Slot -> Event \cup {NoEvent}]
  /\ scan \in Slot \cup {NULL}
  /\ last_polling \in IF scan = NULL THEN -1 .. N - 1 ELSE 0 .. N
  /\ restate_pull \in {"XPT_RES_NULL", "XPT_RES_RECIEVED"}
  /\ pulled_event \in Slot \cup {NULL}
  /\ pulled_payload \in Slot \cup {NULL}
  /\ queue \in [Slot -> Seq(Event)]
  /\ bypass \in [Slot -> Nat]

(* The round robin of XPTI_poll_pull_event: while an event waits on one    *)
(* subscription, the others deliver at most N-1 events, whatever arrives   *)
(* during the scans.                                                       *)
BoundedBypass == \A i \in Slot : bypass[i] <= N - 1

(* The event an application holds.  Name and payload come through two      *)
(* pointers that two different functions set.                              *)
Held ==
  IF restate_pull = "XPT_RES_NULL"
    THEN NoEvent
    ELSE [name |-> evt[pulled_event].name, payload |-> evt[pulled_payload].payload]

(* The event read through the library's pointers does not change between   *)
(* its receipt and XPT_pull_done, whatever is polled, cancelled or closed  *)
(* meanwhile: the buffers are reused, the slot state must protect them.    *)
HeldEventStable ==
  [][restate_pull = "XPT_RES_RECIEVED" /\ restate_pull' = "XPT_RES_RECIEVED"
       => Held' = Held]_vars

(* The library implements the mailbox: what the application reads is the   *)
(* oldest event of one subscription, taken once and kept intact.           *)
Box == INSTANCE Mailbox WITH pending <- queue, box <- Held
ImplementsMailbox == Box!Spec

(* Under the documented polling loop every waiting event is delivered,     *)
(* unless its subscription ends or the process exits.                      *)
NoStarvation ==
  \A i \in Slot :
    Ready(i) ~> \/ restate_pull = "XPT_RES_RECIEVED" /\ pulled_payload = i
                \/ ~ Ready(i)
                \/ ~ running
=============================================================================
