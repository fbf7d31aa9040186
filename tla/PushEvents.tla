----------------------------- MODULE PushEvents -----------------------------
(***************************************************************************)
(* The push side of one process: the single push handle of libxpti, the    *)
(* one-event slot of XPT_base.c above it, and the XPT_TRY / XPT_CATCH      *)
(* construct of libxpt.h, which the application enters with sigsetjmp and  *)
(* XPT_poll_push_event leaves with siglongjmp when an event has come.      *)
(***************************************************************************)
EXTENDS Integers, Sequences

CONSTANTS
  Signal,         \* FTB event names
  Payload,        \* event payloads, told apart only by identity
  Clauses,        \* the names of the XPT_CATCH clauses, in program order
  Strcmp(_, _),   \* what the C library's strcmp returns for two names
  MaxQueue,       \* bound: undelivered events FTB holds for the handle
  NoSub,          \* a handle FTB does not know
  NoEvent         \* a receive buffer never written

ASSUME ClausesAssumption == Clauses \in Seq(Signal)
ASSUME MaxQueueAssumption == MaxQueue \in Nat \ {0}
ASSUME NoSubAssumption == NoSub \notin Signal

(* All the C standard says of strcmp that this code depends on. *)
ASSUME StrcmpAssumption ==
  \A a, b \in Signal : Strcmp(a, b) \in Int /\ (Strcmp(a, b) = 0 <=> a = b)

Event == [name : Signal, payload : Payload]

ASSUME NoEventAssumption == NoEvent \notin Event

XPT_JMPBACK == 1
Clause == 1 .. Len(Clauses)
Out == 0            \* the application is outside the construct
Body == -1          \* the application is in the body of XPT_TRY

VARIABLES
  sub,             \* shdl[0].hdl: the signal it is subscribed to, or NoSub
  queue,           \* FTB (external): undelivered events of that handle
  evt,             \* shdl[0].evt, the receive buffer
  restate_push,    \* "XPT_RES_NULL" or "XPT_RES_RECIEVED"
  pushed_payload,  \* the pointer XPT_push_get_payload returns: "NULL" or "evt"
  at               \* where the application is: Out, Body or a clause

vars == <<sub, queue, evt, restate_push, pushed_payload, at>>

-----------------------------------------------------------------------------
(* Mutant of Init: the slot state is not cleared. *)
Init_SlotDirty ==
  /\ sub = NoSub
  /\ queue = <<>>
  /\ evt = NoEvent
  /\ restate_push = "XPT_RES_RECIEVED"
  /\ pushed_payload = "NULL"
  /\ at = Out

(* XPT_init clears the slot; the handle is zeroed with the structure. *)
Init ==
  /\ sub = NoSub
  /\ queue = <<>>
  /\ evt = NoEvent
  /\ restate_push = "XPT_RES_NULL"
  /\ pushed_payload = "NULL"
  /\ at = Out

(* XPT_push_subscribe overwrites the one handle.  The events of an earlier *)
(* subscription stay inside FTB, where nothing can poll them any more.     *)
PushSubscribe(s) ==
  /\ sub' = s
  /\ queue' = <<>>
  /\ UNCHANGED <<evt, restate_push, pushed_payload, at>>

PushUnsubscribe ==
  /\ sub' = NoSub
  /\ queue' = <<>>
  /\ UNCHANGED <<evt, restate_push, pushed_payload, at>>

(* XPTI_publish by a peer. *)
Publish(s, p) ==
  /\ sub = s
  /\ Len(queue) < MaxQueue
  /\ queue' = Append(queue, [name |-> s, payload |-> p])
  /\ UNCHANGED <<sub, evt, restate_push, pushed_payload, at>>

-----------------------------------------------------------------------------
(* XPT_TRY: sigsetjmp returns 0 and the body starts. *)
Try ==
  /\ at = Out
  /\ at' = Body
  /\ UNCHANGED <<sub, queue, evt, restate_push, pushed_payload>>

(* The body comes to its end, past the clauses. *)
BodyEnds ==
  /\ at = Body
  /\ at' = Out
  /\ UNCHANGED <<sub, queue, evt, restate_push, pushed_payload>>

(* The test of an XPT_CATCH clause on the pushed event's name. *)
Catches(c, name) == Strcmp(name, Clauses[c]) = XPT_JMPBACK

(* Where control is after siglongjmp: the first clause whose test holds,   *)
(* or behind the construct when none does.                                 *)
JumpsTo(name, where) ==
  \/ /\ where \in Clause
     /\ Catches(where, name)
     /\ \A c \in 1 .. where - 1 : ~ Catches(c, name)
  \/ /\ where = Out
     /\ \A c \in Clause : ~ Catches(c, name)

(* Mutants of PollPush: the check of restate_push is lost; the jump is     *)
(* taken before the slot is marked.                                        *)
PollPush_Unguarded ==
  /\ at # Out
  /\ queue # <<>>
  /\ evt' = Head(queue)
  /\ queue' = Tail(queue)
  /\ restate_push' = "XPT_RES_RECIEVED"
  /\ \E where \in Clause \cup {Out} : JumpsTo(evt'.name, where) /\ at' = where
  /\ UNCHANGED <<sub, pushed_payload>>

PollPush_JumpFirst ==
  /\ at # Out
  /\ restate_push = "XPT_RES_NULL"
  /\ queue # <<>>
  /\ evt' = Head(queue)
  /\ queue' = Tail(queue)
  /\ \E where \in Clause \cup {Out} : JumpsTo(evt'.name, where) /\ at' = where
  /\ UNCHANGED <<sub, restate_push, pushed_payload>>

(* XPT_poll_push_event with an event to deliver, called from the body or   *)
(* from a clause.  In all other cases the call changes nothing.            *)
PollPush ==
  /\ at # Out
  /\ restate_push = "XPT_RES_NULL"
  /\ queue # <<>>
  /\ evt' = Head(queue)
  /\ queue' = Tail(queue)
  /\ restate_push' = "XPT_RES_RECIEVED"
  /\ \E where \in Clause \cup {Out} : JumpsTo(evt'.name, where) /\ at' = where
  /\ UNCHANGED <<sub, pushed_payload>>

(* XPT_CATCHED, that is XPT_push_done, which every clause calls. *)
Catched ==
  /\ at \in Clause
  /\ restate_push = "XPT_RES_RECIEVED"
  /\ restate_push' = "XPT_RES_NULL"
  /\ UNCHANGED <<sub, queue, evt, pushed_payload, at>>

(* A clause that has called XPT_CATCHED ends behind the construct, or goes *)
(* back into the body as the test application does.                        *)
ClauseEnds ==
  /\ at \in Clause
  /\ restate_push = "XPT_RES_NULL"
  /\ at' \in {Out, Body}
  /\ UNCHANGED <<sub, queue, evt, restate_push, pushed_payload>>

Next ==
  \/ \E s \in Signal : PushSubscribe(s)
  \/ PushUnsubscribe
  \/ \E s \in Signal, p \in Payload : Publish(s, p)
  \/ Try
  \/ BodyEnds
  \/ PollPush
  \/ Catched
  \/ ClauseEnds

Spec == Init /\ [][Next]_vars

-----------------------------------------------------------------------------
(* What the two push getters return while an event is held: both give the  *)
(* payload pointer, which no function sets.                                *)
XPT_push_get_payload ==
  IF restate_push = "XPT_RES_NULL" \/ pushed_payload = "NULL"
    THEN NoEvent
    ELSE evt.payload

(* Every variable has its type, and a slot marked as holding an event is   *)
(* backed by a buffer that FTB has written; the payload pointer stays as   *)
(* XPT_init left it.                                                       *)
TypeOK ==
  /\ sub \in Signal \cup {NoSub}
  /\ queue \in Seq(Event)
  /\ evt \in Event \cup {NoEvent}
  /\ restate_push \in {"XPT_RES_NULL", "XPT_RES_RECIEVED"}
  /\ restate_push = "XPT_RES_RECIEVED" => evt \in Event
  /\ pushed_payload = "NULL"
  /\ at \in Clause \cup {Out, Body}

(* A clause is never left, for another clause or for anywhere else, before *)
(* it has called XPT_CATCHED: the polls inside it must not jump.           *)
ClauseNotPreempted ==
  [][(at \in Clause /\ restate_push = "XPT_RES_RECIEVED") => at' = at]_vars

(* The push side keeps the same promise as the pull side: the application  *)
(* holds one event, the oldest of its subscription, untouched until it is  *)
(* done with it, even across unsubscribing and subscribing again.          *)
Box == INSTANCE Mailbox
         WITH Slot <- {0},
              pending <- [i \in {0} |-> queue],
              box <- IF restate_push = "XPT_RES_NULL" THEN NoEvent ELSE evt
ImplementsMailbox == Box!Spec

(* The usage comment of libxpt.h: the clause of XPT_CATCH(xptinfo,         *)
(* "EVENT1") handles EVENT1.                                               *)
CatchMatchesEvent ==
  at \in Clause /\ restate_push = "XPT_RES_RECIEVED" => evt.name = Clauses[at]
=============================================================================
