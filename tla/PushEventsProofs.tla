-------------------------- MODULE PushEventsProofs --------------------------
(***************************************************************************)
(* Proofs about PushEvents for every list of XPT_CATCH clauses and every   *)
(* strcmp the C standard allows.                                           *)
(***************************************************************************)
EXTENDS PushEvents, TLAPS

USE DEF Clause, Out, Body

(* What a poll that jumps does. *)
LEMMA PollPushFacts ==
  ASSUME TypeOK, PollPush
  PROVE  /\ Head(queue) \in Event /\ Tail(queue) \in Seq(Event)
         /\ evt' = Head(queue) /\ queue' = Tail(queue)
         /\ restate_push = "XPT_RES_NULL" /\ restate_push' = "XPT_RES_RECIEVED"
         /\ at' \in Clause \cup {Out}
         /\ at' \in Clause => Catches(at', evt'.name)
         /\ UNCHANGED <<sub, pushed_payload>>
<1>1. queue \in Seq(Event) /\ queue # <<>>
  BY DEF TypeOK, PollPush
<1>2. Head(queue) \in Event /\ Tail(queue) \in Seq(Event)
  BY <1>1
<1>3. PICK where \in Clause \cup {Out} : JumpsTo(evt'.name, where) /\ at' = where
  BY DEF PollPush
<1>4. at' \in Clause => Catches(at', evt'.name)
  BY <1>3 DEF JumpsTo
<1> QED
  BY <1>2, <1>3, <1>4 DEF PollPush

(* Type correctness: a slot marked as holding an event has a buffer that   *)
(* FTB has written, from XPT_init on.                                      *)
THEOREM PushTypeCorrect == Spec => []TypeOK
<1>1. Init => TypeOK
  BY DEF Init, TypeOK
<1>2. TypeOK /\ [Next]_vars => TypeOK'
  <2> SUFFICES ASSUME TypeOK, [Next]_vars
               PROVE  TypeOK'
    OBVIOUS
  <2> USE DEF TypeOK
  <2>1. ASSUME NEW s \in Signal, PushSubscribe(s)
        PROVE  TypeOK'
    BY <2>1 DEF PushSubscribe
  <2>2. CASE PushUnsubscribe
    BY <2>2 DEF PushUnsubscribe
  <2>3. ASSUME NEW s \in Signal, NEW p \in Payload, Publish(s, p)
        PROVE  TypeOK'
    <3>1. [name |-> s, payload |-> p] \in Event
      BY DEF Event
    <3>2. Append(queue, [name |-> s, payload |-> p]) \in Seq(Event)
      BY <3>1
    <3> QED
      BY <3>2, <2>3 DEF Publish
  <2>4. CASE Try
    BY <2>4 DEF Try
  <2>5. CASE BodyEnds
    BY <2>5 DEF BodyEnds
  <2>6. CASE PollPush
    <3> HIDE DEF TypeOK
    <3>1. /\ Head(queue) \in Event /\ Tail(queue) \in Seq(Event)
          /\ evt' = Head(queue) /\ queue' = Tail(queue)
          /\ restate_push' = "XPT_RES_RECIEVED"
          /\ at' \in Clause \cup {Out}
          /\ UNCHANGED <<sub, pushed_payload>>
      BY <2>6, PollPushFacts
    <3> QED
      BY <3>1 DEF TypeOK
  <2>7. CASE Catched
    BY <2>7 DEF Catched
  <2>8. CASE ClauseEnds
    BY <2>8 DEF ClauseEnds
  <2>9. CASE UNCHANGED vars
    BY <2>9 DEF vars
  <2> QED
    BY <2>1, <2>2, <2>3, <2>4, <2>5, <2>6, <2>7, <2>8, <2>9 DEF Next
<1> QED
  BY <1>1, <1>2, PTL DEF Spec

(* The push getters never return an event, not even to a clause that       *)
(* handles one: the test application's clause reads a null payload.        *)
THEOREM PushGettersEmpty == Spec => [](XPT_push_get_payload = NoEvent)
<1>1. TypeOK => XPT_push_get_payload = NoEvent
  BY DEF TypeOK, XPT_push_get_payload
<1> QED
  BY <1>1, PushTypeCorrect, PTL

(* No poll, wherever it is called, takes control out of a clause that has  *)
(* not called XPT_CATCHED yet.                                             *)
THEOREM ClauseRunsToCatched == Spec => ClauseNotPreempted
<1>1. [Next]_vars
        => [(at \in Clause /\ restate_push = "XPT_RES_RECIEVED") => at' = at]_vars
  <2> SUFFICES ASSUME [Next]_vars, at \in Clause, restate_push = "XPT_RES_RECIEVED"
               PROVE  at' = at
    OBVIOUS
  <2>1. at # Out /\ at # Body
    OBVIOUS
  <2> QED
    BY <2>1 DEF Next, vars, PushSubscribe, PushUnsubscribe, Publish, Try, BodyEnds,
                PollPush, Catched, ClauseEnds
<1> QED
  BY <1>1, PTL DEF Spec, ClauseNotPreempted

(* The refinement: the push side is a mailbox with one subscription. *)
THEOREM PushRefinement == Spec => ImplementsMailbox
<1> DEFINE held == IF restate_push = "XPT_RES_NULL" THEN NoEvent ELSE evt
           pend == [i \in {0} |-> queue]
<1>1. Init => Box!Init
  BY DEF Init, Box!Init
<1>2. TypeOK /\ [Next]_vars => [Box!Next]_(Box!vars)
  <2> SUFFICES ASSUME TypeOK, [Next]_vars
               PROVE  Box!Next \/ (pend' = pend /\ held' = held)
    BY DEF Box!vars
  <2>1. ASSUME held' = held, queue' = <<>>
        PROVE  Box!Next
    <3>1. Box!Cancel({0})
      BY <2>1 DEF Box!Cancel
    <3> QED
      BY <3>1 DEF Box!Next
  <2>2. ASSUME NEW s \in Signal, PushSubscribe(s)
        PROVE  Box!Next
    BY <2>1, <2>2 DEF PushSubscribe
  <2>3. CASE PushUnsubscribe
    BY <2>1, <2>3 DEF PushUnsubscribe
  <2>4. ASSUME NEW s \in Signal, NEW p \in Payload, Publish(s, p)
        PROVE  Box!Next
    <3>1. [name |-> s, payload |-> p] \in Event
      BY DEF Event
    <3>2. Box!Arrive({0}, [name |-> s, payload |-> p])
      BY <2>4 DEF Publish, Box!Arrive
    <3> QED
      BY <3>1, <3>2 DEF Box!Next
  <2>5. CASE PollPush
    <3>1. /\ held = NoEvent /\ held' = Head(queue)
          /\ queue' = Tail(queue)
      BY <2>5, PollPushFacts
    <3>2. Box!Take(0)
      BY <2>5, <3>1 DEF Box!Take, PollPush
    <3> QED
      BY <3>2 DEF Box!Next
  <2>6. CASE Catched
    BY <2>6 DEF Catched, Box!Next, Box!Release
  <2>7. CASE Try \/ BodyEnds \/ ClauseEnds \/ UNCHANGED vars
    BY <2>7 DEF Try, BodyEnds, ClauseEnds, vars
  <2> QED
    BY <2>2, <2>3, <2>4, <2>5, <2>6, <2>7 DEF Next
<1> QED
  BY <1>1, <1>2, PushTypeCorrect, PTL DEF Spec, ImplementsMailbox, Box!Spec

-----------------------------------------------------------------------------
(* Behind the counterexample to CatchMatchesEvent: the clause test wants   *)
(* strcmp to return XPT_JMPBACK, so with no C library at all does a clause *)
(* ever run for the event it names.                                        *)
OwnClauseNeverRuns == at \in Clause => evt.name # Clauses[at]

THEOREM OwnClauseUnreachable == Spec => []OwnClauseNeverRuns
<1>1. Init => OwnClauseNeverRuns
  BY DEF Init, OwnClauseNeverRuns
<1>2. TypeOK /\ OwnClauseNeverRuns /\ [Next]_vars => OwnClauseNeverRuns'
  <2> SUFFICES ASSUME TypeOK, OwnClauseNeverRuns, [Next]_vars, at' \in Clause
               PROVE  evt'.name # Clauses[at']
    BY DEF OwnClauseNeverRuns
  <2>1. CASE PollPush
    <3>1. /\ evt' \in Event
          /\ Catches(at', evt'.name)
      BY <2>1, PollPushFacts
    <3>2. evt'.name \in Signal /\ Clauses[at'] \in Signal
      BY <3>1, ClausesAssumption DEF Event
    <3>3. Strcmp(evt'.name, Clauses[at']) = 1
      BY <3>1 DEF Catches, XPT_JMPBACK
    <3> QED
      BY <3>2, <3>3, StrcmpAssumption
  <2>2. CASE ~ PollPush
    <3>0. at' # Out /\ at' # Body
      OBVIOUS
    <3>1. evt' = evt /\ at' = at
      BY <2>2, <3>0 DEF Next, vars, PushSubscribe, PushUnsubscribe, Publish, Try,
                  BodyEnds, Catched, ClauseEnds
    <3> QED
      BY <3>1 DEF OwnClauseNeverRuns
  <2> QED
    BY <2>1, <2>2
<1> QED
  BY <1>1, <1>2, PushTypeCorrect, PTL DEF Spec
=============================================================================
