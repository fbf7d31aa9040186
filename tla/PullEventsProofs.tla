-------------------------- MODULE PullEventsProofs --------------------------
(***************************************************************************)
(* Proofs about PullEvents for every pool size N, every set of signals and *)
(* payloads and every queue bound.                                         *)
(***************************************************************************)
EXTENDS PullEvents, TLAPS

USE DEF Slot, NULL

(* Below 2 * N, % N is one conditional subtraction. *)
LEMMA ModWrapsOnce ==
  ASSUME NEW n \in Nat \ {0}, NEW a \in 0 .. 2 * n - 1
  PROVE  a % n = IF a < n THEN a ELSE a - n
OBVIOUS

(* The polling loop's index expression: % wraps at most once, because the  *)
(* sum of a start in 0 .. N and an offset in 0 .. N-1 stays below 2 * N.   *)
LEMMA ChkInSlot ==
  ASSUME TypeOK, scan # NULL
  PROVE  /\ Chk \in Slot
         /\ Chk = IF scan + last_polling < N THEN scan + last_polling
                                             ELSE scan + last_polling - N
<1>1. /\ scan \in 0 .. N - 1
      /\ last_polling \in 0 .. N
  BY DEF TypeOK
<1>2. scan + last_polling \in 0 .. 2 * N - 1
  BY <1>1, NAssumption
<1>3. PICK a : a = scan + last_polling
  OBVIOUS
<1>4. a % N = IF a < N THEN a ELSE a - N
  BY <1>2, <1>3, NAssumption, ModWrapsOnce
<1>5. Chk = a % N
  BY <1>3 DEF Chk
<1> QED
  BY <1>1, <1>2, <1>3, <1>4, <1>5, NAssumption

-----------------------------------------------------------------------------
(* Type correctness, with the bounds of last_polling that the loop relies  *)
(* on when it indexes the handle storage.                                  *)
THEOREM TypeCorrect == Spec => []TypeOK
<1>1. Init => TypeOK
  <2> SUFFICES ASSUME Init
               PROVE  TypeOK
    OBVIOUS
  <2>1. /\ scan = NULL /\ last_polling = -1
        /\ used \in [Slot -> BOOLEAN]
        /\ hdl \in [Slot -> Signal \cup {NoSub}]
        /\ evt \in [Slot -> Event \cup {NoEvent}]
        /\ queue \in [Slot -> Seq(Event)]
        /\ bypass \in [Slot -> Nat]
    BY DEF Init
  <2>2. running \in BOOLEAN /\ connected \in BOOLEAN /\ flexible \in BOOLEAN
    BY Zenon DEF Init
  <2>3. /\ restate_pull \in {"XPT_RES_NULL", "XPT_RES_RECIEVED"}
        /\ pulled_event \in Slot \cup {NULL} /\ pulled_payload \in Slot \cup {NULL}
    BY DEF Init
  <2> QED
    BY <2>1, <2>2, <2>3, NAssumption DEF TypeOK
<1>2. TypeOK /\ [Next]_vars => TypeOK'
  <2> SUFFICES ASSUME TypeOK, [Next]_vars
               PROVE  TypeOK'
    OBVIOUS
  <2> USE NAssumption DEF TypeOK, Idle, slotVars, poolVars
  <2>1. ASSUME NEW s \in Signal, PullSubscribe(s)
        PROVE  TypeOK'
    <3>1. PICK i \in Slot :
            /\ used' = [used EXCEPT ![i] = TRUE]
            /\ NewSubscription(i, s) \/ UNCHANGED <<hdl, queue, bypass>>
      BY <2>1 DEF PullSubscribe
    <3>2. /\ hdl' \in [Slot -> Signal \cup {NoSub}]
          /\ queue' \in [Slot -> Seq(Event)]
          /\ bypass' \in [Slot -> Nat]
      <4>1. CASE NewSubscription(i, s)
        BY <4>1 DEF NewSubscription
      <4>2. CASE UNCHANGED <<hdl, queue, bypass>>
        BY <4>2
      <4> QED
        BY <3>1, <4>1, <4>2
    <3>3. used' \in [Slot -> BOOLEAN]
      BY <3>1
    <3> QED
      BY <2>1, <3>2, <3>3 DEF PullSubscribe
  <2>2. CASE PullSubscribeFlexible \/ PushUnsubscribe
    BY <2>2 DEF PullSubscribeFlexible, PushUnsubscribe
  <2>3. CASE StorageExhausted
    BY <2>3 DEF StorageExhausted
  <2>4. CASE PullUnsubscribe
    <3>1. PICK S \in SUBSET {i \in Slot : used[i]} : EndSubscriptions(S)
      BY <2>4 DEF PullUnsubscribe
    <3> QED
      BY <2>4, <3>1 DEF PullUnsubscribe, EndSubscriptions
  <2>5. CASE Fini
    <3>1. /\ hdl' = [i \in Slot |-> NoSub]
          /\ queue' = [i \in Slot |-> <<>>]
          /\ bypass' = [i \in Slot |-> 0]
      BY <2>5 DEF Fini, EndSubscriptions
    <3>2. /\ hdl' \in [Slot -> Signal \cup {NoSub}]
          /\ queue' \in [Slot -> Seq(Event)]
          /\ bypass' \in [Slot -> Nat]
      BY <3>1
    <3> QED
      BY <3>2, <2>5 DEF Fini
  <2>6. CASE PollBegin
    BY <2>6 DEF PollBegin
  <2>7. CASE PollHit
    <3>1. Chk \in Slot
      BY <2>7, ChkInSlot DEF PollHit
    <3>2. Head(queue[Chk]) \in Event /\ Tail(queue[Chk]) \in Seq(Event)
      <4>1. queue[Chk] \in Seq(Event) /\ queue[Chk] # <<>>
        BY <3>1, <2>7 DEF PollHit, Ready
      <4> HIDE DEF TypeOK
      <4> QED
        BY <4>1
    <3>3. evt' \in [Slot -> Event \cup {NoEvent}] /\ queue' \in [Slot -> Seq(Event)]
      BY <3>1, <3>2, <2>7 DEF PollHit
    <3>4. bypass' \in [Slot -> Nat]
      <4>1. bypass' = [i \in Slot |-> IF i # Chk /\ Ready(i) THEN bypass[i] + 1 ELSE 0]
        BY <2>7 DEF PollHit, CountBypass
      <4>2. \A i \in Slot : bypass[i] + 1 \in Nat
        OBVIOUS
      <4> HIDE DEF TypeOK
      <4> QED
        BY <4>1, <4>2
    <3> QED
      BY <3>1, <3>3, <3>4, <2>7 DEF PollHit
  <2>8. CASE PollMiss
    <3>1. Chk \in Slot
      BY <2>8, ChkInSlot DEF PollMiss
    <3>2. /\ scan' \in Slot \cup {NULL}
          /\ last_polling' \in IF scan' = NULL THEN -1 .. N - 1 ELSE 0 .. N
      <4>1. /\ scan \in 0 .. N - 1
            /\ last_polling \in 0 .. N
        BY <2>8 DEF PollMiss
      <4>2. CASE scan + 1 < N
        BY <4>1, <4>2, <2>8 DEF PollMiss
      <4>3. CASE ~ (scan + 1 < N)
        BY <4>3, <3>1, <2>8 DEF PollMiss
      <4> QED
        BY <4>2, <4>3
    <3> QED
      BY <3>2, <2>8 DEF PollMiss
  <2>9. CASE PullDone
    BY <2>9 DEF PullDone
  <2>10. ASSUME NEW s \in Signal, NEW p \in Payload, Publish(s, p)
         PROVE  TypeOK'
    <3>1. [name |-> s, payload |-> p] \in Event
      BY DEF Event
    <3>2. queue' \in [Slot -> Seq(Event)]
      <4>1. \A i \in Slot : Append(queue[i], [name |-> s, payload |-> p]) \in Seq(Event)
        BY <3>1
      <4> QED
        BY <4>1, <2>10 DEF Publish
    <3> QED
      BY <3>2, <2>10 DEF Publish
  <2>11. CASE UNCHANGED vars
    BY <2>11 DEF vars
  <2> QED
    BY <2>1, <2>2, <2>3, <2>4, <2>5, <2>6, <2>7, <2>8, <2>9, <2>10, <2>11
       DEF Next, Poll
<1> QED
  BY <1>1, <1>2, PTL DEF Spec

-----------------------------------------------------------------------------
(* Why the round robin bounds bypassing.  RRStart is where the current or  *)
(* the next scan begins, Turns(i) how many slots it probes before i.       *)
RRStart == IF scan = NULL THEN last_polling + 1 ELSE last_polling

Turns(i) == IF i >= RRStart THEN i - RRStart ELSE i - RRStart + N

(* Each event another slot delivers while i waits brings the start nearer  *)
(* to i by at least one; a slot the current scan has probed was empty      *)
(* then, so it has not been bypassed since.                                *)
RoundRobinInv ==
  \A i \in Slot :
    /\ bypass[i] + Turns(i) <= N - 1
    /\ ~ Ready(i) => bypass[i] = 0
    /\ scan # NULL /\ Turns(i) < scan => bypass[i] = 0

(* A step that moves neither the scan nor the start, and adds to no count, *)
(* keeps the invariant.                                                    *)
LEMMA RoundRobinFrame ==
  ASSUME TypeOK, RoundRobinInv,
         scan' = scan, last_polling' = last_polling,
         \A i \in Slot : \/ bypass'[i] = bypass[i] /\ (Ready(i) => Ready(i)')
                         \/ bypass'[i] = 0
  PROVE  RoundRobinInv'
<1> SUFFICES ASSUME NEW i \in Slot
             PROVE  /\ bypass'[i] + Turns(i)' <= N - 1
                    /\ ~ Ready(i)' => bypass'[i] = 0
                    /\ scan' # NULL /\ Turns(i)' < scan' => bypass'[i] = 0
  BY DEF RoundRobinInv
<1>1. Turns(i)' = Turns(i)
  BY DEF Turns, RRStart
<1>2. /\ bypass[i] \in Nat
      /\ Turns(i) \in Int
      /\ scan \in Int
  BY NAssumption DEF TypeOK, Turns, RRStart
<1>3. /\ bypass[i] + Turns(i) <= N - 1
      /\ ~ Ready(i) => bypass[i] = 0
      /\ scan # NULL /\ Turns(i) < scan => bypass[i] = 0
  BY DEF RoundRobinInv
<1> QED
  BY <1>1, <1>2, <1>3, NAssumption

(* The three polling steps and the frame give an inductive invariant. *)
THEOREM RoundRobin == Spec => []RoundRobinInv
<1>1. Init => RoundRobinInv
  <2> SUFFICES ASSUME Init, NEW i \in Slot
               PROVE  bypass[i] = 0 /\ bypass[i] + Turns(i) <= N - 1
    BY DEF RoundRobinInv
  <2>1. scan = NULL /\ last_polling = -1 /\ bypass[i] = 0
    BY DEF Init
  <2> QED
    BY <2>1, NAssumption DEF Turns, RRStart
<1>2. TypeOK /\ RoundRobinInv /\ [Next]_vars => RoundRobinInv'
  <2> SUFFICES ASSUME TypeOK, RoundRobinInv, [Next]_vars
               PROVE  RoundRobinInv'
    OBVIOUS
  <2> USE DEF slotVars, poolVars
  <2>1. ASSUME NEW s \in Signal, PullSubscribe(s)
        PROVE  RoundRobinInv'
    <3>1. /\ scan' = scan /\ last_polling' = last_polling
          /\ bypass \in [Slot -> Nat] /\ queue \in [Slot -> Seq(Event)]
          /\ \/ \E i \in Slot : NewSubscription(i, s)
             \/ queue' = queue /\ bypass' = bypass
      BY <2>1 DEF PullSubscribe, TypeOK
    <3>2. \A j \in Slot : \/ bypass'[j] = bypass[j] /\ (Ready(j) => Ready(j)')
                         \/ bypass'[j] = 0
      BY <3>1 DEF NewSubscription, Ready
    <3> QED
      BY <3>1, <3>2, RoundRobinFrame
  <2>2. CASE PullSubscribeFlexible \/ PushUnsubscribe
    BY <2>2, RoundRobinFrame DEF PullSubscribeFlexible, PushUnsubscribe, Ready
  <2>3. CASE StorageExhausted
    BY <2>3, RoundRobinFrame DEF StorageExhausted, Ready
  <2>4. CASE PullUnsubscribe
    <3>1. PICK S \in SUBSET {i \in Slot : used[i]} : EndSubscriptions(S)
      BY <2>4 DEF PullUnsubscribe
    <3> QED
      BY <2>4, <3>1, RoundRobinFrame DEF PullUnsubscribe, EndSubscriptions, Ready
  <2>5. CASE Fini
    BY <2>5, RoundRobinFrame DEF Fini, EndSubscriptions, Ready
  <2>6. CASE PollBegin
    <3>1. /\ scan = NULL /\ scan' = 0
          /\ last_polling' = last_polling + 1
          /\ bypass' = bypass /\ queue' = queue
      BY <2>6 DEF PollBegin, Idle
    <3>2. last_polling \in -1 .. N - 1 /\ bypass \in [Slot -> Nat]
      BY <3>1 DEF TypeOK
    <3>3. ASSUME NEW i \in Slot
          PROVE  Turns(i)' = Turns(i) /\ Turns(i) \in Nat
      BY <3>1, <3>2, NAssumption DEF Turns, RRStart
    <3> SUFFICES ASSUME NEW i \in Slot
                 PROVE  /\ bypass[i] + Turns(i)' <= N - 1
                        /\ ~ Ready(i) => bypass[i] = 0
                        /\ Turns(i)' < 0 => bypass[i] = 0
      BY <3>1 DEF RoundRobinInv, Ready
    <3> QED
      BY <3>3 DEF RoundRobinInv
  <2>7. CASE PollHit
    <3>1. /\ scan \in 0 .. N - 1 /\ last_polling \in 0 .. N
          /\ scan # NULL
          /\ bypass \in [Slot -> Nat] /\ queue \in [Slot -> Seq(Event)]
      BY <2>7 DEF PollHit, TypeOK
    <3>2. /\ Chk \in Slot
          /\ Chk = IF scan + last_polling < N THEN scan + last_polling
                                              ELSE scan + last_polling - N
      BY <3>1, ChkInSlot
    <3>3. /\ scan' = NULL /\ last_polling' = Chk
          /\ bypass' = [i \in Slot |-> IF i # Chk /\ Ready(i) THEN bypass[i] + 1 ELSE 0]
          /\ queue' = [queue EXCEPT ![Chk] = Tail(@)]
      BY <2>7 DEF PollHit, CountBypass
    <3> SUFFICES ASSUME NEW i \in Slot
                 PROVE  /\ bypass'[i] + Turns(i)' <= N - 1
                        /\ ~ Ready(i)' => bypass'[i] = 0
      BY <3>3 DEF RoundRobinInv
    <3>4. ~ Ready(i)' => bypass'[i] = 0
      BY <3>1, <3>2, <3>3 DEF Ready
    <3>5. Turns(i)' = IF i > Chk THEN i - Chk - 1 ELSE i - Chk - 1 + N
      BY <3>2, <3>3, NAssumption DEF Turns, RRStart
    <3>6. Turns(i) = IF i >= last_polling THEN i - last_polling ELSE i - last_polling + N
      BY <3>1 DEF Turns, RRStart
    <3>7. /\ bypass[i] + Turns(i) <= N - 1
          /\ Turns(i) < scan => bypass[i] = 0
      BY <3>1 DEF RoundRobinInv
    <3>8. bypass'[i] = IF i # Chk /\ Ready(i) THEN bypass[i] + 1 ELSE 0
      BY <3>3
    <3>9. bypass[i] \in Nat
      BY <3>1
    <3>10. bypass'[i] + Turns(i)' <= N - 1
      <4>1. CASE i = Chk \/ ~ Ready(i)
        BY <4>1, <3>2, <3>5, <3>8, NAssumption
      <4>2. CASE i # Chk /\ Ready(i)
        BY <4>2, <3>1, <3>2, <3>5, <3>6, <3>7, <3>8, <3>9, NAssumption
      <4> QED
        BY <4>1, <4>2
    <3> QED
      BY <3>4, <3>10
  <2>8. CASE PollMiss
    <3>1. /\ scan \in 0 .. N - 1 /\ last_polling \in 0 .. N
          /\ scan # NULL
          /\ bypass \in [Slot -> Nat]
      BY <2>8 DEF PollMiss, TypeOK
    <3>2. /\ Chk \in Slot
          /\ Chk = IF scan + last_polling < N THEN scan + last_polling
                                              ELSE scan + last_polling - N
      BY <3>1, ChkInSlot
    <3>3. ~ Ready(Chk) /\ bypass' = bypass /\ queue' = queue
      BY <2>8 DEF PollMiss
    <3>4. bypass[Chk] = 0
      BY <3>2, <3>3 DEF RoundRobinInv
    <3>5. ASSUME NEW i \in Slot
          PROVE  Turns(i) = IF i >= last_polling THEN i - last_polling
                                                 ELSE i - last_polling + N
      BY <3>1 DEF Turns, RRStart
    <3>6. CASE scan + 1 < N
      <4>1. scan' = scan + 1 /\ last_polling' = last_polling /\ scan' # NULL
        BY <3>1, <3>6, <2>8 DEF PollMiss
      <4> SUFFICES ASSUME NEW i \in Slot
                   PROVE  /\ bypass[i] + Turns(i)' <= N - 1
                          /\ ~ Ready(i) => bypass[i] = 0
                          /\ Turns(i)' < scan + 1 => bypass[i] = 0
        BY <3>3, <4>1 DEF RoundRobinInv, Ready
      <4>2. Turns(i)' = Turns(i)
        BY <3>1, <4>1 DEF Turns, RRStart
      <4>3. /\ bypass[i] + Turns(i) <= N - 1
            /\ ~ Ready(i) => bypass[i] = 0
            /\ Turns(i) < scan => bypass[i] = 0
        BY <3>1 DEF RoundRobinInv
      <4>4. Turns(i) = scan => i = Chk
        BY <3>1, <3>2, <3>5, NAssumption
      <4>5. Turns(i) \in Int
        BY <3>1, <3>5, NAssumption
      <4> QED
        BY <3>1, <3>4, <4>2, <4>3, <4>4, <4>5
    <3>7. CASE ~ (scan + 1 < N)
      <4>1. scan' = NULL /\ last_polling' = Chk
        BY <3>7, <2>8 DEF PollMiss
      <4> SUFFICES ASSUME NEW i \in Slot
                   PROVE  bypass[i] = 0 /\ Turns(i)' <= N - 1
        BY <3>1, <3>3, <4>1, NAssumption DEF RoundRobinInv, Ready
      <4>2. Turns(i) < N /\ (Turns(i) = scan => i = Chk)
        BY <3>1, <3>2, <3>5, NAssumption
      <4>3. Turns(i) < scan => bypass[i] = 0
        BY <3>1 DEF RoundRobinInv
      <4>4. Turns(i) \in Int
        BY <3>1, <3>5, NAssumption
      <4>5. bypass[i] = 0
        BY <3>1, <3>4, <3>7, <4>2, <4>3, <4>4, NAssumption
      <4>6. Turns(i)' <= N - 1
        BY <3>2, <4>1, NAssumption DEF Turns, RRStart
      <4> QED
        BY <4>5, <4>6
    <3> QED
      BY <3>6, <3>7
  <2>9. CASE PullDone
    BY <2>9, RoundRobinFrame DEF PullDone, Ready
  <2>10. ASSUME NEW s \in Signal, NEW p \in Payload, Publish(s, p)
         PROVE  RoundRobinInv'
    <3>1. \A i \in Slot : Ready(i) => Ready(i)'
      <4> SUFFICES ASSUME NEW i \in Slot, queue[i] # <<>>
                   PROVE  queue'[i] # <<>>
        BY DEF Ready
      <4>1. queue[i] \in Seq(Event) /\ [name |-> s, payload |-> p] \in Event
        BY DEF TypeOK, Event
      <4>2. Append(queue[i], [name |-> s, payload |-> p]) # <<>>
        BY <4>1
      <4> QED
        BY <4>2, <2>10 DEF Publish
    <3> QED
      BY <2>10, <3>1, RoundRobinFrame DEF Publish
  <2>11. CASE UNCHANGED vars
    BY <2>11, RoundRobinFrame DEF vars, Ready
  <2> QED
    BY <2>1, <2>2, <2>3, <2>4, <2>5, <2>6, <2>7, <2>8, <2>9, <2>10, <2>11
       DEF Next, Poll
<1> QED
  BY <1>1, <1>2, TypeCorrect, PTL DEF Spec

(* No subscription waits while the others deliver N events, for every pool *)
(* size and whatever arrives during the scans.                             *)
THEOREM BypassBounded == Spec => []BoundedBypass
<1>1. TypeOK /\ RoundRobinInv => BoundedBypass
  <2> SUFFICES ASSUME TypeOK, RoundRobinInv, NEW i \in Slot
               PROVE  bypass[i] <= N - 1
    BY DEF BoundedBypass
  <2>1. Turns(i) >= 0 /\ Turns(i) \in Int /\ bypass[i] \in Nat
    BY NAssumption DEF TypeOK, Turns, RRStart
  <2>2. bypass[i] + Turns(i) <= N - 1
    BY DEF RoundRobinInv
  <2> QED
    BY <2>1, <2>2, NAssumption
<1> QED
  BY <1>1, TypeCorrect, RoundRobin, PTL

-----------------------------------------------------------------------------
(* While an event is held no scan runs, and both pointers lead to the same *)
(* buffer, which holds a published event.                                  *)
HeldInv ==
  restate_pull = "XPT_RES_RECIEVED" =>
    /\ scan = NULL
    /\ pulled_event \in Slot
    /\ pulled_payload = pulled_event
    /\ evt[pulled_event] \in Event

(* A scan that hits changes exactly the answering slot's buffer and points *)
(* both pointers at it.                                                    *)
LEMMA HitFacts ==
  ASSUME TypeOK, PollHit
  PROVE  /\ Chk \in Slot
         /\ Head(queue[Chk]) \in Event
         /\ evt'[Chk] = Head(queue[Chk])
         /\ pulled_event' = Chk /\ pulled_payload' = Chk /\ scan' = NULL
         /\ restate_pull' = "XPT_RES_RECIEVED"
<1>1. Chk \in Slot
  BY ChkInSlot DEF PollHit
<1>2. queue[Chk] \in Seq(Event) /\ queue[Chk] # <<>>
  BY <1>1 DEF TypeOK, PollHit, Ready
<1>3. Head(queue[Chk]) \in Event
  BY <1>2
<1>4. evt \in [Slot -> Event \cup {NoEvent}]
  BY DEF TypeOK
<1> QED
  BY <1>1, <1>3, <1>4 DEF PollHit

(* The invariant behind both results below. *)
THEOREM HeldPointers == Spec => []HeldInv
<1>1. Init => HeldInv
  BY DEF Init, HeldInv
<1>2. TypeOK /\ HeldInv /\ [Next]_vars => HeldInv'
  <2> SUFFICES ASSUME TypeOK, HeldInv, [Next]_vars
               PROVE  HeldInv'
    OBVIOUS
  <2> USE DEF HeldInv, Idle, slotVars
  <2>1. ASSUME NEW s \in Signal, PullSubscribe(s)
        PROVE  HeldInv'
    BY <2>1 DEF PullSubscribe
  <2>2. CASE PullSubscribeFlexible \/ PushUnsubscribe
    BY <2>2 DEF PullSubscribeFlexible, PushUnsubscribe
  <2>3. CASE StorageExhausted
    BY <2>3 DEF StorageExhausted
  <2>4. CASE PullUnsubscribe
    BY <2>4 DEF PullUnsubscribe
  <2>5. CASE Fini
    BY <2>5 DEF Fini
  <2>6. CASE PollBegin
    BY <2>6 DEF PollBegin
  <2>7. CASE PollHit
    BY <2>7, HitFacts
  <2>8. CASE PollMiss
    BY <2>8 DEF PollMiss
  <2>9. CASE PullDone
    BY <2>9 DEF PullDone
  <2>10. ASSUME NEW s \in Signal, NEW p \in Payload, Publish(s, p)
         PROVE  HeldInv'
    BY <2>10 DEF Publish
  <2>11. CASE UNCHANGED vars
    BY <2>11 DEF vars
  <2> QED
    BY <2>1, <2>2, <2>3, <2>4, <2>5, <2>6, <2>7, <2>8, <2>9, <2>10, <2>11
       DEF Next, Poll
<1> QED
  BY <1>1, <1>2, TypeCorrect, PTL DEF Spec

-----------------------------------------------------------------------------
(* Of all steps only PollHit writes what Held reads, and it cannot run     *)
(* while an event is held; so Held is stable, and Take and Release are the *)
(* only changes of the mailbox's box.                                      *)
LEMMA OnlyHitTouchesHeld ==
  ASSUME TypeOK, HeldInv, [Next]_vars, ~ PollHit, ~ PullDone
  PROVE  Held' = Held /\ restate_pull' = restate_pull
<1> USE DEF Held, slotVars
<1>1. ASSUME NEW s \in Signal, PullSubscribe(s)
      PROVE  Held' = Held /\ restate_pull' = restate_pull
  BY <1>1 DEF PullSubscribe
<1>2. CASE PullSubscribeFlexible \/ PushUnsubscribe
  BY <1>2 DEF PullSubscribeFlexible, PushUnsubscribe
<1>3. CASE StorageExhausted
  BY <1>3 DEF StorageExhausted
<1>4. CASE PullUnsubscribe
  BY <1>4 DEF PullUnsubscribe
<1>5. CASE Fini
  BY <1>5 DEF Fini
<1>6. CASE PollBegin
  BY <1>6 DEF PollBegin
<1>7. CASE PollMiss
  BY <1>7 DEF PollMiss
<1>8. ASSUME NEW s \in Signal, NEW p \in Payload, Publish(s, p)
      PROVE  Held' = Held /\ restate_pull' = restate_pull
  BY <1>8 DEF Publish
<1>9. CASE UNCHANGED vars
  BY <1>9 DEF vars
<1> QED
  BY <1>1, <1>2, <1>3, <1>4, <1>5, <1>6, <1>7, <1>8, <1>9 DEF Next, Poll

(* What the application reads between the receipt of an event and          *)
(* XPT_pull_done never changes.                                            *)
THEOREM HeldStable == Spec => HeldEventStable
<1>1. TypeOK /\ HeldInv /\ [Next]_vars
        => [restate_pull = "XPT_RES_RECIEVED" /\ restate_pull' = "XPT_RES_RECIEVED"
              => Held' = Held]_vars
  <2> SUFFICES ASSUME TypeOK, HeldInv, [Next]_vars,
                      restate_pull = "XPT_RES_RECIEVED",
                      restate_pull' = "XPT_RES_RECIEVED"
               PROVE  Held' = Held
    OBVIOUS
  <2>1. ~ PollHit
    BY DEF PollHit, HeldInv
  <2>2. ~ PullDone
    BY DEF PullDone
  <2> QED
    BY <2>1, <2>2, OnlyHitTouchesHeld
<1> QED
  BY <1>1, TypeCorrect, HeldPointers, PTL DEF Spec, HeldEventStable

-----------------------------------------------------------------------------
(* The refinement: the library's pull side is a mailbox per process. *)
THEOREM Refinement == Spec => ImplementsMailbox
<1>1. Init => Box!Init
  BY DEF Init, Box!Init, Held
<1>2. TypeOK /\ HeldInv /\ [Next]_vars => [Box!Next]_(Box!vars)
  <2> SUFFICES ASSUME TypeOK, HeldInv, [Next]_vars
               PROVE  Box!Next \/ UNCHANGED <<queue, Held>>
    BY DEF Box!vars
  <2>0. ASSUME ~ PollHit, ~ PullDone
        PROVE  Held' = Held
    BY <2>0, OnlyHitTouchesHeld
  <2> USE DEF slotVars, poolVars
  <2>a. ASSUME ~ PollHit, ~ PullDone,
               NEW S \in SUBSET Slot,
               queue' = [i \in Slot |-> IF i \in S THEN <<>> ELSE queue[i]]
        PROVE  Box!Next
    BY <2>a, <2>0 DEF Box!Next, Box!Cancel
  <2>7. CASE PollHit
    <3>1. /\ Chk \in Slot
          /\ Head(queue[Chk]) \in Event
          /\ evt'[Chk] = Head(queue[Chk])
          /\ pulled_event' = Chk /\ pulled_payload' = Chk
          /\ restate_pull' = "XPT_RES_RECIEVED"
      BY <2>7, HitFacts
    <3>2. Held = NoEvent
      BY <2>7 DEF PollHit, HeldInv, Held, TypeOK
    <3>3. Held' = Head(queue[Chk])
      <4>1. Held' = [name |-> Head(queue[Chk]).name, payload |-> Head(queue[Chk]).payload]
        BY <3>1 DEF Held
      <4>2. \A e \in Event : [name |-> e.name, payload |-> e.payload] = e
        BY DEF Event
      <4> QED
        BY <3>1, <4>1, <4>2
    <3>4. Box!Take(Chk)
      BY <2>7, <3>2, <3>3 DEF PollHit, Ready, Box!Take
    <3> QED
      BY <3>1, <3>4 DEF Box!Next
  <2>9. CASE PullDone
    <3>1. Held' = NoEvent /\ queue' = queue
      BY <2>9 DEF PullDone, Held
    <3> QED
      BY <3>1 DEF Box!Next, Box!Release
  <2>1. ASSUME NEW s \in Signal, PullSubscribe(s), ~ PollHit, ~ PullDone
        PROVE  Box!Next \/ UNCHANGED <<queue, Held>>
    <3>1. CASE queue' = queue
      BY <3>1, <2>1, <2>0
    <3>2. ASSUME NEW i \in Slot, queue' = [queue EXCEPT ![i] = <<>>]
          PROVE  Box!Next
      <4>1. queue \in [Slot -> Seq(Event)]
        BY DEF TypeOK
      <4>2. queue' = [j \in Slot |-> IF j \in {i} THEN <<>> ELSE queue[j]]
        BY <3>2, <4>1
      <4> QED
        BY <2>1, <2>a, <4>2
    <3> QED
      BY <2>1, <3>1, <3>2 DEF PullSubscribe, NewSubscription
  <2>2. ASSUME PullSubscribeFlexible \/ PushUnsubscribe, ~ PollHit, ~ PullDone
        PROVE  UNCHANGED <<queue, Held>>
    BY <2>2, <2>0 DEF PullSubscribeFlexible, PushUnsubscribe
  <2>3. ASSUME StorageExhausted, ~ PollHit, ~ PullDone
        PROVE  UNCHANGED <<queue, Held>>
    BY <2>3, <2>0 DEF StorageExhausted
  <2>4. ASSUME PullUnsubscribe, ~ PollHit, ~ PullDone
        PROVE  Box!Next
    <3>1. PICK S \in SUBSET Slot :
            queue' = [i \in Slot |-> IF i \in S THEN <<>> ELSE queue[i]]
      BY <2>4 DEF PullUnsubscribe, EndSubscriptions
    <3> QED
      BY <2>4, <2>a, <3>1
  <2>5. ASSUME Fini, ~ PollHit, ~ PullDone
        PROVE  Box!Next
    <3>1. queue' = [i \in Slot |-> IF i \in Slot THEN <<>> ELSE queue[i]]
      BY <2>5 DEF Fini, EndSubscriptions
    <3> QED
      BY <2>5, <2>a, <3>1
  <2>6. ASSUME PollBegin, ~ PollHit, ~ PullDone
        PROVE  UNCHANGED <<queue, Held>>
    BY <2>6, <2>0 DEF PollBegin
  <2>8. ASSUME PollMiss, ~ PollHit, ~ PullDone
        PROVE  UNCHANGED <<queue, Held>>
    BY <2>8, <2>0 DEF PollMiss
  <2>10. ASSUME NEW s \in Signal, NEW p \in Payload, Publish(s, p),
                ~ PollHit, ~ PullDone
         PROVE  Box!Next
    <3>1. /\ [name |-> s, payload |-> p] \in Event
          /\ {i \in Slot : hdl[i] = s} \in SUBSET Slot
      BY DEF Event
    <3>2. Box!Arrive({i \in Slot : hdl[i] = s}, [name |-> s, payload |-> p])
      BY <2>10, <2>0 DEF Publish, Box!Arrive
    <3> QED
      BY <3>1, <3>2 DEF Box!Next
  <2>11. ASSUME UNCHANGED vars, ~ PollHit, ~ PullDone
         PROVE  UNCHANGED <<queue, Held>>
    BY <2>11, <2>0 DEF vars
  <2> QED
    BY <2>1, <2>2, <2>3, <2>4, <2>5, <2>6, <2>7, <2>8, <2>9, <2>10, <2>11
       DEF Next, Poll
<1> QED
  BY <1>1, <1>2, TypeCorrect, HeldPointers, PTL DEF Spec, ImplementsMailbox, Box!Spec
=============================================================================
