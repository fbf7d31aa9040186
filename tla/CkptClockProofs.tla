--------------------------- MODULE CkptClockProofs ---------------------------
(***************************************************************************)
(* Proofs about the checkpoint clock, for any number of phases and         *)
(* iterations, any measured times and any intervals of the server.         *)
(***************************************************************************)
EXTENDS CkptClock, RecursionLemmas, SequenceTheorems, TLAPS

TimesIn(T) == [iter : Nat, phase : Phase, time : T]

(* The parts of a queue. *)
LEMMA QueueParts ==
  ASSUME NEW S, NEW s \in Seq(S), s # <<>>
  PROVE  /\ Head(s) \in S
         /\ Tail(s) \in Seq(S)
         /\ Tail(s) = <<>> => Head(s) = s[Len(s)]
         /\ Tail(s) # <<>> => Tail(s)[Len(Tail(s))] = s[Len(s)]
<1>1. Len(s) \in Nat \ {0}
  OBVIOUS
<1>2. Head(s) \in S /\ Tail(s) \in Seq(S) /\ Head(s) = s[1]
  OBVIOUS
<1>3. Len(Tail(s)) = Len(s) - 1
  OBVIOUS
<1>4. CASE Tail(s) = <<>>
  <2>1. Len(s) = 1
    <3>1. Len(Tail(s)) = 0
      BY <1>4, EmptySeq
    <3>2. Len(s) - 1 = 0
      BY <1>3, <3>1, Zenon
    <3>3. QED
      BY <1>1, <3>2
  <2>2. QED
    BY <1>2, <1>4, <2>1
<1>5. CASE Tail(s) # <<>>
  <2>1. Len(Tail(s)) \in Nat \ {0}
    BY <1>2, <1>5, EmptySeq
  <2>2. Tail(s)[Len(Tail(s))] = s[Len(s)]
    BY <1>1, <1>3, <2>1
  <2>3. QED
    BY <1>2, <1>5, <2>2
<1>6. QED
  BY <1>4, <1>5

(* What a published interval leaves on its way to the process. *)
LEMMA IntervalPublished ==
  ASSUME NEW e, PublishInterval(e)
  PROVE  \/ srv2cli' = srv2cli /\ pc = "start" /\ missed' = TRUE
         \/ srv2cli' = Append(srv2cli, e) /\ pc # "start" /\ missed' = missed
BY DEF PublishInterval

LEMMA AppendLast ==
  ASSUME NEW S, NEW s \in Seq(S), NEW e \in S
  PROVE  /\ Append(s, e) \in Seq(S)
         /\ Append(s, e) # <<>>
         /\ Append(s, e)[Len(Append(s, e))] = e
OBVIOUS

(* The phases' times of an iteration, as events. *)
LEMMA AnnouncedTimes ==
  ASSUME NEW T, NEW t \in 0 .. Steps - 1, NEW time \in [Phase -> T],
         toall \in Seq(TimesIn(T)), todo \in Seq(Nat), AnnounceTimes(t, time)
  PROVE  /\ toall' \in Seq(TimesIn(T))
         /\ told' = t
         /\ todo' \in Seq(Nat)
<1> DEFINE batch == [k \in 1 .. NCkpt |->
                       [iter |-> t, phase |-> k - 1, time |-> time[k - 1]]]
<1>1. t \in Nat
  BY StepsAssumption
<1>2. ASSUME NEW k \in 1 .. NCkpt
      PROVE  [iter |-> t, phase |-> k - 1, time |-> time[k - 1]] \in TimesIn(T)
  BY <1>1, NCkptAssumption DEF TimesIn, Phase
<1>3. batch \in Seq(TimesIn(T))
  <2>1. batch \in [1 .. NCkpt -> TimesIn(T)]
    BY <1>2
  <2>2. QED
    BY <2>1, NCkptAssumption
<1>4. toall' = toall \/ toall' = toall \o batch
  BY DEF AnnounceTimes
<1>5. toall' \in Seq(TimesIn(T))
  <2> HIDE DEF batch
  <2>1. toall \o batch \in Seq(TimesIn(T))
    BY <1>3
  <2>2. QED
    BY <1>4, <2>1
<1>6. QED
  BY <1>1, <1>5 DEF AnnounceTimes

-----------------------------------------------------------------------------
LEMMA TypeInit == Init => TypeOK
<1> SUFFICES ASSUME Init
             PROVE  TypeOK
  OBVIOUS
<1>1. 0 \in Phase /\ 0 \in 0 .. Steps - 1
  BY NCkptAssumption, StepsAssumption DEF Phase
<1>2. /\ cur_epoch \in [Phase -> Nat] /\ epoch_term \in [Phase -> Nat]
      /\ commit \in [Phase -> BOOLEAN]
  BY DEF Init
<1>3. /\ toall \in Seq(Times) /\ srv2cli \in Seq(Change) /\ todo \in Seq(Nat)
  BY DEF Init
<1>4. QED
  BY <1>1, <1>2, <1>3, StepsAssumption DEF Init, TypeOK, Channel

(* The clock's arithmetic stays in the integers. *)
LEMMA AdvanceType ==
  ASSUME TypeOK, Advance
  PROVE  curtime' \in Int /\ pc' \in {"postexec", "poll"}
<1>1. epoch_term[phase] \in Nat
  BY DEF TypeOK
<1>2. QED
  BY <1>1 DEF TypeOK, Advance, AfterCkpt

LEMMA PreexecType ==
  ASSUME TypeOK, Preexec
  PROVE  cur_epoch' \in [Phase -> Nat]
BY DurationAssumption DEF TypeOK, Preexec

LEMMA NextCandidateType ==
  ASSUME TypeOK, NextCandidate
  PROVE  /\ phase' \in Phase /\ iter' \in 0 .. Steps - 1
         /\ pc' \in {"candidate", "done"}
<1>1. CASE phase + 1 < NCkpt
  BY <1>1, NCkptAssumption DEF TypeOK, NextCandidate, Phase
<1>2. CASE ~ (phase + 1 < NCkpt)
  BY <1>2, NCkptAssumption, StepsAssumption DEF TypeOK, NextCandidate, Phase
<1>3. QED
  BY <1>1, <1>2

(* What a poll leaves behind, of whatever type its parts are. *)
LEMMA CommitAllType ==
  ASSUME NEW t \in Nat, NEW v \in Nat, cur_epoch' \in [Phase -> Nat],
         CommitAll(t, v)
  PROVE  /\ epoch_term' \in [Phase -> Nat] /\ commit' \in [Phase -> BOOLEAN]
         /\ biter' = t /\ interval' = v
BY DEF CommitAll

LEMMA TypeStep == TypeOK /\ [Next]_vars => TypeOK'
<1> SUFFICES ASSUME TypeOK, [Next]_vars
             PROVE  TypeOK'
  OBVIOUS
<1>1. CASE CkptInStep
  <2>1. cur_epoch' \in [Phase -> Nat]
    BY <1>1, PreexecType DEF CkptInStep
  <2>2. curtime' \in Int /\ pc' \in {"postexec", "poll"}
    BY <1>1, AdvanceType DEF CkptInStep
  <2>3. QED
    BY <1>1, <2>1, <2>2 DEF CkptInStep, TypeOK, mail, ready, server
<1>2. CASE CkptBehind
  <2>1. cur_epoch' \in [Phase -> Nat]
    BY <1>2, PreexecType DEF CkptBehind
  <2>2. QED
    BY <1>2, <2>1 DEF CkptBehind, AfterCkpt, TypeOK, clock, mail, ready, server
<1>3. CASE ReplayBegin
  <2>1. cur_epoch' \in [Phase -> Nat]
    BY <1>3, PreexecType DEF ReplayBegin
  <2>2. QED
    BY <1>3, <2>1 DEF ReplayBegin, TypeOK, mail, ready, server
<1>4. CASE ReplayStep
  <2>1. i % NCkpt \in Phase
    BY NCkptAssumption DEF TypeOK, Phase
  <2>2. epoch_term[i % NCkpt] \in Nat
    BY <2>1 DEF TypeOK
  <2> DEFINE c == curtime + epoch_term[i % NCkpt]
  <2>3. c \in Int /\ c - interval \in Int
    BY <2>2 DEF TypeOK
  <2>4. curtime' \in {c, c - interval}
    <3> HIDE DEF c
    <3>1. curtime' = IF c > interval THEN c - interval ELSE c
      BY <1>4 DEF ReplayStep, c
    <3>2. QED
      BY <3>1
  <2>5. curtime' \in Int /\ i' \in Nat
    <3> HIDE DEF c
    <3>1. QED
      BY <1>4, <2>3, <2>4 DEF ReplayStep, TypeOK
  <2>6. QED
    BY <1>4, <2>5 DEF ReplayStep, TypeOK, tables, mail, ready, server
<1>5. CASE ReplayEnd
  <2>1. curtime' \in Int /\ pc' \in {"postexec", "poll"}
    BY <1>5, AdvanceType DEF ReplayEnd
  <2>2. QED
    BY <1>5, <2>1 DEF ReplayEnd, TypeOK, tables, mail, ready, server
<1>6. CASE PostexecSends
  <2>1. /\ toall' \in Seq(Times) /\ told' = iter /\ todo' \in Seq(Nat)
    BY <1>6, AnnouncedTimes DEF PostexecSends, TypeOK, Times, TimesIn
  <2>2. told' \in -1 .. Steps - 1
    BY <2>1, StepsAssumption DEF TypeOK
  <2>3. epoch_term' \in [Phase -> Nat] /\ f_1st' \in BOOLEAN /\ pc' = "poll"
    BY <1>6 DEF PostexecSends, TypeOK
  <2>4. QED
    BY <1>6, <2>1, <2>2, <2>3 DEF PostexecSends, TypeOK, clock, ready
<1>7. CASE PostexecSilent
  BY <1>7 DEF PostexecSilent, TypeOK, tables, clock, mail, ready, server
<1>8. CASE PollTimes
  <2> DEFINE e == Head(toall)
  <2>1. toall # <<>>
    BY <1>8 DEF PollTimes, Polls, Delivers, Waiting
  <2>2. e \in Times /\ toall' \in Seq(Times)
    BY <1>8, <2>1, QueueParts DEF PollTimes, TypeOK
  <2>3. e.iter \in Nat /\ e.phase \in Phase /\ e.time \in Nat
    BY <2>2 DEF Times
  <2> HIDE DEF e
  <2>4. cur_epoch' = [cur_epoch EXCEPT ![e.phase] = e.time]
    BY <1>8 DEF PollTimes, e
  <2>5. cur_epoch' \in [Phase -> Nat]
    BY <2>3, <2>4 DEF TypeOK
  <2>6. IF renewal THEN CommitAll(e.iter, interval)
                   ELSE /\ commit' = [commit EXCEPT ![e.phase] = TRUE]
                        /\ UNCHANGED <<epoch_term, biter, interval>>
    BY <1>8 DEF PollTimes, e
  <2>7. /\ epoch_term' \in [Phase -> Nat] /\ commit' \in [Phase -> BOOLEAN]
        /\ biter' \in Nat /\ interval' \in Nat
    BY <2>3, <2>5, <2>6, CommitAllType DEF TypeOK
  <2>8. /\ phase' \in Phase /\ iter' \in 0 .. Steps - 1
        /\ pc' \in {"candidate", "done"}
    BY <1>8, NextCandidateType DEF PollTimes
  <2>9. QED
    BY <1>8, <2>2, <2>5, <2>7, <2>8 DEF PollTimes, TypeOK, Channel, ready, server
<1>9. CASE PollChange
  <2> DEFINE e == Head(srv2cli)
  <2>1. srv2cli # <<>>
    BY <1>9 DEF PollChange, Polls, Delivers, Waiting
  <2>2. e \in Change /\ srv2cli' \in Seq(Change)
    BY <1>9, <2>1, QueueParts DEF PollChange, TypeOK
  <2>3. e.iter \in Nat /\ e.value \in Nat
    BY <2>2 DEF Change
  <2> HIDE DEF e
  <2>4. cur_epoch' \in [Phase -> Nat]
    BY <1>9 DEF PollChange, TypeOK
  <2>5. CommitAll(e.iter, e.value)
    BY <1>9 DEF PollChange, e
  <2>6. /\ epoch_term' \in [Phase -> Nat] /\ commit' \in [Phase -> BOOLEAN]
        /\ biter' \in Nat /\ interval' \in Nat
    BY <2>3, <2>4, <2>5, CommitAllType
  <2>7. /\ phase' \in Phase /\ iter' \in 0 .. Steps - 1
        /\ pc' \in {"candidate", "done"}
    BY <1>9, NextCandidateType DEF PollChange
  <2>8. QED
    BY <1>9, <2>2, <2>4, <2>6, <2>7 DEF PollChange, TypeOK, Channel, ready, server
<1>10. CASE PollNothing
  <2>1. cur_epoch' \in [Phase -> Nat]
    BY <1>10 DEF PollNothing, TypeOK
  <2>2. IF renewal THEN CommitAll(biter, interval)
                   ELSE UNCHANGED <<epoch_term, commit, biter, interval>>
    BY <1>10 DEF PollNothing
  <2>3. /\ epoch_term' \in [Phase -> Nat] /\ commit' \in [Phase -> BOOLEAN]
        /\ biter' \in Nat /\ interval' \in Nat
    BY <2>1, <2>2, CommitAllType DEF TypeOK
  <2>4. /\ phase' \in Phase /\ iter' \in 0 .. Steps - 1
        /\ pc' \in {"candidate", "done"}
    BY <1>10, NextCandidateType DEF PollNothing
  <2>5. QED
    BY <1>10, <2>1, <2>3, <2>4 DEF PollNothing, TypeOK, mail, ready, server
<1>11. CASE PullDone
  BY <1>11 DEF PullDone, TypeOK, tables, clock, mail, ready, server
<1>12. ASSUME NEW t \in 0 .. Steps - 1, NEW time \in [Phase -> Duration],
              RootSends(t, time)
       PROVE  TypeOK'
  <2>1. time \in [Phase -> Nat]
    BY DurationAssumption
  <2>2. /\ toall' \in Seq(Times) /\ told' = t /\ todo' \in Seq(Nat)
    BY <1>12, <2>1, AnnouncedTimes DEF RootSends, TypeOK, Times, TimesIn
  <2>3. QED
    BY <1>12, <2>2 DEF RootSends, TypeOK, tables, clock, ready
<1>13. ASSUME NEW new \in Interval, LastLine(new)
       PROVE  TypeOK'
  <2>1. Head(todo) \in Nat /\ todo' \in Seq(Nat)
    BY <1>13, QueueParts DEF LastLine, TypeOK
  <2>2. new \in Nat \ {0}
    BY IntervalAssumption
  <2>3. srv2cli' \in Seq(Change) /\ ckpt_interval' \in Nat
    <3>1. [iter |-> Head(todo), value |-> new] \in Change
      BY <2>1, <2>2 DEF Change
    <3>2. Append(srv2cli, [iter |-> Head(todo), value |-> new]) \in Seq(Change)
      BY <3>1, AppendLast DEF TypeOK
    <3>3. QED
      BY <1>13, <2>2, <3>2 DEF LastLine, PublishInterval, TypeOK
  <2>4. missed' \in BOOLEAN
    BY <1>13 DEF LastLine, PublishInterval, TypeOK
  <2>5. QED
    BY <1>13, <2>1, <2>3, <2>4 DEF LastLine, TypeOK, tables, clock
<1>14. CASE Subscribe \/ ReadyStart \/ SetCkpt \/ ServerPullDone
  <2>1. CASE Subscribe
    BY <2>1 DEF Subscribe, TypeOK, tables, clock, mail, ready, server
  <2>2. CASE ReadyStart
    BY <2>2 DEF ReadyStart, TypeOK, Channel, tables, clock, server
  <2>3. CASE SetCkpt
    BY <2>3 DEF SetCkpt, TypeOK, tables, clock
  <2>4. CASE ServerPullDone
    BY <2>4 DEF ServerPullDone, TypeOK, tables, clock, mail, ready
  <2>5. QED
    BY <1>14, <2>1, <2>2, <2>3, <2>4
<1>15. ASSUME NEW c \in Channel, ReadyOther(c)
       PROVE  TypeOK'
  <2>1. CASE c = "XPT_TOALL"
    <3>1. toall # <<>> /\ toall' = Tail(toall)
      BY <1>15, <2>1 DEF ReadyOther, Delivers, Waiting
    <3>2. toall' \in Seq(Times)
      BY <3>1, QueueParts DEF TypeOK
    <3>3. QED
      BY <1>15, <2>1, <3>2 DEF ReadyOther, TypeOK, tables, clock, server
  <2>2. CASE c # "XPT_TOALL"
    <3>1. srv2cli # <<>> /\ srv2cli' = Tail(srv2cli)
      BY <1>15, <2>2 DEF ReadyOther, Delivers, Waiting
    <3>2. srv2cli' \in Seq(Change)
      BY <3>1, QueueParts DEF TypeOK
    <3>3. QED
      BY <1>15, <2>2, <3>2 DEF ReadyOther, TypeOK, tables, clock, server
  <2>3. QED
    BY <2>1, <2>2
<1>16. CASE UNCHANGED vars
  BY <1>16 DEF TypeOK, vars, tables, clock, mail, ready, server
<1>17. QED
  BY <1>1, <1>2, <1>3, <1>4, <1>5, <1>6, <1>7, <1>8, <1>9, <1>10, <1>11,
     <1>12, <1>13, <1>14, <1>15, <1>16 DEF Next, App

(* Type correctness; in particular every phase number that comes with an   *)
(* event indexes the tables.                                               *)
THEOREM ClockTypeCorrect == Spec => []TypeOK
BY TypeInit, TypeStep, PTL DEF Spec

-----------------------------------------------------------------------------
(* A process that has not begun has no interval, and before it subscribes *)
(* none is under way to it.                                               *)
EarlyInv ==
  /\ pc = "start" => srv2cli = <<>>
  /\ pc \in {"start", "wait"} => interval = 0

LEMMA EarlyInit == Init => EarlyInv
BY DEF Init, EarlyInv

LEMMA EarlyStep == TypeOK /\ EarlyInv /\ [Next]_vars => EarlyInv'
<1> SUFFICES ASSUME TypeOK, EarlyInv, [Next]_vars
             PROVE  EarlyInv'
  OBVIOUS
<1>1. CASE \/ CkptInStep \/ CkptBehind \/ ReplayBegin \/ ReplayStep
           \/ ReplayEnd \/ PostexecSends \/ PostexecSilent
           \/ PollTimes \/ PollChange \/ PollNothing \/ ReadyStart
           \/ \E c \in Channel : ReadyOther(c)
  <2>1. pc' \notin {"start", "wait"}
    BY <1>1 DEF CkptInStep, CkptBehind, ReplayBegin, ReplayStep, ReplayEnd,
                PostexecSends, PostexecSilent, PollTimes, PollChange,
                PollNothing, ReadyStart, ReadyOther, Advance, AfterCkpt,
                NextCandidate
  <2>2. QED
    BY <2>1 DEF EarlyInv
<1>2. CASE Subscribe \/ SetCkpt \/ PullDone \/ ServerPullDone
  BY <1>2 DEF Subscribe, SetCkpt, PullDone, ServerPullDone, EarlyInv, clock,
              mail
<1>3. ASSUME NEW t \in 0 .. Steps - 1, NEW time \in [Phase -> Duration],
             RootSends(t, time)
      PROVE  EarlyInv'
  BY <1>3 DEF RootSends, EarlyInv, clock
<1>4. ASSUME NEW new \in Interval, LastLine(new)
      PROVE  EarlyInv'
  BY <1>4 DEF LastLine, PublishInterval, EarlyInv, clock
<1>5. CASE UNCHANGED vars
  BY <1>5 DEF EarlyInv, vars, clock, mail
<1>6. QED
  BY <1>1, <1>2, <1>3, <1>4, <1>5 DEF Next, App

(* The server's latest interval is in force, or the last one under way,    *)
(* unless it was sent before this process subscribed or swallowed by its   *)
(* wait for the start.                                                     *)
THEOREM ClockLatestInterval == Spec => []LatestInterval
<1>1. Init => LatestInterval
  BY DEF Init, LatestInterval
<1>2. TypeOK /\ EarlyInv /\ LatestInterval /\ [Next]_vars => LatestInterval'
  <2> SUFFICES ASSUME TypeOK, EarlyInv, LatestInterval, [Next]_vars
               PROVE  LatestInterval'
    OBVIOUS
  <2>1. CASE PollChange
    <3>1. srv2cli # <<>>
      BY <2>1 DEF PollChange, Polls, Delivers, Waiting
    <3>2. /\ Tail(srv2cli) = <<>> => Head(srv2cli) = srv2cli[Len(srv2cli)]
          /\ Tail(srv2cli) # <<>>
               => Tail(srv2cli)[Len(Tail(srv2cli))] = srv2cli[Len(srv2cli)]
      BY <3>1, QueueParts DEF TypeOK
    <3>3. srv2cli[Len(srv2cli)].value = ckpt_interval
      BY <3>1 DEF LatestInterval
    <3>4. /\ srv2cli' = Tail(srv2cli) /\ ckpt_interval' = ckpt_interval
          /\ interval' = Head(srv2cli).value
      BY <2>1 DEF PollChange, CommitAll, server
    <3>5. CASE Tail(srv2cli) = <<>>
      BY <3>2, <3>3, <3>4, <3>5 DEF LatestInterval
    <3>6. CASE Tail(srv2cli) # <<>>
      BY <3>2, <3>3, <3>4, <3>6 DEF LatestInterval
    <3>7. QED
      BY <3>5, <3>6
  <2>2. ASSUME NEW new \in Interval, LastLine(new)
        PROVE  LatestInterval'
    <3> DEFINE e == [iter |-> Head(todo), value |-> new]
    <3>1. interval' = interval
      BY <2>2 DEF LastLine, clock
    <3>2. CASE FarOff(new, ckpt_interval) /\ pc # "start"
      <4>1. e \in Change
        <5>1. Head(todo) \in Nat
          BY <2>2, QueueParts DEF LastLine, TypeOK
        <5>2. QED
          BY <5>1, IntervalAssumption DEF Change
      <4>2. srv2cli' = Append(srv2cli, e) /\ ckpt_interval' = new
        BY <2>2, <3>2 DEF LastLine, PublishInterval
      <4>3. e.value = new
        OBVIOUS
      <4> HIDE DEF e
      <4>4. srv2cli' # <<>> /\ srv2cli'[Len(srv2cli')] = e
        <5>1. srv2cli \in Seq(Change)
          BY DEF TypeOK
        <5>2. /\ Append(srv2cli, e) # <<>>
              /\ Append(srv2cli, e)[Len(Append(srv2cli, e))] = e
          BY <4>1, <5>1, AppendLast, Zenon
        <5>3. QED
          BY <4>2, <5>2, Zenon
      <4>5. srv2cli'[Len(srv2cli')].value = ckpt_interval'
        BY <4>2, <4>3, <4>4, Zenon
      <4>6. ~ (srv2cli' = <<>>)
        BY <4>4
      <4>7. QED
        BY <4>5, <4>6, Zenon DEF LatestInterval
    <3>3. CASE FarOff(new, ckpt_interval) /\ pc = "start"
      BY <2>2, <3>1, <3>3 DEF LastLine, PublishInterval, EarlyInv, LatestInterval
    <3>4. CASE ~ FarOff(new, ckpt_interval)
      BY <2>2, <3>1, <3>4 DEF LastLine, LatestInterval
    <3>5. QED
      BY <3>2, <3>3, <3>4
  <2>3. CASE PollTimes \/ PollNothing
    <3>1. /\ srv2cli' = srv2cli /\ interval' = interval /\ missed' = missed
          /\ ckpt_interval' = ckpt_interval
      BY <2>3 DEF PollTimes, PollNothing, CommitAll, mail, ready, server
    <3>2. QED
      BY <3>1 DEF LatestInterval
  <2>4. CASE \/ CkptInStep \/ CkptBehind \/ ReplayBegin \/ ReplayStep
             \/ ReplayEnd \/ PostexecSends \/ PostexecSilent \/ PullDone
    BY <2>4 DEF CkptInStep, CkptBehind, ReplayBegin, ReplayStep, ReplayEnd,
                PostexecSends, PostexecSilent, PullDone, LatestInterval, clock,
                mail, ready, server
  <2>5. ASSUME NEW t \in 0 .. Steps - 1, NEW time \in [Phase -> Duration],
               RootSends(t, time)
        PROVE  LatestInterval'
    BY <2>5 DEF RootSends, LatestInterval, clock, ready
  <2>6. CASE Subscribe \/ ReadyStart \/ SetCkpt \/ ServerPullDone
    BY <2>6 DEF Subscribe, ReadyStart, SetCkpt, ServerPullDone, LatestInterval,
                clock, mail, ready, server
  <2>7. ASSUME NEW c \in Channel, ReadyOther(c)
        PROVE  LatestInterval'
    <3>1. interval' = interval /\ ckpt_interval' = ckpt_interval
      BY <2>7 DEF ReadyOther, clock, server
    <3>2. CASE c = "XPT_TOALL"
      BY <2>7, <3>1, <3>2 DEF ReadyOther, LatestInterval
    <3>3. CASE c # "XPT_TOALL"
      <4>1. srv2cli # <<>> /\ srv2cli' = Tail(srv2cli) /\ missed' = TRUE
        BY <2>7, <3>3 DEF ReadyOther, Delivers, Waiting
      <4>2. srv2cli' # <<>> => srv2cli'[Len(srv2cli')] = srv2cli[Len(srv2cli)]
        BY <4>1, QueueParts DEF TypeOK
      <4>3. interval = 0
        BY <2>7 DEF ReadyOther, EarlyInv
      <4>4. QED
        BY <3>1, <4>1, <4>2, <4>3 DEF LatestInterval
    <3>4. QED
      BY <3>2, <3>3
  <2>8. CASE UNCHANGED vars
    BY <2>8 DEF LatestInterval, vars, clock, mail, ready, server
  <2>9. QED
    BY <2>1, <2>2, <2>3, <2>4, <2>5, <2>6, <2>7, <2>8 DEF Next, App
<1>3. QED
  BY <1>1, <1>2, EarlyInit, EarlyStep, TypeInit, TypeStep, PTL DEF Spec

-----------------------------------------------------------------------------
Fit == Duration \cup {0}
FitChange == [iter : Nat, value : Interval]

(* Wherever a time or an interval is, it comes from Duration or Interval;  *)
(* the first candidate, which writes at once, has no interval yet.         *)
FitInv ==
  /\ toall \in Seq(TimesIn(Fit))
  /\ srv2cli \in Seq(FitChange)
  /\ cur_epoch \in [Phase -> Fit]
  /\ epoch_term \in [Phase -> Fit]
  /\ interval \in Interval \cup {0}
  /\ f_1st => interval = 0

LEMMA FitInit == Init => FitInv
<1> SUFFICES ASSUME Init
             PROVE  FitInv
  OBVIOUS
<1>1. 0 \in Fit
  BY DEF Fit
<1>2. /\ cur_epoch \in [Phase -> Fit] /\ epoch_term \in [Phase -> Fit]
  BY <1>1 DEF Init
<1>3. toall \in Seq(TimesIn(Fit)) /\ srv2cli \in Seq(FitChange)
  BY DEF Init
<1>4. QED
  BY <1>2, <1>3 DEF Init, FitInv

LEMMA PreexecFit ==
  ASSUME FitInv, Preexec
  PROVE  cur_epoch' \in [Phase -> Fit]
BY DEF FitInv, Preexec, Fit

LEMMA FitStep == TypeOK /\ FitInv /\ [Next]_vars => FitInv'
<1> SUFFICES ASSUME TypeOK, FitInv, [Next]_vars
             PROVE  FitInv'
  OBVIOUS
<1>1. CASE CkptInStep \/ CkptBehind \/ ReplayBegin
  <2>1. cur_epoch' \in [Phase -> Fit]
    BY <1>1, PreexecFit DEF CkptInStep, CkptBehind, ReplayBegin
  <2>2. QED
    BY <1>1, <2>1 DEF CkptInStep, CkptBehind, ReplayBegin, FitInv, clock, mail
<1>2. CASE ReplayStep \/ ReplayEnd \/ PostexecSilent \/ PullDone
  BY <1>2 DEF ReplayStep, ReplayEnd, PostexecSilent, PullDone, FitInv, tables,
              clock, mail
<1>3. CASE PostexecSends
  <2>1. toall' \in Seq(TimesIn(Fit))
    BY <1>3, AnnouncedTimes DEF PostexecSends, TypeOK, FitInv
  <2>2. QED
    BY <1>3, <2>1 DEF PostexecSends, FitInv, clock
<1>4. CASE PollTimes
  <2> DEFINE e == Head(toall)
  <2>1. toall # <<>>
    BY <1>4 DEF PollTimes, Polls, Delivers, Waiting
  <2>2. e \in TimesIn(Fit) /\ toall' \in Seq(TimesIn(Fit))
    BY <1>4, <2>1, QueueParts DEF PollTimes, FitInv
  <2>3. e.time \in Fit
    BY <2>2 DEF TimesIn
  <2> HIDE DEF e
  <2>4. cur_epoch' = [cur_epoch EXCEPT ![e.phase] = e.time]
    BY <1>4 DEF PollTimes, e
  <2>5. cur_epoch' \in [Phase -> Fit]
    BY <2>3, <2>4 DEF FitInv
  <2>6. interval' = interval /\ epoch_term' \in {epoch_term, cur_epoch'}
    BY <1>4 DEF PollTimes, CommitAll
  <2>7. QED
    BY <1>4, <2>2, <2>5, <2>6 DEF PollTimes, FitInv
<1>5. CASE PollChange
  <2> DEFINE e == Head(srv2cli)
  <2>1. srv2cli # <<>>
    BY <1>5 DEF PollChange, Polls, Delivers, Waiting
  <2>2. e \in FitChange /\ srv2cli' \in Seq(FitChange)
    BY <1>5, <2>1, QueueParts DEF PollChange, FitInv
  <2>3. e.value \in Interval
    BY <2>2 DEF FitChange
  <2> HIDE DEF e
  <2>4. epoch_term' = cur_epoch' /\ interval' = e.value
    BY <1>5 DEF PollChange, CommitAll, e
  <2>5. QED
    BY <1>5, <2>2, <2>3, <2>4 DEF PollChange, FitInv
<1>6. CASE PollNothing
  <2>1. interval' = interval /\ epoch_term' \in {epoch_term, cur_epoch'}
    BY <1>6 DEF PollNothing, CommitAll
  <2>2. QED
    BY <1>6, <2>1 DEF PollNothing, FitInv, mail
<1>7. ASSUME NEW t \in 0 .. Steps - 1, NEW time \in [Phase -> Duration],
             RootSends(t, time)
      PROVE  FitInv'
  <2>1. time \in [Phase -> Fit]
    BY DEF Fit
  <2>2. toall' \in Seq(TimesIn(Fit))
    BY <1>7, <2>1, AnnouncedTimes DEF RootSends, TypeOK, FitInv
  <2>3. QED
    BY <1>7, <2>2 DEF RootSends, FitInv, tables, clock
<1>8. ASSUME NEW new \in Interval, LastLine(new)
      PROVE  FitInv'
  <2> DEFINE e == [iter |-> Head(todo), value |-> new]
  <2>1. Head(todo) \in Nat
    BY <1>8, QueueParts DEF LastLine, TypeOK
  <2>2. e \in FitChange
    BY <2>1 DEF FitChange
  <2>3. srv2cli' \in {srv2cli, Append(srv2cli, e)}
    BY <1>8 DEF LastLine, PublishInterval
  <2> HIDE DEF e
  <2>4. srv2cli' \in Seq(FitChange)
    BY <2>2, <2>3, AppendLast DEF FitInv
  <2>5. QED
    BY <1>8, <2>4 DEF LastLine, FitInv, tables, clock
<1>9. CASE Subscribe \/ ReadyStart \/ SetCkpt \/ ServerPullDone
  BY <1>9 DEF Subscribe, ReadyStart, SetCkpt, ServerPullDone, FitInv, tables,
              clock, mail
<1>10. ASSUME NEW c \in Channel, ReadyOther(c)
       PROVE  FitInv'
  <2>1. /\ toall' = toall \/ (toall # <<>> /\ toall' = Tail(toall))
        /\ srv2cli' = srv2cli \/ (srv2cli # <<>> /\ srv2cli' = Tail(srv2cli))
    BY <1>10 DEF ReadyOther, Delivers, Waiting
  <2>2. toall' \in Seq(TimesIn(Fit))
    BY <2>1, QueueParts DEF FitInv
  <2>3. srv2cli' \in Seq(FitChange)
    BY <2>1, QueueParts DEF FitInv
  <2>4. QED
    BY <1>10, <2>2, <2>3 DEF ReadyOther, FitInv, tables, clock
<1>11. CASE UNCHANGED vars
  BY <1>11 DEF FitInv, vars, tables, clock, mail
<1>12. QED
  BY <1>1, <1>2, <1>3, <1>4, <1>5, <1>6, <1>7, <1>8, <1>9, <1>10, <1>11
     DEF Next, App

(* One phase's time on top of a clock within bounds: one subtraction is    *)
(* enough to bring it back.                                                *)
LEMMA OneSubtraction ==
  ASSUME PhasesFit, TypeOK, FitInv, interval # 0, NEW q \in Phase,
         0 <= curtime, curtime <= interval
  PROVE  LET c == curtime + epoch_term[q]
         IN  /\ 0 <= c /\ c - interval <= interval
             /\ c > interval => 0 <= c - interval
<1>1. epoch_term[q] \in Nat /\ interval \in Nat /\ curtime \in Int
  BY DEF TypeOK
<1>2. epoch_term[q] <= interval
  <2>1. interval \in Interval /\ epoch_term[q] \in Fit
    BY DEF FitInv
  <2>2. CASE epoch_term[q] = 0
    BY <1>1, <2>2
  <2>3. CASE epoch_term[q] # 0
    BY <2>1, <2>3 DEF Fit, PhasesFit
  <2>4. QED
    BY <2>2, <2>3
<1>3. QED
  BY <1>1, <1>2

Bounded ==
  interval # 0 /\ (~ renewal \/ pc = "replay")
    => 0 <= curtime /\ curtime <= interval

LEMMA AdvanceBounded ==
  ASSUME PhasesFit, TypeOK, FitInv, Bounded, Advance,
         ~ renewal \/ pc = "replay", interval # 0
  PROVE  0 <= curtime' /\ curtime' <= interval
<1> DEFINE c == curtime + epoch_term[phase]
<1>1. /\ c \in Int /\ interval \in Nat /\ phase \in Phase
      /\ curtime \in Int /\ epoch_term[phase] \in Nat
  BY DEF TypeOK
<1>2. ~ f_1st
  BY DEF FitInv
<1>3. curtime' = IF c > interval THEN c - interval ELSE c
  <2>1. CASE Writes
    <3>1. c > interval
      BY <1>2, <2>1 DEF Writes
    <3>2. curtime' = c - interval
      BY <1>1, <2>1 DEF Advance
    <3>3. QED
      BY <3>1, <3>2
  <2>2. CASE ~ Writes
    <3>1. ~ (c > interval)
      BY <2>2 DEF Writes
    <3>2. curtime' = c
      BY <1>1, <2>2 DEF Advance
    <3>3. QED
      BY <3>1, <3>2
  <2>3. QED
    BY <2>1, <2>2
<1>4. /\ 0 <= c /\ c - interval <= interval
      /\ c > interval => 0 <= c - interval
  BY <1>1, OneSubtraction DEF Bounded
<1> HIDE DEF c
<1>5. CASE c > interval
  BY <1>1, <1>3, <1>4, <1>5
<1>6. CASE ~ (c > interval)
  BY <1>1, <1>3, <1>4, <1>6
<1>7. QED
  BY <1>5, <1>6

LEMMA BoundedStep ==
  PhasesFit /\ TypeOK /\ FitInv /\ Bounded /\ [Next]_vars => Bounded'
<1> SUFFICES ASSUME PhasesFit, TypeOK, FitInv, Bounded, [Next]_vars
             PROVE  Bounded'
  OBVIOUS
<1>1. CASE CkptInStep
  <2>1. interval' = interval /\ renewal' = renewal /\ ~ renewal /\ Advance
    BY <1>1 DEF CkptInStep
  <2>2. QED
    BY <2>1, AdvanceBounded DEF Bounded
<1>2. CASE ReplayEnd
  <2>1. interval' = interval /\ pc = "replay" /\ Advance
    BY <1>2 DEF ReplayEnd
  <2>2. QED
    BY <2>1, AdvanceBounded DEF Bounded
<1>3. CASE ReplayStep
  <2> DEFINE c == curtime + epoch_term[i % NCkpt]
  <2>1. /\ interval' = interval /\ pc = "replay"
        /\ curtime' = IF c > interval THEN c - interval ELSE c
    BY <1>3 DEF ReplayStep
  <2>2. i % NCkpt \in Phase
    BY NCkptAssumption DEF TypeOK, Phase
  <2>3. interval # 0 => /\ 0 <= c /\ c - interval <= interval
                        /\ c > interval => 0 <= c - interval
    BY <2>1, <2>2, OneSubtraction DEF Bounded
  <2>4. epoch_term[i % NCkpt] \in Nat
    BY <2>2 DEF TypeOK
  <2>5. c \in Int /\ interval \in Nat
    BY <2>4 DEF TypeOK
  <2> HIDE DEF c
  <2>6. CASE c > interval
    BY <2>1, <2>3, <2>5, <2>6 DEF Bounded
  <2>7. CASE ~ (c > interval)
    BY <2>1, <2>3, <2>5, <2>7 DEF Bounded
  <2>8. QED
    BY <2>6, <2>7
<1>4. CASE CkptBehind
  BY <1>4 DEF CkptBehind, AfterCkpt, Bounded, clock
<1>5. CASE ReplayBegin
  BY <1>5 DEF ReplayBegin, Bounded, TypeOK
<1>6. CASE PollTimes
  BY <1>6 DEF PollTimes, Polls, NextCandidate, CommitAll, Bounded
<1>7. CASE PollChange
  BY <1>7 DEF PollChange, Polls, NextCandidate, CommitAll, Bounded
<1>8. CASE PollNothing
  BY <1>8 DEF PollNothing, NextCandidate, CommitAll, Bounded
<1>9. CASE PostexecSends \/ PostexecSilent \/ PullDone
  BY <1>9 DEF PostexecSends, PostexecSilent, PullDone, Bounded, clock
<1>10. ASSUME NEW t \in 0 .. Steps - 1, NEW time \in [Phase -> Duration],
              RootSends(t, time)
       PROVE  Bounded'
  BY <1>10 DEF RootSends, Bounded, clock
<1>11. ASSUME NEW new \in Interval, LastLine(new)
       PROVE  Bounded'
  BY <1>11 DEF LastLine, Bounded, clock
<1>12. CASE Subscribe \/ ReadyStart \/ SetCkpt \/ ServerPullDone
  BY <1>12 DEF Subscribe, ReadyStart, SetCkpt, ServerPullDone, Bounded, clock
<1>13. ASSUME NEW c \in Channel, ReadyOther(c)
       PROVE  Bounded'
  BY <1>13 DEF ReadyOther, Bounded, clock
<1>14. CASE UNCHANGED vars
  BY <1>14 DEF Bounded, vars, clock
<1>15. QED
  BY <1>1, <1>2, <1>3, <1>4, <1>5, <1>6, <1>7, <1>8, <1>9, <1>10, <1>11,
     <1>12, <1>13, <1>14 DEF Next, App

(* With phases shorter than the intervals, the clock stays between zero    *)
(* and the interval in force.                                              *)
THEOREM ClockStaysBounded == Spec => []ClockBounded
<1>1. Init => Bounded
  BY DEF Init, Bounded
<1>2. CASE PhasesFit
  <2>1. TypeOK /\ FitInv /\ Bounded /\ [Next]_vars => Bounded'
    BY <1>2, BoundedStep
  <2>2. Bounded => ClockBounded
    BY DEF Bounded, ClockBounded
  <2>3. QED
    BY <1>1, <2>1, <2>2, TypeInit, TypeStep, FitInit, FitStep, PTL DEF Spec
<1>3. CASE ~ PhasesFit
  <2>1. ClockBounded
    BY <1>3 DEF ClockBounded
  <2>2. QED
    BY <2>1, PTL
<1>4. QED
  BY <1>2, <1>3

-----------------------------------------------------------------------------
(* The recursive function in Sums is what its equation says. *)
LEMMA SumsEquation ==
  ASSUME NEW time \in [Phase -> Nat]
  PROVE  /\ Sums(time) \in [Nat -> Nat]
         /\ Sums(time)[0] = 0
         /\ \A k \in Nat : Sums(time)[k + 1] = Sums(time)[k] + time[k % NCkpt]
<1> DEFINE F == [k \in Nat |-> [x \in Nat |-> x + time[k % NCkpt]]]
           Eq(g) == g = [k \in Nat |-> IF k = 0 THEN 0
                                       ELSE g[k - 1] + time[(k - 1) % NCkpt]]
<1>1. ASSUME NEW k \in Nat
      PROVE  time[k % NCkpt] \in Nat
  BY <1>1, NCkptAssumption DEF Phase
<1>2. F \in [Nat -> [Nat -> Nat]]
  BY <1>1
<1>3. \A k, x \in Nat : F[k][x] = x + time[k % NCkpt]
  OBVIOUS
<1> HIDE DEF F
<1>4. PICK s : Generates(F, 0, Nat, s)
  <2>1. 0 \in Nat
    OBVIOUS
  <2>2. QED
    BY <1>2, <2>1, SequenceExists
<1>5. /\ s \in [Nat -> Nat] /\ s[0] = 0
      /\ \A k \in Nat : s[k + 1] = s[k] + time[k % NCkpt]
  BY <1>3, <1>4 DEF Generates
<1>6. Eq(s)
  <2>1. ASSUME NEW k \in Nat
        PROVE  s[k] = IF k = 0 THEN 0 ELSE s[k - 1] + time[(k - 1) % NCkpt]
    <3>1. CASE k = 0
      BY <1>5, <3>1
    <3>2. CASE k # 0
      <4>1. k - 1 \in Nat /\ (k - 1) + 1 = k
        BY <3>2
      <4>2. s[(k - 1) + 1] = s[k - 1] + time[(k - 1) % NCkpt]
        BY <1>5, <4>1
      <4>3. QED
        BY <3>2, <4>1, <4>2
    <3>3. QED
      BY <3>1, <3>2
  <2>2. QED
    BY <1>5, <2>1
<1>7. Eq(Sums(time))
  <2>1. Sums(time) = CHOOSE g : Eq(g)
    BY DEF Sums
  <2> HIDE DEF Eq
  <2>2. QED
    BY <1>6, <2>1
<1>8. /\ Sums(time)[0] = 0
      /\ \A k \in Nat : Sums(time)[k + 1] = Sums(time)[k] + time[k % NCkpt]
  <2> DEFINE g == Sums(time)
  <2>1. g = [k \in Nat |-> IF k = 0 THEN 0
                           ELSE g[k - 1] + time[(k - 1) % NCkpt]]
    BY <1>7
  <2> HIDE DEF g
  <2>2. g[0] = 0
    BY <2>1
  <2>3. ASSUME NEW k \in Nat
        PROVE  g[k + 1] = g[k] + time[k % NCkpt]
    <3>1. k + 1 \in Nat /\ k + 1 # 0 /\ (k + 1) - 1 = k
      OBVIOUS
    <3>2. g[k + 1] = g[(k + 1) - 1] + time[((k + 1) - 1) % NCkpt]
      BY <2>1, <3>1
    <3>3. QED
      BY <3>1, <3>2
  <2>4. QED
    BY <2>2, <2>3 DEF g
<1> HIDE DEF Eq
<1>9. Sums(time) \in [Nat -> Nat]
  <2> DEFINE S == {k \in Nat : Sums(time)[k] = s[k]}
  <2>1. 0 \in S
    BY <1>5, <1>8
  <2>2. ASSUME NEW k \in Nat, k \in S
        PROVE  k + 1 \in S
    BY <1>5, <1>8, <2>2
  <2> HIDE DEF S
  <2>3. Nat \subseteq S
    BY <2>1, <2>2, SetInduction
  <2>4. \A k \in Nat : Sums(time)[k] \in Nat
    BY <1>5, <2>3 DEF S
  <2>5. Sums(time) = [k \in Nat |-> Sums(time)[k]]
    BY <1>7 DEF Eq
  <2>6. QED
    BY <2>4, <2>5
<1>10. QED
  BY <1>8, <1>9

-----------------------------------------------------------------------------
(* The clock c is that of a run by the first k phases, up to at most k     *)
(* whole intervals, and lacks the time lost.                               *)
Behind(c, k, time, lost, v) ==
  \E n \in 0 .. k : c = Sums(time)[k] - lost - n * v
Losses(time) == {0} \cup {time[p] : p \in Phase}
OnePhaseBehind(c, k) ==
  \E lost \in Losses(epoch_term) : Behind(c, k, epoch_term, lost, interval)

(* What holds the clock to the run it replays, at each point of the loop:  *)
(* inside the replay nothing is lost yet; behind it at most one phase is,  *)
(* and no time or interval changes until a new replay is due.              *)
ReplayInv ==
  /\ ~ renewal => biter <= iter
  /\ pc = "postexec" => root
  /\ ~ root /\ interval # 0 =>
       /\ pc = "replay" => /\ i = 0 \/ i <= Last
                           /\ Behind(curtime, i, epoch_term, 0, interval)
       /\ ~ renewal /\ pc = "candidate" => OnePhaseBehind(curtime, Count)
       /\ ~ renewal /\ pc = "poll" => OnePhaseBehind(curtime, Count + 1)

(* One more phase on the clock, and at most one interval off it. *)
LEMMA OneMorePhase ==
  ASSUME NEW time \in [Phase -> Nat], NEW k \in Nat, NEW lost \in Nat,
         NEW v \in Nat, NEW c \in Int, NEW d \in Int,
         Behind(c, k, time, lost, v),
         \/ d = c + time[k % NCkpt]
         \/ d = c + time[k % NCkpt] - v
  PROVE  Behind(d, k + 1, time, lost, v)
<1> DEFINE now == Sums(time)[k]
           next == Sums(time)[k + 1]
           t == time[k % NCkpt]
<1>1. now \in Nat /\ next = now + t
  BY SumsEquation
<1>2. t \in Nat
  BY NCkptAssumption DEF Phase
<1>3. PICK n \in 0 .. k : c = now - lost - n * v
  BY DEF Behind
<1>4. n * v \in Int /\ (n + 1) * v = n * v + v
  OBVIOUS
<1>5. d = c + t \/ d = c + t - v
  OBVIOUS
<1> HIDE DEF now, next, t
<1>6. n \in 0 .. k + 1 /\ n + 1 \in 0 .. k + 1
  OBVIOUS
<1>7. d = next - lost - n * v \/ d = next - lost - (n + 1) * v
  BY <1>1, <1>2, <1>3, <1>4, <1>5
<1>8. \E q \in 0 .. k + 1 : d = next - lost - q * v
  BY <1>6, <1>7
<1>9. QED
  BY <1>8 DEF Behind, next

(* Where the candidate is in the run counted from iteration biter. *)
LEMMA CountOfCandidate ==
  ASSUME TypeOK, biter <= iter
  PROVE  Count \in Nat /\ Count % NCkpt = phase
<1>1. iter - biter \in Nat /\ phase \in 0 .. NCkpt - 1
  BY StepsAssumption DEF TypeOK, Phase
<1>2. QED
  BY <1>1, NCkptAssumption, PhaseOfCount DEF Count

LEMMA CountOfNext ==
  ASSUME TypeOK, biter <= iter, biter' = biter, NextCandidate,
         pc' = "candidate"
  PROVE  Count' = Count + 1
<1>1. /\ iter \in Int /\ biter \in Int /\ phase \in Int /\ NCkpt \in Int
      /\ phase <= NCkpt - 1
  BY NCkptAssumption, StepsAssumption DEF TypeOK, Phase
<1>2. CASE phase + 1 < NCkpt
  <2>1. phase' = phase + 1 /\ iter' = iter
    BY <1>2 DEF NextCandidate
  <2>2. (iter - biter) * NCkpt \in Int
    BY <1>1
  <2>3. QED
    BY <1>1, <2>1, <2>2 DEF Count
<1>3. CASE ~ (phase + 1 < NCkpt)
  <2>1. phase' = 0 /\ iter' = iter + 1 /\ phase = NCkpt - 1
    BY <1>1, <1>3 DEF NextCandidate
  <2>2. /\ (iter - biter) * NCkpt \in Int
        /\ (iter + 1 - biter) * NCkpt = (iter - biter) * NCkpt + NCkpt
    BY <1>1
  <2>3. QED
    BY <1>1, <2>1, <2>2 DEF Count
<1>4. QED
  BY <1>2, <1>3

(* The candidate's own phase goes on the clock. *)
LEMMA AdvanceBehind ==
  ASSUME TypeOK, Advance, biter <= iter, NEW lost \in Nat,
         Behind(curtime, Count, epoch_term, lost, interval)
  PROVE  Behind(curtime', Count + 1, epoch_term, lost, interval)
<1>1. Count \in Nat /\ Count % NCkpt = phase
  BY CountOfCandidate
<1>2. /\ epoch_term \in [Phase -> Nat] /\ interval \in Nat /\ curtime \in Int
      /\ epoch_term[phase] \in Nat
  BY DEF TypeOK
<1>3. \/ curtime' = curtime + epoch_term[phase]
      \/ curtime' = curtime + epoch_term[phase] - interval
  <2>1. CASE Writes
    BY <1>2, <2>1 DEF Advance
  <2>2. CASE ~ Writes
    BY <1>2, <2>2 DEF Advance
  <2>3. QED
    BY <2>1, <2>2
<1>4. curtime' \in Int
  BY <1>2, <1>3
<1> HIDE DEF Count
<1>5. \/ curtime' = curtime + epoch_term[Count % NCkpt]
      \/ curtime' = curtime + epoch_term[Count % NCkpt] - interval
  BY <1>1, <1>3
<1>6. QED
  BY <1>1, <1>2, <1>4, <1>5, OneMorePhase

(* The replay stops a phase before the candidate's, or, at the very first  *)
(* candidate of the announced iteration, has nothing to replay.            *)
LEMMA ReplayStopsShort ==
  ASSUME TypeOK, pc = "replay", i >= Last, i = 0 \/ i <= Last,
         Behind(curtime, i, epoch_term, 0, interval)
  PROVE  OnePhaseBehind(curtime, Count)
<1>1. Count \in Nat /\ biter <= iter
  BY CountOfCandidate DEF TypeOK
<1>2. Last = Count - 1
  <2>1. (iter - biter) * NCkpt \in Int /\ phase \in Int
    BY NCkptAssumption, StepsAssumption DEF TypeOK, Phase
  <2>2. QED
    BY <2>1 DEF Last, Count
<1>3. /\ i \in Nat /\ epoch_term \in [Phase -> Nat] /\ curtime \in Int
      /\ interval \in Nat
  BY DEF TypeOK
<1>4. 0 \in Losses(epoch_term)
  BY DEF Losses
<1>5. CASE i = Count
  BY <1>4, <1>5 DEF OnePhaseBehind
<1>6. CASE i # Count
  <2>1. i + 1 = Count
    BY <1>1, <1>2, <1>3, <1>6
  <2> DEFINE t == epoch_term[i % NCkpt]
             now == Sums(epoch_term)[i]
  <2>2. i % NCkpt \in Phase
    BY <1>3, NCkptAssumption DEF Phase
  <2>3. t \in Nat /\ t \in Losses(epoch_term)
    BY <1>3, <2>2 DEF Losses
  <2>4. now \in Nat /\ Sums(epoch_term)[Count] = now + t
    BY <1>3, <2>1, SumsEquation
  <2>5. PICK n \in 0 .. i : curtime = now - 0 - n * interval
    BY DEF Behind
  <2>6. n \in 0 .. Count /\ n * interval \in Int
    BY <1>3, <2>1
  <2> HIDE DEF t, now
  <2>7. curtime = (now + t) - t - n * interval
    BY <2>3, <2>4, <2>5, <2>6
  <2>8. Behind(curtime, Count, epoch_term, t, interval)
    BY <2>4, <2>6, <2>7 DEF Behind
  <2>9. QED
    BY <2>3, <2>8 DEF OnePhaseBehind
<1>7. QED
  BY <1>5, <1>6

LEMMA LossesAreTimes ==
  ASSUME TypeOK, NEW lost \in Losses(epoch_term)
  PROVE  lost \in Nat
BY DEF TypeOK, Losses

LEMMA AdvanceOnePhase ==
  ASSUME TypeOK, Advance, biter <= iter, OnePhaseBehind(curtime, Count)
  PROVE  OnePhaseBehind(curtime', Count + 1)
<1>1. PICK lost \in Losses(epoch_term) :
        Behind(curtime, Count, epoch_term, lost, interval)
  BY DEF OnePhaseBehind
<1>2. Behind(curtime', Count + 1, epoch_term, lost, interval)
  BY <1>1, LossesAreTimes, AdvanceBehind
<1>3. QED
  BY <1>2 DEF OnePhaseBehind

LEMMA ReplayInvInit == Init => ReplayInv
BY DEF Init, ReplayInv

(* Steps that leave the clock, the tables and the candidate alone. *)
LEMMA ReplayInvKept ==
  ASSUME ReplayInv,
         \/ pc' = pc
         \/ pc' = "poll" /\ (root \/ renewal)
         \/ pc' = "wait",
         root' = root, iter' = iter, phase' = phase, i' = i,
         epoch_term' = epoch_term, clock' = clock
  PROVE  ReplayInv'
<1>1. /\ root' = root /\ renewal' = renewal /\ interval' = interval
      /\ biter' = biter /\ iter' = iter /\ i' = i
      /\ curtime' = curtime /\ epoch_term' = epoch_term
      /\ Count' = Count /\ Last' = Last
  BY DEF clock, Count, Last
<1>2. OnePhaseBehind(curtime, Count)' <=> OnePhaseBehind(curtime, Count)
  BY <1>1 DEF OnePhaseBehind
<1>3. OnePhaseBehind(curtime, Count + 1)' <=> OnePhaseBehind(curtime, Count + 1)
  BY <1>1 DEF OnePhaseBehind
<1>4. CASE pc' = pc
  BY <1>1, <1>2, <1>3, <1>4 DEF ReplayInv
<1>5. CASE pc' = "poll" /\ (root \/ renewal)
  BY <1>1, <1>5 DEF ReplayInv
<1>6. CASE pc' = "wait"
  BY <1>1, <1>6 DEF ReplayInv
<1>7. QED
  BY <1>4, <1>5, <1>6

(* The first candidate: no interval is there to be behind of. *)
LEMMA ReplayInvReady ==
  ASSUME ReplayInv, interval = 0, pc' = "candidate", clock' = clock,
         iter' = iter
  PROVE  ReplayInv'
<1>1. renewal' = renewal /\ interval' = 0 /\ biter' = biter
  BY DEF clock
<1>2. QED
  BY <1>1 DEF ReplayInv

LEMMA ReplayInvStep ==
  TypeOK /\ EarlyInv /\ ReplayInv /\ [Next]_vars => ReplayInv'
<1> SUFFICES ASSUME TypeOK, EarlyInv, ReplayInv, [Next]_vars
             PROVE  ReplayInv'
  OBVIOUS
<1>1. CASE CkptInStep
  <2>1. /\ UNCHANGED <<root, iter, phase, epoch_term, biter, interval, renewal>>
        /\ Advance /\ ~ renewal /\ pc = "candidate"
    BY <1>1 DEF CkptInStep
  <2>2. /\ pc' \in {"postexec", "poll"}
        /\ pc' = "postexec" => root
    BY <2>1 DEF Advance, AfterCkpt
  <2>3. biter <= iter
    BY <2>1 DEF ReplayInv
  <2>4. ASSUME ~ root, interval # 0
        PROVE  OnePhaseBehind(curtime, Count + 1)'
    <3>1. OnePhaseBehind(curtime', Count + 1)
      BY <2>1, <2>3, <2>4, AdvanceOnePhase DEF ReplayInv
    <3>2. Count' = Count
      BY <2>1 DEF Count
    <3>3. QED
      BY <2>1, <3>1, <3>2 DEF OnePhaseBehind
  <2>5. QED
    BY <2>1, <2>2, <2>3, <2>4 DEF ReplayInv
<1>2. CASE CkptBehind
  <2>1. CASE pc' = "postexec"
    BY <1>2, <2>1 DEF CkptBehind, AfterCkpt, ReplayInv, clock
  <2>2. CASE pc' = "poll"
    BY <1>2, <2>2, ReplayInvKept DEF CkptBehind
  <2>3. QED
    BY <1>2, <2>1, <2>2 DEF CkptBehind, AfterCkpt
<1>3. CASE ReplayBegin
  <2>1. /\ UNCHANGED <<root, iter, phase, epoch_term, biter, interval, renewal>>
        /\ renewal /\ pc' = "replay" /\ i' = 0 /\ curtime' = 0
    BY <1>3 DEF ReplayBegin
  <2>2. Behind(curtime', 0, epoch_term, 0, interval)
    <3>1. /\ Sums(epoch_term)[0] = 0 /\ interval \in Nat
      BY SumsEquation DEF TypeOK
    <3>2. 0 = 0 - 0 - 0 * interval /\ 0 \in 0 .. 0
      BY <3>1
    <3>3. QED
      BY <2>1, <3>1, <3>2 DEF Behind
  <2>3. QED
    BY <2>1, <2>2 DEF ReplayInv
<1>4. CASE ReplayStep
  <2> DEFINE c == curtime + epoch_term[i % NCkpt]
  <2>1. /\ UNCHANGED <<root, pc, iter, phase, biter, interval, renewal>>
        /\ epoch_term' = epoch_term
        /\ pc = "replay" /\ i < Last /\ i' = i + 1
        /\ curtime' = IF c > interval THEN c - interval ELSE c
    BY <1>4 DEF ReplayStep, tables
  <2>2. /\ renewal /\ i \in Nat /\ curtime \in Int /\ interval \in Nat
        /\ epoch_term \in [Phase -> Nat]
    BY <2>1 DEF TypeOK
  <2>3. c \in Int
    BY <2>2, NCkptAssumption DEF Phase
  <2>4. curtime' = c \/ curtime' = c - interval
    <3> HIDE DEF c
    <3>1. QED
      BY <2>1
  <2>5. curtime' \in Int
    <3> HIDE DEF c
    <3>1. QED
      BY <2>2, <2>3, <2>4
  <2>6. Last' = Last
    BY <2>1 DEF Last
  <2>7. Last \in Int
    BY NCkptAssumption, StepsAssumption DEF TypeOK, Phase, Last
  <2>8. i' = 0 \/ i' <= Last'
    <3> HIDE DEF Last
    <3>1. QED
      BY <2>1, <2>2, <2>6, <2>7
  <2>9. ASSUME ~ root, interval # 0
        PROVE  Behind(curtime, i, epoch_term, 0, interval)'
    <3>1. Behind(curtime, i, epoch_term, 0, interval)
      BY <2>1, <2>9 DEF ReplayInv
    <3>2. /\ curtime' = curtime + epoch_term[i % NCkpt]
          \/ curtime' = curtime + epoch_term[i % NCkpt] - interval
      <4>1. c - interval = curtime + epoch_term[i % NCkpt] - interval
        <5>1. epoch_term[i % NCkpt] \in Nat
          BY <2>2, NCkptAssumption DEF Phase
        <5>2. QED
          BY <2>2, <5>1
      <4>2. QED
        BY <2>4, <4>1
    <3>3. Behind(curtime', i + 1, epoch_term, 0, interval)
      BY <2>2, <2>5, <3>1, <3>2, OneMorePhase
    <3>4. QED
      BY <2>1, <3>3 DEF Behind
  <2>10. QED
    BY <2>1, <2>2, <2>8, <2>9 DEF ReplayInv
<1>5. CASE ReplayEnd
  <2>1. /\ UNCHANGED <<root, iter, phase, biter, interval>>
        /\ epoch_term' = epoch_term
        /\ Advance /\ pc = "replay" /\ i >= Last
    BY <1>5 DEF ReplayEnd, tables
  <2>2. /\ pc' \in {"postexec", "poll"}
        /\ pc' = "postexec" => root
    BY <2>1 DEF Advance, AfterCkpt
  <2>3. biter <= iter
    BY <2>1 DEF TypeOK
  <2>4. ASSUME ~ root, interval # 0
        PROVE  OnePhaseBehind(curtime, Count + 1)'
    <3>1. OnePhaseBehind(curtime, Count)
      BY <2>1, <2>4, ReplayStopsShort DEF ReplayInv
    <3>2. OnePhaseBehind(curtime', Count + 1)
      BY <2>1, <2>3, <3>1, AdvanceOnePhase
    <3>3. Count' = Count
      BY <2>1 DEF Count
    <3>4. QED
      BY <2>1, <3>2, <3>3 DEF OnePhaseBehind
  <2>5. QED
    BY <2>1, <2>2, <2>3, <2>4 DEF ReplayInv
<1>6. CASE PostexecSends \/ PostexecSilent
  <2>1. root /\ root' = root /\ pc' = "poll" /\ UNCHANGED <<iter, clock>>
    BY <1>6 DEF PostexecSends, PostexecSilent, ReplayInv
  <2>2. QED
    BY <2>1 DEF ReplayInv, clock
<1>7. CASE PollTimes \/ PollNothing
  <2>1. /\ pc = "poll" /\ root' = root /\ renewal' = renewal
        /\ curtime' = curtime /\ NextCandidate
        /\ pc' \in {"candidate", "done"}
        /\ ~ renewal => UNCHANGED <<epoch_term, biter, interval>>
    BY <1>7 DEF PollTimes, PollNothing, Polls, NextCandidate
  <2>2. iter <= iter'
    BY <2>1 DEF NextCandidate, TypeOK
  <2>3. CASE renewal
    BY <2>1, <2>3 DEF ReplayInv
  <2>4. CASE ~ renewal
    <3>1. biter <= iter /\ biter' <= iter'
      BY <2>1, <2>2, <2>4, StepsAssumption DEF ReplayInv, TypeOK, NextCandidate
    <3>2. ASSUME ~ root, interval # 0, pc' = "candidate"
          PROVE  OnePhaseBehind(curtime, Count)'
      <4>1. OnePhaseBehind(curtime, Count + 1)
        BY <2>1, <2>4, <3>2 DEF ReplayInv
      <4>2. Count' = Count + 1
        BY <2>1, <2>4, <3>1, <3>2, CountOfNext
      <4>3. QED
        BY <2>1, <2>4, <4>1, <4>2 DEF OnePhaseBehind
    <3>3. QED
      BY <2>1, <2>4, <3>1, <3>2 DEF ReplayInv
  <2>5. QED
    BY <2>3, <2>4
<1>8. CASE PollChange
  <2>1. renewal' = TRUE /\ pc' \in {"candidate", "done"}
    BY <1>8 DEF PollChange, NextCandidate
  <2>2. QED
    BY <2>1 DEF ReplayInv
<1>9. CASE \/ PullDone \/ ServerPullDone \/ Subscribe \/ SetCkpt
           \/ \E t \in 0 .. Steps - 1, time \in [Phase -> Duration] :
                RootSends(t, time)
           \/ \E new \in Interval : LastLine(new)
           \/ UNCHANGED vars
  <2>1. /\ pc' \in {pc, "wait"}
        /\ UNCHANGED <<root, iter, phase, i, tables, clock>>
    BY <1>9 DEF PullDone, ServerPullDone, Subscribe, SetCkpt, RootSends,
                LastLine, vars
  <2>2. /\ root' = root /\ iter' = iter /\ phase' = phase /\ i' = i
        /\ epoch_term' = epoch_term /\ clock' = clock
    BY <2>1 DEF tables
  <2>3. QED
    BY <2>1, <2>2, ReplayInvKept
<1>10. CASE ReadyStart \/ \E c \in Channel : ReadyOther(c)
  <2>1. pc = "wait" /\ pc' = "candidate" /\ clock' = clock /\ iter' = iter
    BY <1>10 DEF ReadyStart, ReadyOther
  <2>2. interval = 0
    BY <2>1 DEF EarlyInv
  <2>3. QED
    BY <2>1, <2>2, ReplayInvReady
<1>11. QED
  BY <1>1, <1>2, <1>3, <1>4, <1>5, <1>6, <1>7, <1>8, <1>9, <1>10 DEF Next, App

(* However late a process takes up an interval, its clock lacks no more    *)
(* than one phase of a run by the same times and the same interval.        *)
THEOREM ClockLosesOnePhase == Spec => []ReplayLosesOnePhase
<1>1. TypeOK /\ ReplayInv => ReplayLosesOnePhase
  <2> SUFFICES ASSUME TypeOK, ReplayInv, pc = "poll", ~ root, ~ renewal,
                      interval # 0
               PROVE  \E n \in 0 .. (iter - biter + 1) * NCkpt,
                         lost \in Losses(epoch_term) :
                        curtime = Elapsed - lost - n * interval
    BY DEF ReplayLosesOnePhase, Losses
  <2>1. OnePhaseBehind(curtime, Count + 1) /\ biter <= iter
    BY DEF ReplayInv
  <2>2. PICK lost \in Losses(epoch_term), n \in 0 .. Count + 1 :
          curtime = Elapsed - lost - n * interval
    BY <2>1 DEF OnePhaseBehind, Behind, Elapsed
  <2>3. /\ iter \in Int /\ biter \in Int /\ phase \in Int
        /\ phase + 1 <= NCkpt
    BY StepsAssumption, NCkptAssumption DEF TypeOK, Phase
  <2>4. /\ (iter - biter) * NCkpt \in Int
        /\ (iter - biter + 1) * NCkpt = (iter - biter) * NCkpt + NCkpt
    BY <2>3, NCkptAssumption
  <2>5. 0 .. Count + 1 \subseteq 0 .. (iter - biter + 1) * NCkpt
    BY <2>3, <2>4, NCkptAssumption DEF Count
  <2>6. QED
    BY <2>2, <2>5
<1>2. QED
  BY <1>1, ReplayInvInit, ReplayInvStep, EarlyInit, EarlyStep, TypeInit,
     TypeStep, PTL DEF Spec
-----------------------------------------------------------------------------
TimesUpTo(t) == [iter : 0 .. t, phase : Phase, time : Nat]
ChangeUpTo(t) == [iter : 0 .. t, value : Nat \ {0}]

(* Everything that is under way is of iterations that root has announced,  *)
(* and that is, when this process is root, of none it has yet to begin.    *)
AnnouncedInv ==
  /\ toall \in Seq(TimesUpTo(told))
  /\ todo \in Seq(0 .. told)
  /\ srv2cli \in Seq(ChangeUpTo(told))
  /\ root => told <= iter
  /\ pc = "postexec" => root

LEMMA SeqOfMore ==
  ASSUME NEW S, NEW T, S \subseteq T, NEW s \in Seq(S)
  PROVE  s \in Seq(T)
OBVIOUS

(* An announcement of an iteration that does not lie before the last one. *)
LEMMA AnnouncedMore ==
  ASSUME TypeOK, AnnouncedInv, NEW t \in 0 .. Steps - 1, told <= t,
         NEW time \in [Phase -> Nat], AnnounceTimes(t, time), srv2cli' = srv2cli
  PROVE  /\ toall' \in Seq(TimesUpTo(told'))
         /\ todo' \in Seq(0 .. told')
         /\ srv2cli' \in Seq(ChangeUpTo(told'))
         /\ told' = t
<1>1. t \in Nat /\ told \in Int /\ told' = t
  BY StepsAssumption DEF TypeOK, AnnounceTimes
<1>2. 0 .. told \subseteq 0 .. t
  BY <1>1
<1>3. TimesUpTo(told) \subseteq TimesUpTo(t)
  BY <1>2 DEF TimesUpTo
<1>4. ChangeUpTo(told) \subseteq ChangeUpTo(t)
  BY <1>2 DEF ChangeUpTo
<1>5. /\ toall \in Seq(TimesUpTo(t)) /\ todo \in Seq(0 .. t)
      /\ srv2cli \in Seq(ChangeUpTo(t))
  BY <1>2, <1>3, <1>4, SeqOfMore DEF AnnouncedInv
<1> DEFINE batch == [k \in 1 .. NCkpt |->
                       [iter |-> t, phase |-> k - 1, time |-> time[k - 1]]]
<1>6. batch \in Seq(TimesUpTo(t))
  <2>1. ASSUME NEW k \in 1 .. NCkpt
        PROVE  [iter |-> t, phase |-> k - 1, time |-> time[k - 1]]
                 \in TimesUpTo(t)
    BY <1>1, NCkptAssumption DEF TimesUpTo, Phase
  <2>2. batch \in [1 .. NCkpt -> TimesUpTo(t)]
    BY <2>1
  <2>3. QED
    BY <2>2, NCkptAssumption
<1>7. /\ toall' = toall \/ toall' = toall \o batch
      /\ todo' = Append(todo, t)
  BY DEF AnnounceTimes
<1> HIDE DEF batch
<1>8. toall' \in Seq(TimesUpTo(t))
  <2> HIDE DEF TimesUpTo
  <2>1. toall \o batch \in Seq(TimesUpTo(t))
    BY <1>5, <1>6
  <2>2. QED
    BY <1>5, <1>7, <2>1
<1>9. todo' \in Seq(0 .. t)
  <2>1. t \in 0 .. t
    BY <1>1
  <2>2. QED
    BY <1>5, <1>7, <2>1
<1>10. QED
  BY <1>1, <1>5, <1>8, <1>9

LEMMA NextCandidateOnward ==
  ASSUME TypeOK, NextCandidate
  PROVE  iter <= iter' /\ pc' # "postexec"
BY DEF TypeOK, NextCandidate

LEMMA AnnouncedStep == TypeOK /\ AnnouncedInv /\ [Next]_vars => AnnouncedInv'
<1> SUFFICES ASSUME TypeOK, AnnouncedInv, [Next]_vars
             PROVE  AnnouncedInv'
  OBVIOUS
<1>1. CASE PostexecSends
  <2>1. /\ iter \in 0 .. Steps - 1 /\ iter' = iter /\ srv2cli' = srv2cli
        /\ cur_epoch \in [Phase -> Nat] /\ AnnounceTimes(iter, cur_epoch)
        /\ told <= iter /\ pc' = "poll"
    BY <1>1 DEF PostexecSends, TypeOK, AnnouncedInv
  <2>2. /\ toall' \in Seq(TimesUpTo(told')) /\ todo' \in Seq(0 .. told')
        /\ srv2cli' \in Seq(ChangeUpTo(told')) /\ told' = iter
    BY <2>1, AnnouncedMore
  <2>3. told' <= iter'
    BY <2>1, <2>2
  <2>4. QED
    BY <2>1, <2>2, <2>3 DEF AnnouncedInv
<1>2. ASSUME NEW t \in 0 .. Steps - 1, NEW time \in [Phase -> Duration],
             RootSends(t, time)
      PROVE  AnnouncedInv'
  <2>1. time \in [Phase -> Nat]
    BY DurationAssumption
  <2>2. /\ told <= t /\ AnnounceTimes(t, time) /\ srv2cli' = srv2cli
        /\ root' = root /\ ~ root /\ pc' = pc
    BY <1>2 DEF RootSends, TypeOK
  <2>3. /\ toall' \in Seq(TimesUpTo(told')) /\ todo' \in Seq(0 .. told')
        /\ srv2cli' \in Seq(ChangeUpTo(told'))
    BY <2>1, <2>2, AnnouncedMore
  <2>4. QED
    BY <2>2, <2>3 DEF AnnouncedInv
<1>3. CASE PollTimes
  <2>1. toall # <<>> /\ toall' = Tail(toall) /\ NextCandidate
    BY <1>3 DEF PollTimes, Polls, Delivers, Waiting
  <2>2. toall' \in Seq(TimesUpTo(told))
    BY <2>1, QueueParts DEF AnnouncedInv
  <2>3. (root => told <= iter') /\ pc' # "postexec"
    BY <2>1, NextCandidateOnward, NextCandidateType DEF AnnouncedInv, TypeOK
  <2>4. QED
    BY <1>3, <2>2, <2>3 DEF PollTimes, AnnouncedInv, server
<1>4. CASE PollChange
  <2>1. srv2cli # <<>> /\ srv2cli' = Tail(srv2cli) /\ NextCandidate
    BY <1>4 DEF PollChange, Polls, Delivers, Waiting
  <2>2. srv2cli' \in Seq(ChangeUpTo(told))
    BY <2>1, QueueParts DEF AnnouncedInv
  <2>3. (root => told <= iter') /\ pc' # "postexec"
    BY <2>1, NextCandidateOnward, NextCandidateType DEF AnnouncedInv, TypeOK
  <2>4. QED
    BY <1>4, <2>2, <2>3 DEF PollChange, AnnouncedInv, server
<1>5. CASE PollNothing
  <2>1. (root => told <= iter') /\ pc' # "postexec"
    BY <1>5, NextCandidateOnward, NextCandidateType
       DEF PollNothing, AnnouncedInv, TypeOK
  <2>2. QED
    BY <1>5, <2>1 DEF PollNothing, AnnouncedInv, mail, server
<1>6. ASSUME NEW new \in Interval, LastLine(new)
      PROVE  AnnouncedInv'
  <2>1. Head(todo) \in 0 .. told /\ todo' \in Seq(0 .. told)
    BY <1>6, QueueParts DEF LastLine, AnnouncedInv
  <2>2. srv2cli' \in Seq(ChangeUpTo(told))
    <3>1. [iter |-> Head(todo), value |-> new] \in ChangeUpTo(told)
      BY <2>1, IntervalAssumption DEF ChangeUpTo
    <3>2. Append(srv2cli, [iter |-> Head(todo), value |-> new])
            \in Seq(ChangeUpTo(told))
      BY <3>1, AppendLast DEF AnnouncedInv
    <3>3. QED
      BY <1>6, <3>2 DEF LastLine, PublishInterval, AnnouncedInv
  <2>3. QED
    BY <1>6, <2>1, <2>2 DEF LastLine, AnnouncedInv
<1>7. CASE \/ CkptInStep \/ CkptBehind \/ ReplayBegin \/ ReplayStep
           \/ ReplayEnd \/ PostexecSilent \/ PullDone
  BY <1>7 DEF CkptInStep, CkptBehind, ReplayBegin, ReplayStep, ReplayEnd,
              PostexecSilent, PullDone, Advance, AfterCkpt, AnnouncedInv, mail,
              server
<1>8. CASE Subscribe \/ ReadyStart \/ SetCkpt \/ ServerPullDone
  BY <1>8 DEF Subscribe, ReadyStart, SetCkpt, ServerPullDone, AnnouncedInv,
              mail, server
<1>9. ASSUME NEW c \in Channel, ReadyOther(c)
      PROVE  AnnouncedInv'
  <2>1. /\ toall' = toall \/ (toall # <<>> /\ toall' = Tail(toall))
        /\ srv2cli' = srv2cli \/ (srv2cli # <<>> /\ srv2cli' = Tail(srv2cli))
    BY <1>9 DEF ReadyOther, Delivers, Waiting
  <2>2. toall' \in Seq(TimesUpTo(told))
    BY <2>1, QueueParts DEF AnnouncedInv
  <2>3. srv2cli' \in Seq(ChangeUpTo(told))
    BY <2>1, QueueParts DEF AnnouncedInv
  <2>4. QED
    BY <1>9, <2>2, <2>3 DEF ReadyOther, AnnouncedInv, server
<1>10. CASE UNCHANGED vars
  BY <1>10 DEF AnnouncedInv, vars, mail, server
<1>11. QED
  BY <1>1, <1>2, <1>3, <1>4, <1>5, <1>6, <1>7, <1>8, <1>9, <1>10 DEF Next, App

(* The echo of its announcements never takes root's clock to an iteration  *)
(* it has yet to begin.                                                    *)
THEOREM ClockRootNeverBehind == Spec => RootNeverBehind
<1>1. Init => AnnouncedInv
  BY DEF Init, AnnouncedInv
<1>2. TypeOK /\ AnnouncedInv /\ [Next]_vars
        => [root /\ biter' # biter => biter' <= iter]_vars
  <2> SUFFICES ASSUME TypeOK, AnnouncedInv, Next, root, biter' # biter
               PROVE  biter' <= iter
    OBVIOUS
  <2>1. told \in Int /\ iter \in Int /\ told <= iter
    BY DEF TypeOK, AnnouncedInv
  <2>2. CASE PollTimes
    <3>1. toall # <<>>
      BY <2>2 DEF PollTimes, Polls, Delivers, Waiting
    <3>2. Head(toall) \in TimesUpTo(told)
      BY <3>1, QueueParts DEF AnnouncedInv
    <3>3. Head(toall).iter <= told /\ Head(toall).iter \in Int
      BY <2>1, <3>2 DEF TimesUpTo
    <3>4. biter' = Head(toall).iter
      BY <2>2 DEF PollTimes, CommitAll
    <3>5. QED
      BY <2>1, <3>3, <3>4
  <2>3. CASE PollChange
    <3>1. srv2cli # <<>>
      BY <2>3 DEF PollChange, Polls, Delivers, Waiting
    <3>2. Head(srv2cli) \in ChangeUpTo(told)
      BY <3>1, QueueParts DEF AnnouncedInv
    <3>3. Head(srv2cli).iter <= told /\ Head(srv2cli).iter \in Int
      BY <2>1, <3>2 DEF ChangeUpTo
    <3>4. biter' = Head(srv2cli).iter
      BY <2>3 DEF PollChange, CommitAll
    <3>5. QED
      BY <2>1, <3>3, <3>4
  <2>4. CASE PollNothing
    BY <2>4 DEF PollNothing, CommitAll
  <2>5. CASE \/ CkptInStep \/ CkptBehind \/ ReplayBegin \/ ReplayStep
             \/ ReplayEnd \/ PostexecSends \/ PostexecSilent \/ PullDone
    BY <2>5 DEF CkptInStep, CkptBehind, ReplayBegin, ReplayStep, ReplayEnd,
                PostexecSends, PostexecSilent, PullDone, clock
  <2>6. ASSUME NEW t \in 0 .. Steps - 1, NEW time \in [Phase -> Duration],
               RootSends(t, time)
        PROVE  FALSE
    BY <2>6 DEF RootSends
  <2>7. ASSUME NEW new \in Interval, LastLine(new)
        PROVE  FALSE
    BY <2>7 DEF LastLine, clock
  <2>8. CASE Subscribe \/ ReadyStart \/ SetCkpt \/ ServerPullDone
    BY <2>8 DEF Subscribe, ReadyStart, SetCkpt, ServerPullDone, clock
  <2>9. ASSUME NEW c \in Channel, ReadyOther(c)
        PROVE  FALSE
    BY <2>9 DEF ReadyOther, clock
  <2>10. QED
    BY <2>2, <2>3, <2>4, <2>5, <2>6, <2>7, <2>8, <2>9 DEF Next, App
<1>3. QED
  BY <1>1, <1>2, TypeInit, TypeStep, AnnouncedStep, PTL
     DEF Spec, RootNeverBehind
=============================================================================
