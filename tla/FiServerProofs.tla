--------------------------- MODULE FiServerProofs ---------------------------
(***************************************************************************)
(* Proofs about FiServer for every scenario, every target command and      *)
(* every queue bound.                                                      *)
(***************************************************************************)
EXTENDS FiServer, TLAPS

USE DEF Line

(* As long as the application has not started the timer, the start time is *)
(* the one FI_init sets, of which every line is due.                       *)
ClockInv == "application" \notin approved => elapsed = Horizon /\ ~ sreset

(* The scenario has lines, and each of them is a record of its fields.     *)
LEMMA LineFacts ==
  /\ Len(Scenario) \in Nat \ {0}
  /\ \A i \in Line : Scenario[i].at \in 0 .. Horizon /\ Scenario[i].arg \in Nat
<1> DEFINE Row == [at : 0 .. Horizon, cmd : Command, arg : Nat]
<1>1. Scenario \in Seq(Row) /\ Len(Scenario) > 0
  BY ScenarioAssumption
<1>2. \A r \in Row : r.at \in 0 .. Horizon /\ r.arg \in Nat
  OBVIOUS
<1> HIDE DEF Row
<1>3. Len(Scenario) \in Nat /\ \A i \in Line : Scenario[i] \in Row
  BY <1>1
<1> QED
  BY <1>1, <1>2, <1>3

(* A program has published none, or as many of its events as it has.       *)
LEMMA ProgramFacts ==
  ASSUME NEW p \in Programs
  PROVE  Len(p) \in Nat /\ -1 \in -1 .. Len(p) /\ 0 \in -1 .. Len(p)
<1>1. p \in Seq(Signal)
  BY ProgramsAssumption
<1>2. Len(p) \in Nat
  BY <1>1
<1> QED
  BY <1>2

(* StartTick alone moves the start time, and only on behalf of the         *)
(* application does it do so before the application has approved.          *)
LEMMA StartTickFacts ==
  ASSUME TimerOK, ClockInv, tick' = tick,
         NEW reset \in BOOLEAN, NEW who \in {"scenario", "application"},
         reset => who = "application",
         StartTick(reset, who)
  PROVE  TimerOK' /\ ClockInv' /\ approved \subseteq approved'
<1>1. TimerOK'
  BY HorizonAssumption DEF TimerOK, StartTick, FI_timer_set_start
<1>2. approved' = approved \cup {who}
  BY DEF StartTick
<1>3. ClockInv'
  BY <1>2 DEF ClockInv, StartTick, FI_timer_set_start
<1> QED
  BY <1>1, <1>2, <1>3

(* What running one line of the scenario does. *)
LEMMA RunLineFacts ==
  ASSUME TimerOK, TargetOK, ClockInv, runs \in [Line -> 0 .. 2],
         NEW i \in Line, RunLine(i)
  PROVE  /\ TimerOK' /\ TargetOK' /\ ClockInv'
         /\ approved \subseteq approved'
         /\ runs' \in [Line -> 0 .. 2]
         /\ runs'[i] > 0
         /\ \A j \in Line : j # i => runs'[j] = runs[j]
<1>1. /\ runs' \in [Line -> 0 .. 2]
      /\ runs'[i] > 0
      /\ \A j \in Line : j # i => runs'[j] = runs[j]
  BY DEF RunLine
<1>2. CASE Scenario[i].cmd = "BLT_SETTICK"
  <2>1. /\ tick' = Scenario[i].arg
        /\ UNCHANGED <<timerVars, targetVars>>
    BY <1>2 DEF RunLine
  <2>2. Scenario[i].arg \in Nat
    BY LineFacts
  <2> QED
    BY <1>1, <2>1, <2>2 DEF timerVars, targetVars, TimerOK, TargetOK, ClockInv
<1>3. CASE Scenario[i].cmd = "BLT_STARTTICK"
  <2>1. /\ StartTick(FALSE, "scenario")
        /\ UNCHANGED <<tick, targetVars>>
    BY <1>3 DEF RunLine
  <2>2. TimerOK' /\ ClockInv' /\ approved \subseteq approved'
    BY <2>1, StartTickFacts
  <2> QED
    BY <1>1, <2>1, <2>2 DEF targetVars, TargetOK
<1>4. CASE Scenario[i].cmd = "FI_FAILURE"
  <2>1. Failure /\ UNCHANGED <<tick, timerVars>>
    BY <1>4 DEF RunLine
  <2>2. TimerOK' /\ ClockInv' /\ approved' = approved
    BY <2>1 DEF timerVars, TimerOK, ClockInv
  <2>3. TargetOK'
    <3>1. program \in Programs /\ -1 \in -1 .. Len(program)
      BY ProgramFacts DEF TargetOK
    <3> QED
      BY <2>1, <3>1 DEF Failure, exec_target, TargetOK
  <2> QED
    BY <1>1, <2>2, <2>3
<1>5. CASE Scenario[i].cmd \notin {"BLT_SETTICK", "BLT_STARTTICK", "FI_FAILURE"}
  <2>1. UNCHANGED <<tick, timerVars, targetVars>>
    BY <1>5 DEF RunLine
  <2> QED
    BY <1>1, <2>1 DEF timerVars, targetVars, TimerOK, TargetOK, ClockInv
<1> QED
  BY <1>2, <1>3, <1>4, <1>5

(* What handling one event of the program does. *)
LEMMA HandleEventFacts ==
  ASSUME TimerOK, TargetOK, ClockInv, NEW e \in Signal, HandleEvent(e)
  PROVE  TimerOK' /\ TargetOK' /\ ClockInv' /\ approved \subseteq approved'
<1>1. CASE e = "FI_TIMERSTART"
  <2>1. /\ StartTick(TRUE, "application")
        /\ UNCHANGED <<tick, targetVars>>
    BY <1>1 DEF HandleEvent
  <2>2. TimerOK' /\ ClockInv' /\ approved \subseteq approved'
    BY <2>1, StartTickFacts
  <2> QED
    BY <2>1, <2>2 DEF targetVars, TargetOK
<1>2. CASE e # "FI_TIMERSTART"
  <2>1. UNCHANGED <<tick, timerVars>>
    BY <1>2 DEF HandleEvent, targetVars
  <2>2. TargetOK'
    BY <1>2 DEF HandleEvent, targetVars, TargetOK
  <2> QED
    BY <2>1, <2>2 DEF timerVars, TimerOK, ClockInv
<1> QED
  BY <1>1, <1>2

-----------------------------------------------------------------------------
(* Type correctness, together with ClockInv, which the lemmas above carry  *)
(* along.                                                                  *)
THEOREM FiTypeAndClock == Spec => [](TypeOK /\ ClockInv)
<1>1. Init => TypeOK /\ ClockInv
  <2> SUFFICES ASSUME Init PROVE TypeOK /\ ClockInv
    OBVIOUS
  <2>1. LoopOK /\ FileOK
    BY LineFacts DEF Init, LoopOK, FileOK
  <2>2. TimerOK /\ ClockInv
    <3>1. approved \in SUBSET {"scenario", "application"} /\ sreset \in BOOLEAN
      BY DEF Init
    <3>2. tick \in Nat /\ period \in Nat /\ left \in 0 .. period /\ elapsed \in 0 .. Horizon
      BY HorizonAssumption, DefaultTickAssumption DEF Init
    <3>3. elapsed = Horizon /\ ~ sreset
      BY DEF Init
    <3> QED
      BY <3>1, <3>2, <3>3 DEF TimerOK, ClockInv
  <2>3. LibOK
    BY DEF Init, Lib!Init, LibOK
  <2>4. TargetOK
    <3>1. program \in Programs /\ -1 \in -1 .. Len(program)
      BY ProgramFacts DEF Init
    <3> QED
      BY <3>1 DEF Init, TargetOK
  <2> QED
    BY <2>1, <2>2, <2>3, <2>4 DEF TypeOK
<1>2. TypeOK /\ ClockInv /\ [Next]_vars => (TypeOK /\ ClockInv)'
  <2> SUFFICES ASSUME TypeOK, ClockInv, [Next]_vars
               PROVE  TypeOK' /\ ClockInv'
    OBVIOUS
  <2>0. LoopOK /\ FileOK /\ TimerOK /\ LibOK /\ TargetOK
    BY DEF TypeOK
  <2>1. CASE SkipScenario
    BY <2>0, <2>1 DEF SkipScenario, fileVars, timerVars, libVars, targetVars, TypeOK,
                      LoopOK, FileOK, TimerOK, LibOK, TargetOK, ClockInv
  <2>2. CASE FetchEnd
    <3>1. line \in Line /\ RunLine(line)
      BY <2>0, <2>2, LineFacts DEF FetchEnd, FileOK
    <3>2. TimerOK' /\ TargetOK' /\ ClockInv' /\ runs' \in [Line -> 0 .. 2]
      BY <2>0, <3>1, RunLineFacts DEF FileOK
    <3> QED
      BY <2>0, <2>2, <3>2 DEF FetchEnd, libVars, TypeOK, LoopOK, FileOK, LibOK
  <2>3. CASE FetchEarly
    <3>1. /\ line' = line + 1 /\ line < Len(Scenario)
          /\ pc' = "console" /\ f_rsce' = FALSE
          /\ UNCHANGED <<f_rcon, survive, runs>>
      BY <2>3 DEF FetchEarly
    <3>2. LoopOK'
      BY <2>0, <3>1 DEF LoopOK
    <3>3. FileOK'
      BY <2>0, <3>1, LineFacts DEF FileOK
    <3>4. TimerOK' /\ LibOK' /\ TargetOK' /\ ClockInv'
      BY <2>0, <2>3 DEF FetchEarly, timerVars, libVars, targetVars, TimerOK, LibOK,
                        TargetOK, ClockInv
    <3> QED
      BY <3>2, <3>3, <3>4 DEF TypeOK
  <2>4. CASE FetchDue
    <3>1. line + 1 \in Line /\ RunLine(line + 1) /\ line' = line + 1
      BY <2>0, <2>4, LineFacts DEF FetchDue, FileOK
    <3>2. TimerOK' /\ TargetOK' /\ ClockInv' /\ runs' \in [Line -> 0 .. 2]
      BY <2>0, <3>1, RunLineFacts DEF FileOK
    <3>3. Immediate(line + 1) \in BOOLEAN
      BY DEF Immediate
    <3> QED
      BY <2>0, <2>4, <3>1, <3>2, <3>3 DEF FetchDue, libVars, TypeOK, LoopOK, FileOK, LibOK
  <2>5. CASE NoPoll
    BY <2>0, <2>5 DEF NoPoll, EndRound, fileVars, timerVars, libVars, targetVars, TypeOK,
                      LoopOK, FileOK, TimerOK, LibOK, TargetOK, ClockInv
  <2>6. CASE PollEvent
    <3>1. PICK c \in Channel : Lib!Take(c)
      BY <2>6 DEF PollEvent
    <3>2. inbox[c] \in Seq(Signal) /\ inbox[c] # <<>>
      BY <2>0, <3>1 DEF LibOK, Lib!Take
    <3>3. Head(inbox[c]) \in Signal /\ Tail(inbox[c]) \in Seq(Signal)
      BY <3>2
    <3>4. box' \in Signal /\ LibOK'
      BY <2>0, <3>1, <3>3 DEF LibOK, Lib!Take
    <3>5. HandleEvent(box') /\ UNCHANGED fileVars
      BY <2>6 DEF PollEvent
    <3>6. TimerOK' /\ TargetOK' /\ ClockInv'
      BY <2>0, <3>4, <3>5, HandleEventFacts
    <3>7. LoopOK'
      BY <2>0, <2>6 DEF PollEvent, EndRound, LoopOK
    <3> QED
      BY <2>0, <3>4, <3>5, <3>6, <3>7 DEF fileVars, TypeOK, FileOK
  <2>7. CASE Clock
    <3>1. TimerOK' /\ ClockInv' /\ LoopOK'
      BY <2>0, <2>7, HorizonAssumption DEF Clock, TimerOK, ClockInv, LoopOK
    <3> QED
      BY <2>0, <2>7, <3>1 DEF Clock, fileVars, libVars, targetVars, TypeOK, FileOK,
                              LibOK, TargetOK
  <2>8. CASE Subscribe
    <3>0. program \in Programs /\ 0 \in -1 .. Len(program)
      BY <2>0, ProgramFacts DEF TargetOK
    <3>1. TargetOK'
      BY <2>0, <2>8, <3>0 DEF Subscribe, TargetOK
    <3> QED
      BY <2>0, <2>8, <3>1 DEF Subscribe, loopVars, fileVars, timerVars, libVars, TypeOK,
                              LoopOK, FileOK, TimerOK, LibOK, ClockInv
  <2>9. CASE Publish
    <3>1. program \in Seq(Signal) /\ said \in 0 .. Len(program) - 1
      BY <2>0, <2>9, ProgramsAssumption DEF Publish, TargetOK
    <3>2. program[said + 1] \in Signal
      BY <3>1
    <3>3. Lib!Arrive({ChannelOf(program[said + 1])}, program[said + 1])
      BY <2>9 DEF Publish
    <3>4. LibOK'
      BY <2>0, <3>2, <3>3 DEF LibOK, Lib!Arrive
    <3>5. TargetOK'
      BY <2>0, <2>9, <3>1 DEF Publish, TargetOK
    <3> QED
      BY <2>0, <2>9, <3>4, <3>5 DEF Publish, loopVars, fileVars, timerVars, TypeOK,
                                    LoopOK, FileOK, TimerOK, ClockInv
  <2>10. CASE UNCHANGED vars
    BY <2>0, <2>10 DEF vars, loopVars, fileVars, timerVars, libVars, targetVars, TypeOK,
                       LoopOK, FileOK, TimerOK, LibOK, TargetOK, ClockInv
  <2> QED
    BY <2>1, <2>2, <2>3, <2>4, <2>5, <2>6, <2>7, <2>8, <2>9, <2>10 DEF Next, Server
<1> QED
  BY <1>1, <1>2, PTL DEF Spec

(* Every variable keeps its type, whatever the scenario and the programs.  *)
THEOREM FiTypeCorrect == Spec => []TypeOK
BY FiTypeAndClock, PTL

-----------------------------------------------------------------------------
(* Only a line that is read can be run or dropped, and a step of anyone    *)
(* but the scenario reader reads and runs none.                            *)
LEMMA OtherSteps ==
  ASSUME [Next]_vars, ~ FetchEnd, ~ FetchEarly, ~ FetchDue
  PROVE  UNCHANGED fileVars
<1>1. CASE UNCHANGED vars
  BY <1>1 DEF vars
<1>2. CASE Server
  BY <1>2 DEF Server, SkipScenario, NoPoll, PollEvent
<1>3. CASE Clock \/ Subscribe \/ Publish
  BY <1>3 DEF Clock, Subscribe, Publish
<1> QED
  BY <1>1, <1>2, <1>3 DEF Next

(* The approvals only grow. *)
LEMMA ApprovalsGrow ==
  ASSUME TypeOK, ClockInv, [Next]_vars
  PROVE  approved \subseteq approved'
<1> USE DEF TypeOK
<1>1. CASE FetchEnd
  <2>1. line \in Line /\ RunLine(line)
    BY <1>1, LineFacts DEF FetchEnd, FileOK
  <2> QED
    BY <2>1, RunLineFacts DEF FileOK
<1>2. CASE FetchDue
  <2>1. line + 1 \in Line /\ RunLine(line + 1)
    BY <1>2, LineFacts DEF FetchDue, FileOK
  <2> QED
    BY <2>1, RunLineFacts DEF FileOK
<1>3. CASE PollEvent
  <2>1. PICK c \in Channel : Lib!Take(c)
    BY <1>3 DEF PollEvent
  <2>2. inbox[c] \in Seq(Signal) /\ inbox[c] # <<>>
    BY <2>1 DEF LibOK, Lib!Take
  <2>3. box' \in Signal
    BY <2>1, <2>2 DEF Lib!Take
  <2> QED
    BY <1>3, <2>3, HandleEventFacts DEF PollEvent
<1>4. CASE SkipScenario \/ FetchEarly \/ NoPoll
  BY <1>4 DEF SkipScenario, FetchEarly, NoPoll, timerVars
<1>5. CASE Clock \/ Subscribe \/ Publish \/ UNCHANGED vars
  BY <1>5 DEF Clock, Subscribe, Publish, vars, timerVars
<1> QED
  BY <1>1, <1>2, <1>3, <1>4, <1>5 DEF Next, Server

(* Until the application has started the timer no line is dropped: the     *)
(* start time is the one of FI_init then (ClockInv), and no line is early. *)
THEOREM FiNoDropBeforeApproval == Spec => []NoDropBeforeApproval
<1>1. Init => NoDropBeforeApproval
  BY DEF Init, NoDropBeforeApproval
<1>2. TypeOK /\ ClockInv /\ NoDropBeforeApproval /\ [Next]_vars
        => NoDropBeforeApproval'
  <2> SUFFICES ASSUME TypeOK, ClockInv, NoDropBeforeApproval, [Next]_vars,
                      "application" \notin approved',
                      NEW i \in 1 .. line'
               PROVE  runs'[i] > 0
    BY DEF NoDropBeforeApproval
  <2>1. "application" \notin approved
    BY ApprovalsGrow
  <2>2. elapsed = Horizon /\ \A j \in 1 .. line : runs[j] > 0
    BY <2>1 DEF NoDropBeforeApproval, ClockInv
  <2>3. FileOK /\ TimerOK /\ TargetOK
    BY DEF TypeOK
  <2>4. CASE FetchEnd
    <3>1. line \in Line /\ RunLine(line) /\ line' = line
      BY <2>3, <2>4, LineFacts DEF FetchEnd, FileOK
    <3>2. runs'[line] > 0 /\ \A j \in Line : j # line => runs'[j] = runs[j]
      BY <2>3, <3>1, RunLineFacts DEF FileOK
    <3> QED
      BY <2>2, <2>3, <3>1, <3>2, LineFacts DEF FileOK
  <2>5. CASE FetchEarly
    <3>1. line + 1 \in Line /\ Scenario[line + 1].at > Horizon
      BY <2>2, <2>3, <2>5, LineFacts DEF FetchEarly, FileOK
    <3> QED
      BY <3>1, LineFacts, HorizonAssumption
  <2>6. CASE FetchDue
    <3>1. line + 1 \in Line /\ RunLine(line + 1) /\ line' = line + 1
      BY <2>3, <2>6, LineFacts DEF FetchDue, FileOK
    <3>2. /\ runs'[line + 1] > 0
          /\ \A j \in Line : j # line + 1 => runs'[j] = runs[j]
      BY <2>3, <3>1, RunLineFacts DEF FileOK
    <3>3. CASE i = line + 1
      BY <3>2, <3>3
    <3>4. CASE i \in 1 .. line
      BY <2>2, <2>3, <3>2, <3>4, LineFacts DEF FileOK
    <3> QED
      BY <2>3, <3>1, <3>3, <3>4 DEF FileOK
  <2>7. CASE ~ FetchEnd /\ ~ FetchEarly /\ ~ FetchDue
    BY <2>2, <2>7, OtherSteps DEF fileVars
  <2> QED
    BY <2>4, <2>5, <2>6, <2>7
<1> QED
  BY <1>1, <1>2, FiTypeAndClock, PTL DEF Spec

-----------------------------------------------------------------------------
(* No line behind the file position has been run. *)
Unread == \A i \in Line : i > line => runs[i] = 0

(* The lines run in the order of the file, and only the last one twice:    *)
(* the line a step runs is the one behind the file position, which is      *)
(* Unread, or the file has been read to its end.                           *)
THEOREM FiRunsInOrder == Spec => RunsInOrder
<1> DEFINE Ordered == \A i \in Line :
                        runs'[i] > runs[i] =>
                          /\ \A j \in i + 1 .. Len(Scenario) : runs[j] = 0
                          /\ runs[i] > 0 => line = Len(Scenario)
<1>1. Init => Unread
  BY DEF Init, Unread
<1>2. TypeOK /\ ClockInv /\ Unread /\ [Next]_vars => Unread' /\ Ordered
  <2> SUFFICES ASSUME TypeOK, ClockInv, Unread, [Next]_vars
               PROVE  Unread' /\ Ordered
    OBVIOUS
  <2>1. FileOK /\ TimerOK /\ TargetOK
    BY DEF TypeOK
  <2>2. line \in 0 .. Len(Scenario) /\ \A i \in Line : runs[i] \in Nat
    BY <2>1 DEF FileOK
  <2>3. CASE FetchEnd
    <3>1. line \in Line /\ RunLine(line) /\ line' = line /\ line = Len(Scenario)
      BY <2>1, <2>3, LineFacts DEF FetchEnd, FileOK
    <3>2. \A j \in Line : j # line => runs'[j] = runs[j]
      BY <2>1, <3>1, RunLineFacts DEF FileOK
    <3>3. Unread'
      BY <3>1, LineFacts DEF Unread
    <3>4. Ordered
      BY <2>2, <3>1, <3>2, LineFacts
    <3> QED
      BY <3>3, <3>4
  <2>4. CASE FetchEarly
    <3>1. line' = line + 1 /\ runs' = runs
      BY <2>4 DEF FetchEarly
    <3> QED
      BY <2>2, <3>1 DEF Unread
  <2>5. CASE FetchDue
    <3>1. line + 1 \in Line /\ RunLine(line + 1) /\ line' = line + 1
      BY <2>1, <2>5, LineFacts DEF FetchDue, FileOK
    <3>2. \A j \in Line : j # line + 1 => runs'[j] = runs[j]
      BY <2>1, <3>1, RunLineFacts DEF FileOK
    <3>3. Unread'
      BY <2>2, <3>1, <3>2 DEF Unread
    <3>4. Ordered
      BY <2>2, <3>1, <3>2, LineFacts DEF Unread
    <3> QED
      BY <3>3, <3>4
  <2>6. CASE ~ FetchEnd /\ ~ FetchEarly /\ ~ FetchDue
    <3>1. line' = line /\ runs' = runs
      BY <2>6, OtherSteps DEF fileVars
    <3> QED
      BY <2>2, <3>1 DEF Unread
  <2> QED
    BY <2>3, <2>4, <2>5, <2>6
<1> QED
  BY <1>1, <1>2, FiTypeAndClock, PTL DEF Spec, RunsInOrder
=============================================================================
