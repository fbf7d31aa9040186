------------------------------ MODULE FiServer ------------------------------
(***************************************************************************)
(* The fault-injection server (oldcp/FI_base.c, oldcp/fiserver.c) with the *)
(* program it runs and kills.  One thread alternates between a scenario    *)
(* file of timed commands and the events of the program, and sleeps in     *)
(* sigwait until the next timer tick when both have nothing left.  The     *)
(* events come through the pull side of the library, used here through     *)
(* what Mailbox says of it.                                                *)
(*                                                                         *)
(* Time is counted in units; only whether a line is due matters, so the    *)
(* time since the start is not counted beyond Horizon.                     *)
(***************************************************************************)
EXTENDS Integers, Sequences

CONSTANTS
  Scenario,     \* the lines of the scenario file, comments left out
  Horizon,      \* bound: a time since the start at which every line is due
  DefaultTick,  \* FI_DEFAULT_TICK
  Programs,     \* what the target command publishes: sequences of events
  MaxQueue,     \* bound: undelivered events FTB holds for one subscription
  NoEvent       \* no event is held

Command == {"BLT_FAILURERATE", "BLT_SETTICK", "BLT_STARTTICK", "FI_FAILURE"}

(* BLT_INVOKE and BLT_RESTART, which no program publishes, are assert(0).  *)
Signal == {"FI_TIMERSTART", "FI_SETCKPT", "FI_CKPTTIME", "FI_LASTLINE",
           "FI_TIMESTAMP", "FI_RESTART_READY", "FI_FINISH_ALL"}

(* An empty scenario would run a command that was never read.              *)
ASSUME ScenarioAssumption ==
  /\ Scenario \in Seq([at : 0 .. Horizon, cmd : Command, arg : Nat])
  /\ Len(Scenario) > 0
ASSUME HorizonAssumption == Horizon \in Nat
ASSUME DefaultTickAssumption == DefaultTick \in Nat
ASSUME ProgramsAssumption == Programs \subseteq Seq(Signal) /\ Programs # {}
ASSUME MaxQueueAssumption == MaxQueue \in Nat \ {0}
ASSUME NoEventAssumption == NoEvent \notin Signal

Line == 1 .. Len(Scenario)
Channel == {"XPT_CLI2SRV", "XPT_TOALL"}

VARIABLES
  pc,        \* "scenario", "console", "sigwait" or "exited"
  f_rsce,    \* the scenario is to be read in this tick
  f_rcon,    \* the events are to be polled in this tick
  line,      \* file position: lines read; the last one read is in scmd
  survive,   \* the end of the scenario has not been read
  tick,      \* sh->tick
  period,    \* it_interval of the armed timer
  left,      \* time to its next expiry, 0 when it is not armed
  elapsed,   \* time since sh->st, at most Horizon
  sreset,    \* static int sreset
  inbox,     \* FTB (external): undelivered events per subscription
  box,       \* the event in the pull slot
  program,   \* the target command of this run of the server
  restart,   \* sh->restart
  said,      \* events this incarnation published, -1: not yet subscribed
  started,   \* this incarnation has received FI_STARTAPP
  runs,      \* history: how often each line was run, 2 means more than once
  approved   \* history: who has started the timer

loopVars == <<pc, f_rsce, f_rcon>>
fileVars == <<line, survive, runs>>
timerVars == <<period, left, elapsed, sreset, approved>>
libVars == <<inbox, box>>
targetVars == <<program, restart, said, started>>

vars == <<loopVars, fileVars, tick, timerVars, libVars, targetVars>>

Lib == INSTANCE Mailbox
         WITH Slot <- Channel, Event <- Signal, pending <- inbox

-----------------------------------------------------------------------------
(* FI_init, FI_open_scenario and the first exec_target.  sh->st is 1 us    *)
(* after the epoch, so that every line is due.                             *)
Init ==
  /\ pc = "scenario" /\ f_rsce = TRUE /\ f_rcon = TRUE
  /\ line = 0 /\ survive = TRUE
  /\ tick = DefaultTick
  /\ period = 0 /\ left = 0
  /\ elapsed = Horizon
  /\ sreset = FALSE
  /\ Lib!Init
  /\ program \in Programs
  /\ restart = FALSE
  /\ said = -1 /\ started = FALSE
  /\ runs = [i \in Line |-> 0]
  /\ approved = {}

-----------------------------------------------------------------------------
(* FI_timer_set_start makes now the start; otherwise the time since it     *)
(* stays what it is.                                                       *)
FI_timer_set_start(now) == elapsed' = IF now THEN 0 ELSE elapsed

(* Mutants of StartTick: the timer is set without an interval; the start   *)
(* time is set by everyone.                                                *)
StartTick_OneShot(reset, who) ==
  /\ period' = 0
  /\ left' = tick
  /\ FI_timer_set_start(sreset \/ reset)
  /\ sreset' = reset
  /\ approved' = approved \cup {who}

StartTick_AlwaysReset(reset, who) ==
  /\ period' = tick
  /\ left' = tick
  /\ FI_timer_set_start(TRUE)
  /\ sreset' = reset
  /\ approved' = approved \cup {who}

(* FI_evhdls_blt_starttick: the first call arms the timer, whoever makes   *)
(* it; the start time moves when this call or the one before asks for it.  *)
StartTick(reset, who) ==
  /\ period' = tick
  /\ left' = tick
  /\ FI_timer_set_start(sreset \/ reset)
  /\ sreset' = reset
  /\ approved' = approved \cup {who}

(* A new incarnation of the same target command, from its beginning. *)
exec_target ==
  /\ said' = -1
  /\ started' = FALSE
  /\ UNCHANGED program

(* ehdl_failure: the program is killed and started again.  What it had     *)
(* published stays with FTB.                                               *)
Failure == restart' = TRUE /\ exec_target

(* FI_event_handler_for_sce and sce_event_handler. *)
RunLine(i) ==
  /\ runs' = [runs EXCEPT ![i] = IF @ < 2 THEN @ + 1 ELSE @]
  /\ CASE Scenario[i].cmd = "BLT_SETTICK" ->
            tick' = Scenario[i].arg /\ UNCHANGED <<timerVars, targetVars>>
       [] Scenario[i].cmd = "BLT_STARTTICK" ->
            StartTick(FALSE, "scenario") /\ UNCHANGED <<tick, targetVars>>
       [] Scenario[i].cmd = "FI_FAILURE" ->
            Failure /\ UNCHANGED <<tick, timerVars>>
       [] OTHER ->
            UNCHANGED <<tick, timerVars, targetVars>>

(* FI_event_handler_for_con and con_event_handler.  FI_STARTAPP reaches    *)
(* the incarnation that has subscribed.                                    *)
HandleEvent(e) ==
  CASE e = "FI_TIMERSTART" ->
         StartTick(TRUE, "application") /\ UNCHANGED <<tick, targetVars>>
    [] e = "FI_SETCKPT" ->
         /\ started' = (started \/ said >= 0)
         /\ UNCHANGED <<program, restart, said, tick, timerVars>>
    [] e = "FI_RESTART_READY" ->
         /\ restart' = FALSE
         /\ UNCHANGED <<program, said, started, tick, timerVars>>
    [] OTHER ->
         UNCHANGED <<tick, timerVars, targetVars>>

-----------------------------------------------------------------------------
(* FI_fetch_scenario, the part of the loop for the scenario. *)
Reading == pc = "scenario" /\ f_rsce

SkipScenario ==
  /\ pc = "scenario" /\ ~ f_rsce
  /\ pc' = "console"
  /\ UNCHANGED <<f_rsce, f_rcon, fileVars, tick, timerVars, libVars, targetVars>>

(* FI_SCC_END: whatever line was read last is run, in every tick again.    *)
FetchEnd ==
  /\ Reading
  /\ line = Len(Scenario)
  /\ survive' = FALSE
  /\ RunLine(line)
  /\ pc' = "console" /\ f_rsce' = FALSE
  /\ UNCHANGED <<f_rcon, line, libVars>>

(* FI_SCC_NOEVENT: the line is not due.  fsetpos goes to the position      *)
(* behind it, so that it is not read again.                                *)
FetchEarly ==
  /\ Reading
  /\ line < Len(Scenario)
  /\ Scenario[line + 1].at > elapsed
  /\ line' = line + 1
  /\ pc' = "console" /\ f_rsce' = FALSE
  /\ UNCHANGED <<f_rcon, survive, runs, tick, timerVars, libVars, targetVars>>

(* FI_SCC_IMMEDIATE when the line after i comes within one tick of it. *)
Immediate(i) ==
  /\ i < Len(Scenario)
  /\ Scenario[i + 1].at < Scenario[i].at + tick

(* Mutant of FetchDue: the file position stays before the line. *)
FetchDue_LineKept ==
  /\ Reading
  /\ line < Len(Scenario)
  /\ Scenario[line + 1].at <= elapsed
  /\ UNCHANGED line
  /\ RunLine(line + 1)
  /\ pc' = "console" /\ f_rsce' = Immediate(line + 1)
  /\ UNCHANGED <<f_rcon, survive, libVars>>

FetchDue ==
  /\ Reading
  /\ line < Len(Scenario)
  /\ Scenario[line + 1].at <= elapsed
  /\ line' = line + 1
  /\ RunLine(line + 1)
  /\ pc' = "console" /\ f_rsce' = Immediate(line + 1)
  /\ UNCHANGED <<f_rcon, survive, libVars>>

-----------------------------------------------------------------------------
(* Mutants of EndRound: a flag is not set again before the process sleeps. *)
EndRound_ScenarioFlagKept(more) ==
  IF ~ f_rsce /\ ~ more
    THEN pc' = "sigwait" /\ f_rsce' = FALSE /\ f_rcon' = TRUE
    ELSE pc' = "scenario" /\ f_rcon' = more /\ UNCHANGED f_rsce

EndRound_EventFlagKept(more) ==
  IF ~ f_rsce /\ ~ more
    THEN pc' = "sigwait" /\ f_rsce' = TRUE /\ f_rcon' = FALSE
    ELSE pc' = "scenario" /\ f_rcon' = more /\ UNCHANGED f_rsce

(* The end of the loop body: sleep if neither source has more. *)
EndRound(more) ==
  IF ~ f_rsce /\ ~ more
    THEN pc' = "sigwait" /\ f_rsce' = TRUE /\ f_rcon' = TRUE
    ELSE pc' = "scenario" /\ f_rcon' = more /\ UNCHANGED f_rsce

(* No poll in this round, or a poll that finds nothing: the slot still     *)
(* holds an event, or FTB has none.                                        *)
NoPoll ==
  /\ pc = "console"
  /\ f_rcon => box # NoEvent \/ \A c \in Channel : inbox[c] = <<>>
  /\ EndRound(FALSE)
  /\ UNCHANGED <<fileVars, tick, timerVars, libVars, targetVars>>

(* XPT_CP_poll_pull_event takes an event into the slot, which it never     *)
(* gives back, and the event is handled.                                   *)
PollEvent ==
  /\ pc = "console" /\ f_rcon
  /\ \E c \in Channel : Lib!Take(c)
  /\ HandleEvent(box')
  /\ IF box' = "FI_FINISH_ALL"
       THEN pc' = "exited" /\ UNCHANGED <<f_rsce, f_rcon>>
       ELSE EndRound(TRUE)
  /\ UNCHANGED fileVars

-----------------------------------------------------------------------------
(* Time passes.  The tick signal ends sigwait; at any other time its       *)
(* handler runs and the tick is lost.                                      *)
Clock ==
  /\ elapsed' = IF elapsed < Horizon THEN elapsed + 1 ELSE elapsed
  /\ IF left = 1
       THEN left' = period /\ pc' = IF pc = "sigwait" THEN "scenario" ELSE pc
       ELSE left' = (IF left > 1 THEN left - 1 ELSE 0) /\ UNCHANGED pc
  /\ UNCHANGED <<f_rsce, f_rcon, fileVars, tick, period, sreset, approved,
                 libVars, targetVars>>

(* XPT_CP_cli_init in the program. *)
Subscribe ==
  /\ said = -1
  /\ said' = 0
  /\ UNCHANGED <<loopVars, fileVars, tick, timerVars, libVars, program, restart,
                 started>>

(* After FI_SETCKPT the program waits in XPT_CP_ready_wait until it is     *)
(* told to start.                                                          *)
Waiting == said > 0 /\ program[said] = "FI_SETCKPT" /\ ~ started

(* XPT_CP_publish_to_srv and XPT_CP_publish_to_all. *)
ChannelOf(e) ==
  IF e \in {"FI_CKPTTIME", "FI_LASTLINE"} THEN "XPT_TOALL" ELSE "XPT_CLI2SRV"

(* The program publishes its next event. *)
Publish ==
  /\ said \in 0 .. Len(program) - 1
  /\ ~ Waiting
  /\ LET e == program[said + 1]
     IN  /\ Len(inbox[ChannelOf(e)]) < MaxQueue
         /\ Lib!Arrive({ChannelOf(e)}, e)
  /\ said' = said + 1
  /\ UNCHANGED <<loopVars, fileVars, tick, timerVars, program, restart, started>>

Server ==
  \/ SkipScenario \/ FetchEnd \/ FetchEarly \/ FetchDue
  \/ NoPoll \/ PollEvent

Next == Server \/ Clock \/ Subscribe \/ Publish

Spec == Init /\ [][Next]_vars

(* The operating system schedules the server and its program, and time     *)
(* passes.                                                                 *)
FairSpec ==
  Spec /\ WF_vars(Server) /\ WF_vars(Clock) /\ WF_vars(Subscribe \/ Publish)

-----------------------------------------------------------------------------
LoopOK ==
  /\ pc \in {"scenario", "console", "sigwait", "exited"}
  /\ f_rsce \in BOOLEAN /\ f_rcon \in BOOLEAN

FileOK ==
  /\ line \in 0 .. Len(Scenario) /\ survive \in BOOLEAN
  /\ runs \in [Line -> 0 .. 2]

TimerOK ==
  /\ tick \in Nat /\ period \in Nat /\ left \in 0 .. period
  /\ elapsed \in 0 .. Horizon
  /\ sreset \in BOOLEAN
  /\ approved \in SUBSET {"scenario", "application"}

LibOK ==
  /\ inbox \in [Channel -> Seq(Signal)]
  /\ box \in Signal \cup {NoEvent}

TargetOK ==
  /\ program \in Programs /\ restart \in BOOLEAN
  /\ said \in -1 .. Len(program) /\ started \in BOOLEAN

(* Every variable has its type; what is left until the next expiry is at   *)
(* most the timer's interval, and nothing when the timer does not run.     *)
TypeOK == LoopOK /\ FileOK /\ TimerOK /\ LibOK /\ TargetOK

(* The lines of the scenario are run in the order of the file, and none    *)
(* twice until all have been read; then only the last one is.              *)
RunsInOrder ==
  [][\A i \in Line :
       runs'[i] > runs[i] =>
         /\ \A j \in i + 1 .. Len(Scenario) : runs[j] = 0
         /\ runs[i] > 0 => line = Len(Scenario)]_vars

(* Lines are dropped unrun because they are read before they are due.  It  *)
(* does not happen before the application has set the start time: until    *)
(* then the scenario alone cannot make a line early.                       *)
NoDropBeforeApproval ==
  "application" \notin approved => \A i \in 1 .. line : runs[i] > 0

(* Once the timer runs, the scenario is read to its end, although ticks    *)
(* that come while the loop works are lost.                                *)
ScenarioEnds == left > 0 ~> ~ survive \/ left = 0 \/ pc = "exited"

(* Once the timer runs, the first event is handled, although events come   *)
(* on either subscription and at any time.                                 *)
FirstEventHandled ==
  (left > 0 /\ \E c \in Channel : inbox[c] # <<>>)
    ~> (box # NoEvent \/ left = 0)

(* The comment in con_event_handler: FI_TIMERSTART, by which the           *)
(* application says that it is ready, starts the timer.                    *)
TimerStartHeard ==
  (\E c \in Channel, i \in 1 .. MaxQueue :
     i <= Len(inbox[c]) /\ inbox[c][i] = "FI_TIMERSTART")
  ~> "application" \in approved

(* The usage comment of libxpt.h gives every event back with XPT_CHECKED   *)
(* and so gets the next one: a program that has published FI_SETCKPT is    *)
(* told to start.                                                          *)
ProgramStarts == Waiting ~> started
=============================================================================
