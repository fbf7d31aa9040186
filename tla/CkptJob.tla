------------------------------- MODULE CkptJob -------------------------------
(***************************************************************************)
(* A parallel job that checkpoints with XPT_ckpt.c, under the              *)
(* fault-injection server: the start-up of root and the other ranks, the   *)
(* loop of testappli.c with its halo exchange on a torus, the checkpoint   *)
(* files and the scephase file, and the server's kill and restart.         *)
(*                                                                         *)
(* XPT_CP_poll_pull_event never gives the pull slot back.  So the server   *)
(* and each rank take the first event that reaches them and no other, and  *)
(* the interval of the checkpoint clock stays zero.                        *)
(***************************************************************************)
EXTENDS Integers, Sequences, FiniteSets

CONSTANTS
  Size,       \* side of the torus of processes
  Steps,      \* iterations of the job
  NCkpt,      \* checkpoint candidates (phases) of an iteration
  HaloPhase,  \* the first phase behind the MPI_Waitall
  MaxKills    \* bound: failures the server injects

ASSUME SizeAssumption == Size \in Nat \ {0}
ASSUME StepsAssumption == Steps \in Nat \ {0}
ASSUME NCkptAssumption == NCkpt \in Nat \ {0}
ASSUME HaloPhaseAssumption == HaloPhase \in 0 .. NCkpt - 1
ASSUME MaxKillsAssumption == MaxKills \in Nat

N == Size * Size
Rank == 0 .. N - 1
Root == 0
Phase == 0 .. NCkpt - 1

(* dir[0..3] of main: up, down, left, right. *)
Neighbours(r) ==
  { (r - Size + N) % N,
    (r + Size + N) % N,
    ((r - 1 + Size) % Size) + (r \div Size) * Size,
    ((r + 1 + Size) % Size) + (r \div Size) * Size }

NoFile == -2
Empty == -1
Signal == {"FI_TIMESTAMP", "FI_SETCKPT", "FI_RESTART_READY"}

VARIABLES
  greets,    \* the application publishes its FI_TIMESTAMP, as testappli does
  pc,        \* where each rank is: see TypeOK
  iter,      \* the iteration each rank has begun, -1 before the first
  phase,     \* the candidate it is at
  inbox,     \* FTB (external): its subscriptions that have been given an event
  late,      \* its curtime is positive, hence above the interval
  term,      \* root's epoch_term: the phases whose time is positive
  told,      \* last iteration root announced times of, -1 before the first
  ck,        \* the file ckpt.<rank>.<phase>: "none", "torn" or "whole"
  scephase,  \* what the file of that name holds
  mail,      \* FTB (external): the server's undelivered XPT_CLI2SRV events
  slot,      \* the event that occupies the server's slot, "none" before
  kills      \* failures so far; the restarted job is a new incarnation

files == <<ck, scephase>>
server == <<mail, slot>>
vars == <<greets, pc, iter, phase, inbox, late, term, told, files, server,
          kills>>

-----------------------------------------------------------------------------
Init ==
  /\ greets \in BOOLEAN
  /\ pc = [r \in Rank |-> "start"]
  /\ iter = [r \in Rank |-> -1]
  /\ phase = [r \in Rank |-> 0]
  /\ inbox = [r \in Rank |-> {}]
  /\ late = [r \in Rank |-> FALSE]
  /\ term = [q \in Phase |-> FALSE]
  /\ told = -1
  /\ ck = [r \in Rank |-> [q \in Phase |-> "none"]]
  /\ scephase = NoFile
  /\ mail = <<>>
  /\ slot = "none"
  /\ kills = 0

(* XPT_init and XPT_CP_cli_init: from here on events reach the rank. *)
CliInit(r) ==
  /\ pc[r] = "start"
  /\ pc' = [pc EXCEPT ![r] = IF r = Root THEN "greet" ELSE "wait"]
  /\ UNCHANGED <<greets, iter, phase, inbox, late, term, told, files, server,
                 kills>>

(* Root's greeting, if it has one. *)
Greet ==
  /\ pc[Root] = "greet"
  /\ mail' = IF greets THEN Append(mail, "FI_TIMESTAMP") ELSE mail
  /\ pc' = [pc EXCEPT ![Root] = "ask"]
  /\ UNCHANGED <<greets, iter, phase, inbox, late, term, told, files, slot,
                 kills>>

(* XPT_CP_ready_root up to its wait. *)
Ask ==
  /\ pc[Root] = "ask"
  /\ mail' = Append(mail, "FI_SETCKPT")
  /\ pc' = [pc EXCEPT ![Root] = "wait"]
  /\ UNCHANGED <<greets, iter, phase, inbox, late, term, told, files, slot,
                 kills>>

Subscribed == {r \in Rank : pc[r] # "start"}
Deliver(channel) ==
  inbox' = [r \in Rank |-> inbox[r] \cup (IF r \in Subscribed THEN {channel}
                                                               ELSE {})]

(* Mutant of ServerTakes: every event is answered with FI_STARTAPP. *)
ServerTakes_Anything ==
  /\ slot = "none"
  /\ mail # <<>>
  /\ slot' = Head(mail)
  /\ mail' = Tail(mail)
  /\ Deliver("XPT_SRV2CLI")
  /\ UNCHANGED <<greets, pc, iter, phase, late, term, told, files, kills>>

(* The server's poll, and ehdl_setckpt with its FI_STARTAPP.  (Its other   *)
(* subscription stays empty while the slot is free: StartAnswered.)        *)
ServerTakes ==
  /\ slot = "none"
  /\ mail # <<>>
  /\ slot' = Head(mail)
  /\ mail' = Tail(mail)
  /\ IF slot' = "FI_SETCKPT" THEN Deliver("XPT_SRV2CLI") ELSE UNCHANGED inbox
  /\ UNCHANGED <<greets, pc, iter, phase, late, term, told, files, kills>>

(* XPT_CP_ready_wait ends on the first event, whichever it is; root then   *)
(* publishes FI_RESTART_READY.                                             *)
ReadyWait(r) ==
  /\ pc[r] = "wait"
  /\ inbox[r] # {}
  /\ pc' = [pc EXCEPT ![r] = "top"]
  /\ mail' = IF r = Root THEN Append(mail, "FI_RESTART_READY") ELSE mail
  /\ UNCHANGED <<greets, iter, phase, inbox, late, term, told, files, slot,
                 kills>>

-----------------------------------------------------------------------------
(* Before the candidate of phase q the halo is awaited, or not. *)
Towards(q) == IF q = HaloPhase THEN "halo" ELSE "ckpt"

(* The head of the loop and MPI_Isend to the neighbours, or its end. *)
BeginIteration(r) ==
  /\ pc[r] = "top"
  /\ iter[r] + 1 < Steps
  /\ iter' = [iter EXCEPT ![r] = @ + 1]
  /\ phase' = [phase EXCEPT ![r] = 0]
  /\ pc' = [pc EXCEPT ![r] = Towards(0)]
  /\ UNCHANGED <<greets, inbox, late, term, told, files, server, kills>>

(* Mutant of LoopEnds: the last iteration is left out. *)
LoopEnds_Early(r) ==
  /\ pc[r] = "top"
  /\ iter[r] + 2 >= Steps
  /\ pc' = [pc EXCEPT ![r] = "done"]
  /\ UNCHANGED <<greets, iter, phase, inbox, late, term, told, files, server,
                 kills>>

LoopEnds(r) ==
  /\ pc[r] = "top"
  /\ iter[r] + 1 = Steps
  /\ pc' = [pc EXCEPT ![r] = "done"]
  /\ UNCHANGED <<greets, iter, phase, inbox, late, term, told, files, server,
                 kills>>

(* Mutants of Waitall: it does not wait; it waits for the next iteration.  *)
Waitall_Missing(r) ==
  /\ pc[r] = "halo"
  /\ pc' = [pc EXCEPT ![r] = "ckpt"]
  /\ UNCHANGED <<greets, iter, phase, inbox, late, term, told, files, server,
                 kills>>

Waitall_ForNext(r) ==
  /\ pc[r] = "halo"
  /\ \A q \in Neighbours(r) : iter[r] < iter[q]
  /\ pc' = [pc EXCEPT ![r] = "ckpt"]
  /\ UNCHANGED <<greets, iter, phase, inbox, late, term, told, files, server,
                 kills>>

(* MPI_Waitall: every neighbour has sent its part of this iteration. *)
Waitall(r) ==
  /\ pc[r] = "halo"
  /\ \A q \in Neighbours(r) : iter[r] <= iter[q]
  /\ pc' = [pc EXCEPT ![r] = "ckpt"]
  /\ UNCHANGED <<greets, iter, phase, inbox, late, term, told, files, server,
                 kills>>

(* XPT_CP_postexec on root's last phase: the times go to all, the first    *)
(* time for certain (prev_commit is zero), later when 30 s have passed.    *)
PostexecSends(r) ==
  /\ r = Root /\ phase[r] = NCkpt - 1
  /\ term' \in [Phase -> BOOLEAN]
  /\ told' = iter[r]
  /\ Deliver("XPT_TOALL")
PostexecSilent(r) ==
  /\ r # Root \/ phase[r] # NCkpt - 1 \/ told # -1
  /\ UNCHANGED <<term, told, inbox>>

(* Mutant of AfterCkpt: one phase too many. *)
AfterCkpt_OneMore(r) ==
  /\ PostexecSends(r) \/ PostexecSilent(r)
  /\ phase' = [phase EXCEPT ![r] = @ + 1]
  /\ pc' = [pc EXCEPT ![r] = IF phase[r] < NCkpt THEN Towards(phase[r] + 1)
                                                 ELSE "top"]

(* What follows XPT_CP_ckpt: XPT_CP_postexec, XPT_CP_pull_poll (which      *)
(* finds the slot occupied), and the way to the next candidate.            *)
AfterCkpt(r) ==
  /\ PostexecSends(r) \/ PostexecSilent(r)
  /\ IF phase[r] + 1 < NCkpt
       THEN /\ phase' = [phase EXCEPT ![r] = @ + 1]
            /\ pc' = [pc EXCEPT ![r] = Towards(phase[r] + 1)]
       ELSE /\ pc' = [pc EXCEPT ![r] = "top"]
            /\ UNCHANGED phase

(* XPT_CP_ckpt: the phase's time is added to curtime; root's times are     *)
(* what it announced last, those of the others stay zero.  The very first  *)
(* candidate is always written (f_1st).                                    *)
LateNow(r) == late[r] \/ (r = Root /\ term[phase[r]])
Writes(r) == LateNow(r) \/ (iter[r] = 0 /\ phase[r] = 0)

PassCandidate(r) ==
  /\ pc[r] = "ckpt"
  /\ ~ Writes(r)
  /\ AfterCkpt(r)
  /\ UNCHANGED <<greets, iter, late, files, server, kills>>

(* Mutant of OpenCkpt: root's file is opened after scephase is written. *)
OpenCkpt_RootLater(r) ==
  /\ pc[r] = "ckpt"
  /\ Writes(r)
  /\ late' = [late EXCEPT ![r] = LateNow(r)]
  /\ ck' = IF r = Root THEN ck ELSE [ck EXCEPT ![r][phase[r]] = "torn"]
  /\ pc' = [pc EXCEPT ![r] = IF r = Root THEN "sce" ELSE "write"]
  /\ UNCHANGED <<greets, iter, phase, inbox, term, told, scephase, server,
                 kills>>

(* fopen truncates the file; the header stays in the stream's buffer. *)
OpenCkpt(r) ==
  /\ pc[r] = "ckpt"
  /\ Writes(r)
  /\ late' = [late EXCEPT ![r] = LateNow(r)]
  /\ ck' = [ck EXCEPT ![r][phase[r]] = "torn"]
  /\ pc' = [pc EXCEPT ![r] = IF r = Root THEN "sce" ELSE "write"]
  /\ UNCHANGED <<greets, iter, phase, inbox, term, told, scephase, server,
                 kills>>

(* ckptwrite on root: fopen and fclose of scephase. *)
OpenSce ==
  /\ pc[Root] = "sce"
  /\ scephase' = Empty
  /\ pc' = [pc EXCEPT ![Root] = "sceopen"]
  /\ UNCHANGED <<greets, iter, phase, inbox, late, term, told, ck, server,
                 kills>>

CloseSce ==
  /\ pc[Root] = "sceopen"
  /\ scephase' = phase[Root]
  /\ pc' = [pc EXCEPT ![Root] = "write"]
  /\ UNCHANGED <<greets, iter, phase, inbox, late, term, told, ck, server,
                 kills>>

(* Mutant of CloseCkpt: the file is not closed. *)
CloseCkpt_LeftOpen(r) ==
  /\ pc[r] = "write"
  /\ AfterCkpt(r)
  /\ UNCHANGED <<greets, iter, late, files, server, kills>>

(* The data are written and the file is closed. *)
CloseCkpt(r) ==
  /\ pc[r] = "write"
  /\ ck' = [ck EXCEPT ![r][phase[r]] = "whole"]
  /\ AfterCkpt(r)
  /\ UNCHANGED <<greets, iter, late, scephase, server, kills>>

-----------------------------------------------------------------------------
(* ehdl_failure: the target is killed (external: and all its ranks with    *)
(* it) and started again.  Files and the server's mail survive.            *)
Failure ==
  /\ kills < MaxKills
  /\ kills' = kills + 1
  /\ pc' = [r \in Rank |-> "start"]
  /\ iter' = [r \in Rank |-> -1]
  /\ phase' = [r \in Rank |-> 0]
  /\ inbox' = [r \in Rank |-> {}]
  /\ late' = [r \in Rank |-> FALSE]
  /\ term' = [q \in Phase |-> FALSE]
  /\ told' = -1
  /\ UNCHANGED <<greets, files, server>>

RankStep(r) ==
  \/ CliInit(r) \/ ReadyWait(r)
  \/ BeginIteration(r) \/ LoopEnds(r) \/ Waitall(r)
  \/ PassCandidate(r) \/ OpenCkpt(r) \/ CloseCkpt(r)

RootStep == Greet \/ Ask \/ OpenSce \/ CloseSce

Next ==
  \/ \E r \in Rank : RankStep(r)
  \/ RootStep
  \/ ServerTakes
  \/ Failure

(* Ranks and server run; failures need not happen. *)
Spec ==
  /\ Init /\ [][Next]_vars
  /\ \A r \in Rank : WF_vars(RankStep(r))
  /\ WF_vars(RootStep)
  /\ WF_vars(ServerTakes)

-----------------------------------------------------------------------------
(* Every variable has its type; only root is ever inside scephase, and a   *)
(* rank that has not begun has no phase to write.                          *)
TypeOK ==
  /\ greets \in BOOLEAN
  /\ pc \in [Rank -> {"start", "greet", "ask", "wait", "top", "halo", "ckpt",
                      "sce", "sceopen", "write", "done"}]
  /\ \A r \in Rank : pc[r] \in {"greet", "ask", "sce", "sceopen"} => r = Root
  /\ iter \in [Rank -> -1 .. Steps - 1]
  /\ phase \in [Rank -> Phase]
  /\ inbox \in [Rank -> SUBSET {"XPT_SRV2CLI", "XPT_TOALL"}]
  /\ late \in [Rank -> BOOLEAN]
  /\ term \in [Phase -> BOOLEAN]
  /\ told \in -1 .. Steps - 1
  /\ ck \in [Rank -> [Phase -> {"none", "torn", "whole"}]]
  /\ scephase \in Phase \cup {NoFile, Empty}
  /\ mail \in Seq(Signal)
  /\ slot \in Signal \cup {"none"}
  /\ kills \in 0 .. MaxKills

Running(r) == pc[r] \notin {"start", "greet", "ask", "wait"}

(* No rank runs, started by whatever event and in whatever incarnation,    *)
(* before the server has read the number of phases and made its tables:    *)
(* the times that ranks announce never reach a server without tables.      *)
StartAnswered == (\E r \in Rank : Running(r)) => slot = "FI_SETCKPT"

(* The ranks that h hops lead to from root. *)
Hops[h \in Nat] ==
  IF h = 0 THEN {Root} ELSE UNION {Neighbours(q) : q \in Hops[h - 1]}

(* A rank that is h hops from root is at most h - 1 iterations short of    *)
(* the times root has announced: only ranks further away than root's       *)
(* neighbours can find themselves behind an announcement and skip          *)
(* checkpoints, and not for longer than the hops between them.             *)
AnnouncedIsBegun ==
  \A h \in 1 .. N : \A r \in Hops[h] : told <= iter[r] + h - 1

(* The ranks keep the promise of a halo exchange, in every incarnation:    *)
(* what the iterations show of the job is a lockstep of neighbours.        *)
HaloExchange ==
  INSTANCE Lockstep WITH Node <- Rank, Near <- [r \in Rank |-> Neighbours(r)],
                         Rounds <- Steps, round <- iter
ImplementsLockstep == HaloExchange!Spec

(* When all ranks run, they never all wait for each other: while one is in *)
(* MPI_Waitall, some rank can go on.                                       *)
CanGoOn(r) ==
  /\ pc[r] # "done"
  /\ pc[r] = "halo" => \A q \in Neighbours(r) : iter[r] <= iter[q]
NoHaloDeadlock ==
  (\A r \in Rank : Running(r)) /\ (\E r \in Rank : pc[r] = "halo")
    => \E r \in Rank : CanGoOn(r)

(* "kill process & restart process" (fiserver.c:116): when the ranks of a  *)
(* job that the server had started once are all back at the wait for the   *)
(* start, after a failure, some rank runs again, unless another failure    *)
(* comes in between.                                                       *)
JobRestarts ==
  \A k \in 1 .. MaxKills :
    (kills = k /\ slot = "FI_SETCKPT" /\ \A r \in Rank : pc[r] = "wait")
      ~> (kills # k \/ \E r \in Rank : Running(r))

(* At most one checkpoint file of a rank is not whole, however often the   *)
(* job is killed, and the others are never touched by that.                *)
OneTornFile ==
  \A r \in Rank : \A p, q \in Phase :
    ck[r][p] = "torn" /\ ck[r][q] = "torn" => p = q

(* The phase in scephase is one whose checkpoint root has at least begun,  *)
(* at every moment and after every kill.                                   *)
ScePhaseBacked == scephase \in Phase => ck[Root][scephase] # "none"

(* When the start command has found every rank subscribed, the halo        *)
(* exchange brings them all to the end, unless the job is killed.          *)
Started(r) == pc[r] # "start" /\ "XPT_SRV2CLI" \in inbox[r]
JobFinishes ==
  \A k \in 0 .. MaxKills :
    (kills = k /\ \A r \in Rank : Started(r))
      ~> (kills # k \/ \A r \in Rank : pc[r] = "done")
=============================================================================
