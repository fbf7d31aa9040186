------------------------------ MODULE CkptClock ------------------------------
(***************************************************************************)
(* The clock by which one process of a job decides when to write a         *)
(* checkpoint: XPT_ckpt.c, called at every phase of every iteration as     *)
(* ckpt_candidate of the test application calls it.  Root measures the     *)
(* phases and announces their times to all; the fault-injection server     *)
(* answers with a checkpoint interval; both reach the process on separate  *)
(* subscriptions, one event per call.  The process then replays its clock  *)
(* from the announced iteration on.                                        *)
(*                                                                         *)
(* Every event occupies the pull slot of the process that takes it, and    *)
(* XPT_CP_poll_pull_event never gives it back.  XPT_pull_done does, as the *)
(* usage in libxpt.h (47-57) wants it, and no program of the repository    *)
(* calls it: as they stand, the wait for the start takes the only event of *)
(* a process's life, and the server's first one is its last.  The library  *)
(* does not depend on who releases the slot, so here the programs around   *)
(* it may, on either side, after any event or never; the repository's own  *)
(* are the behaviours without PullDone and ServerPullDone.                 *)
(***************************************************************************)
EXTENDS Integers, Sequences

CONSTANTS
  NCkpt,      \* phases of an iteration, the ckptcount of XPT_CP_ready_*
  Steps,      \* iterations of the job, an argument of the application
  Duration,   \* times root may measure for a phase
  Interval    \* intervals the server's optimisation may yield

ASSUME NCkptAssumption == NCkpt \in Nat \ {0}
ASSUME StepsAssumption == Steps \in Nat \ {0}
ASSUME DurationAssumption == Duration \subseteq Nat
ASSUME IntervalAssumption == Interval \subseteq Nat \ {0}

Phase == 0 .. NCkpt - 1
Channel == {"XPT_SRV2CLI", "XPT_TOALL"}
Times == [iter : Nat, phase : Phase, time : Nat]      \* FI_CKPTTIME, FI_LASTLINE
Change == [iter : Nat, value : Nat \ {0}]             \* FI_INTERVAL_CHANGE

VARIABLES
  root,          \* this process is rank 0, which measures and announces
  pc,            \* where it is: see TypeOK
  startapp,      \* the FI_STARTAPP: unsent, due to this process, or gone
  missed,        \* history: an interval was sent that cannot reach it
  iter, phase,   \* the candidate it is at
  i,             \* loop counter of the replay, 0 outside
  slot,          \* the pull slot is occupied
  last_polling,  \* the subscription that delivered last
  toall,         \* FTB (external): undelivered events of XPT_TOALL
  srv2cli,       \* FTB (external): undelivered events of XPT_SRV2CLI
  cur_epoch,     \* phase times measured or received
  epoch_term,    \* phase times the clock runs by
  commit,        \* phases whose time came in since the last commit
  biter,         \* iteration the clock is counted from
  interval,      \* the checkpoint interval, 0 before the first
  renewal,       \* a new interval is to be replayed
  curtime,       \* the clock
  f_1st,         \* no candidate has been passed yet
  told,          \* last iteration root announced, -1 before the first
  todo,          \* the server's undelivered FI_LASTLINE events: iterations
  ckpt_interval, \* the server's interval
  srv_slot       \* the server's pull slot is occupied

tables == <<cur_epoch, epoch_term, commit>>
clock == <<biter, interval, renewal, curtime>>
server == <<todo, ckpt_interval, srv_slot>>
ready == <<startapp, missed>>
mail == <<toall, srv2cli, told, ready>>
vars == <<root, pc, iter, phase, i, slot, last_polling, tables, clock, f_1st,
          mail, server>>

-----------------------------------------------------------------------------
(* A process, root or one that may be late, before XPT_CP_cli_init. *)
Init ==
  /\ root \in BOOLEAN
  /\ pc = "start"
  /\ startapp = "unsent" /\ missed = FALSE
  /\ iter = 0 /\ phase = 0 /\ i = 0
  /\ slot = FALSE
  /\ last_polling = "XPT_TOALL"
  /\ toall = <<>> /\ srv2cli = <<>>
  /\ cur_epoch = [p \in Phase |-> 0]
  /\ epoch_term = [p \in Phase |-> 0]
  /\ commit = [p \in Phase |-> FALSE]
  /\ biter = 0 /\ interval = 0 /\ renewal = FALSE /\ curtime = 0
  /\ f_1st = TRUE
  /\ told = -1 /\ todo = <<>> /\ ckpt_interval = 0 /\ srv_slot = FALSE

(* XPT_CP_cli_init: from here on it gets what is published.  Root's        *)
(* FI_SETCKPT goes out behind it.                                          *)
Subscribe ==
  /\ pc = "start"
  /\ pc' = "wait"
  /\ UNCHANGED <<root, iter, phase, i, slot, last_polling, tables, clock,
                 f_1st, mail, server>>

(* ehdl_setckpt of the server answers root's FI_SETCKPT, to all who have   *)
(* subscribed; the event keeps the server's slot.                          *)
SetCkpt ==
  /\ startapp = "unsent"
  /\ root => pc = "wait"
  /\ startapp' = IF pc = "start" THEN "gone" ELSE "due"
  /\ srv_slot' = TRUE
  /\ UNCHANGED <<root, pc, iter, phase, i, slot, last_polling, tables, clock,
                 f_1st, toall, srv2cli, told, missed, todo, ckpt_interval>>

(* A subscription has an event for a free slot, and so has not the other   *)
(* one if this one delivered last.                                         *)
Waiting(c) == IF c = "XPT_TOALL" THEN toall # <<>> ELSE srv2cli # <<>>
Delivers(c) ==
  /\ ~ slot
  /\ Waiting(c)
  /\ c = last_polling => \A d \in Channel \ {c} : ~ Waiting(d)

(* XPT_CP_ready_wait ends on FI_STARTAPP, the first event of XPT_SRV2CLI.  *)
ReadyStart ==
  /\ pc = "wait"
  /\ startapp = "due"
  /\ startapp' = "gone"
  /\ slot' = TRUE
  /\ last_polling' = "XPT_SRV2CLI"
  /\ pc' = "candidate"
  /\ UNCHANGED <<root, iter, phase, i, tables, clock, f_1st, toall, srv2cli,
                 told, missed, server>>

(* XPT_CP_ready_wait of a process that came too late for it ends on any    *)
(* other event as well, whose times or interval are lost.                  *)
ReadyOther(c) ==
  /\ pc = "wait"
  /\ startapp # "due"
  /\ Delivers(c)
  /\ IF c = "XPT_TOALL"
       THEN toall' = Tail(toall) /\ UNCHANGED <<srv2cli, missed>>
       ELSE srv2cli' = Tail(srv2cli) /\ missed' = TRUE /\ UNCHANGED toall
  /\ slot' = TRUE
  /\ last_polling' = c
  /\ pc' = "candidate"
  /\ UNCHANGED <<root, iter, phase, i, tables, clock, f_1st, told, startapp,
                 server>>

(* XPT_CP_preexec, on root: the time since the last stamp is measured. *)
Preexec ==
  IF root
    THEN \E d \in Duration : cur_epoch' = [cur_epoch EXCEPT ![phase] = d]
    ELSE UNCHANGED cur_epoch

(* Root has XPT_CP_postexec between the candidate and the poll; it does    *)
(* something at the last phase only.                                       *)
AfterCkpt == IF root /\ phase = NCkpt - 1 THEN "postexec" ELSE "poll"

(* The last part of XPT_CP_ckpt: the clock takes in the current phase, and *)
(* a checkpoint is written when it has gone past the interval.             *)
Writes == curtime + epoch_term[phase] > interval \/ f_1st
Advance ==
  /\ curtime' = curtime + epoch_term[phase] - (IF Writes THEN interval ELSE 0)
  /\ pc' = AfterCkpt

(* Mutant of CkptInStep: a written checkpoint does not set the clock back. *)
CkptInStep_ClockKept ==
  /\ pc = "candidate"
  /\ ~ renewal
  /\ Preexec
  /\ curtime' = curtime + epoch_term[phase]
  /\ pc' = AfterCkpt
  /\ UNCHANGED <<root, iter, phase, i, slot, last_polling, epoch_term, commit,
                 biter, interval, renewal, f_1st, mail, server>>

(* XPT_CP_ckpt without a new interval. *)
CkptInStep ==
  /\ pc = "candidate"
  /\ ~ renewal
  /\ Preexec
  /\ Advance
  /\ UNCHANGED <<root, iter, phase, i, slot, last_polling, epoch_term, commit,
                 biter, interval, renewal, f_1st, mail, server>>

(* Mutant of CkptBehind: the announced iteration itself counts as behind. *)
CkptBehind_Inclusive ==
  /\ pc = "candidate"
  /\ renewal /\ iter <= biter
  /\ Preexec
  /\ pc' = AfterCkpt
  /\ UNCHANGED <<root, iter, phase, i, slot, last_polling, epoch_term, commit,
                 clock, f_1st, mail, server>>

(* XPT_CP_ckpt before the announced iteration: neither written nor counted. *)
CkptBehind ==
  /\ pc = "candidate"
  /\ renewal /\ iter < biter
  /\ Preexec
  /\ pc' = AfterCkpt
  /\ UNCHANGED <<root, iter, phase, i, slot, last_polling, epoch_term, commit,
                 clock, f_1st, mail, server>>

(* Mutant of ReplayBegin: the iteration is not looked at. *)
ReplayBegin_Early ==
  /\ pc = "candidate"
  /\ renewal
  /\ Preexec
  /\ curtime' = 0
  /\ i' = 0
  /\ pc' = "replay"
  /\ UNCHANGED <<root, iter, phase, slot, last_polling, epoch_term, commit,
                 biter, interval, renewal, f_1st, mail, server>>

(* XPT_CP_ckpt with a new interval starts the clock again. *)
ReplayBegin ==
  /\ pc = "candidate"
  /\ renewal /\ iter >= biter
  /\ Preexec
  /\ curtime' = 0
  /\ i' = 0
  /\ pc' = "replay"
  /\ UNCHANGED <<root, iter, phase, slot, last_polling, epoch_term, commit,
                 biter, interval, renewal, f_1st, mail, server>>

(* How many phases are replayed.  Mutant: the current one is among them. *)
Last_WithCurrent == (iter - biter) * NCkpt + phase + 1
Last == (iter - biter) * NCkpt + phase - 1

(* One round of the replay loop. *)
ReplayStep ==
  /\ pc = "replay"
  /\ i < Last
  /\ LET c == curtime + epoch_term[i % NCkpt]
     IN  curtime' = IF c > interval THEN c - interval ELSE c
  /\ i' = i + 1
  /\ UNCHANGED <<root, pc, iter, phase, slot, last_polling, tables, biter,
                 interval, renewal, f_1st, mail, server>>

ReplayEnd ==
  /\ pc = "replay"
  /\ i >= Last
  /\ renewal' = FALSE
  /\ i' = 0
  /\ Advance
  /\ UNCHANGED <<root, iter, phase, slot, last_polling, tables, biter,
                 interval, f_1st, mail, server>>

-----------------------------------------------------------------------------
(* The FI_CKPTTIME events of all phases, the last one an FI_LASTLINE, from *)
(* root to every process that has subscribed and to the server.            *)
AnnounceTimes(t, time) ==
  /\ toall' = IF pc = "start" THEN toall
              ELSE toall \o [k \in 1 .. NCkpt |->
                     [iter |-> t, phase |-> k - 1, time |-> time[k - 1]]]
  /\ told' = t
  /\ todo' = Append(todo, t)

(* XPT_CP_postexec on root at the last phase: the times are sent when none *)
(* were sent before (prev_commit is zero) or the limit of 30 s is over,    *)
(* which the model leaves open.                                            *)
PostexecSends ==
  /\ pc = "postexec"
  /\ AnnounceTimes(iter, cur_epoch)
  /\ epoch_term' = cur_epoch
  /\ f_1st' = FALSE
  /\ pc' = "poll"
  /\ UNCHANGED <<root, iter, phase, i, slot, last_polling, cur_epoch, commit,
                 clock, srv2cli, ready, ckpt_interval, srv_slot>>

PostexecSilent ==
  /\ pc = "postexec"
  /\ told # -1
  /\ pc' = "poll"
  /\ UNCHANGED <<root, iter, phase, i, slot, last_polling, tables, clock,
                 f_1st, mail, server>>

(* When this process is not root: root announces, ahead of it or behind. *)
RootSends(t, time) ==
  /\ ~ root
  /\ startapp # "unsent"
  /\ told < t
  /\ AnnounceTimes(t, time)
  /\ UNCHANGED <<root, pc, iter, phase, i, slot, last_polling, tables, clock,
                 f_1st, srv2cli, ready, ckpt_interval, srv_slot>>

(* A new interval is of interest when it differs from the old one by more  *)
(* than 0.8 of it (always, when that is 0).                                *)
FarOff(new, old) == LET d == IF new > old THEN new - old ELSE old - new
                    IN  10 * d > 8 * old

(* XPT_CP_publish_to_cli: whoever has not subscribed yet will not get it. *)
PublishInterval(e) ==
  IF pc = "start" THEN missed' = TRUE /\ UNCHANGED srv2cli
                  ELSE srv2cli' = Append(srv2cli, e) /\ UNCHANGED missed

(* Mutant of LastLine: the interval is to hold two iterations later. *)
LastLine_Ahead(new) ==
  /\ ~ srv_slot /\ todo # <<>>
  /\ todo' = Tail(todo)
  /\ srv_slot' = TRUE
  /\ IF FarOff(new, ckpt_interval)
       THEN /\ ckpt_interval' = new
            /\ PublishInterval([iter |-> Head(todo) + 2, value |-> new])
       ELSE UNCHANGED <<ckpt_interval, srv2cli, missed>>
  /\ UNCHANGED <<root, pc, iter, phase, i, slot, last_polling, tables, clock,
                 f_1st, toall, told, startapp>>

(* ehdl_lastline of the server, when its slot is free: an interval of      *)
(* interest is sent, for the iteration whose times it was made of.  (The   *)
(* FI_CKPTTIME before it are taken the same way and only fill the server's *)
(* tables, on which the value depends that the model leaves open.)         *)
LastLine(new) ==
  /\ ~ srv_slot /\ todo # <<>>
  /\ todo' = Tail(todo)
  /\ srv_slot' = TRUE
  /\ IF FarOff(new, ckpt_interval)
       THEN /\ ckpt_interval' = new
            /\ PublishInterval([iter |-> Head(todo), value |-> new])
       ELSE UNCHANGED <<ckpt_interval, srv2cli, missed>>
  /\ UNCHANGED <<root, pc, iter, phase, i, slot, last_polling, tables, clock,
                 f_1st, toall, told, startapp>>

(* XPT_pull_done (external: no program of the repository calls it) behind  *)
(* the server's loop.                                                      *)
ServerPullDone ==
  /\ srv_slot
  /\ srv_slot' = FALSE
  /\ UNCHANGED <<root, pc, iter, phase, i, slot, last_polling, tables, clock,
                 f_1st, mail, todo, ckpt_interval>>

-----------------------------------------------------------------------------
(* The application's loop: on to the next phase, the next iteration, or the *)
(* end.                                                                     *)
NextCandidate ==
  IF phase + 1 < NCkpt
    THEN phase' = phase + 1 /\ pc' = "candidate" /\ UNCHANGED iter
    ELSE /\ phase' = 0
         /\ IF iter + 1 < Steps THEN iter' = iter + 1 /\ pc' = "candidate"
                                ELSE pc' = "done" /\ UNCHANGED iter

(* XPT_CP_commit: times, interval and iteration come into force together.  *)
CommitAll(t, v) ==
  /\ epoch_term' = cur_epoch'
  /\ commit' = [p \in Phase |-> FALSE]
  /\ biter' = t
  /\ interval' = v

Polls(c) == pc = "poll" /\ Delivers(c)

(* XPT_CP_pull_poll takes the time of one phase; the slot is then occupied *)
(* and its loop ends.  biter_ is the event's iteration, which only counts  *)
(* when the call commits.                                                  *)
PollTimes ==
  /\ Polls("XPT_TOALL")
  /\ LET e == Head(toall) IN
       /\ cur_epoch' = [cur_epoch EXCEPT ![e.phase] = e.time]
       /\ IF renewal THEN CommitAll(e.iter, interval)
                     ELSE /\ commit' = [commit EXCEPT ![e.phase] = TRUE]
                          /\ UNCHANGED <<epoch_term, biter, interval>>
  /\ toall' = Tail(toall)
  /\ slot' = TRUE
  /\ last_polling' = "XPT_TOALL"
  /\ f_1st' = FALSE
  /\ NextCandidate
  /\ UNCHANGED <<root, i, renewal, curtime, srv2cli, told, ready, server>>

(* Mutant of PollChange: the interval waits until all times are in, but    *)
(* nothing remembers it.                                                   *)
PollChange_IfComplete ==
  /\ Polls("XPT_SRV2CLI")
  /\ UNCHANGED cur_epoch
  /\ LET e == Head(srv2cli) IN
       IF \A p \in Phase : commit[p]
         THEN CommitAll(e.iter, e.value) /\ renewal' = TRUE
         ELSE UNCHANGED <<epoch_term, commit, biter, interval, renewal>>
  /\ srv2cli' = Tail(srv2cli)
  /\ slot' = TRUE
  /\ last_polling' = "XPT_SRV2CLI"
  /\ f_1st' = FALSE
  /\ NextCandidate
  /\ UNCHANGED <<root, i, curtime, toall, told, ready, server>>

(* XPT_CP_pull_poll takes a new interval, which is committed at once. *)
PollChange ==
  /\ Polls("XPT_SRV2CLI")
  /\ UNCHANGED cur_epoch
  /\ LET e == Head(srv2cli) IN CommitAll(e.iter, e.value)
  /\ renewal' = TRUE
  /\ srv2cli' = Tail(srv2cli)
  /\ slot' = TRUE
  /\ last_polling' = "XPT_SRV2CLI"
  /\ f_1st' = FALSE
  /\ NextCandidate
  /\ UNCHANGED <<root, i, curtime, toall, told, ready, server>>

(* XPT_CP_pull_poll with nothing to take commits again while a replay is   *)
(* due.                                                                    *)
PollNothing ==
  /\ pc = "poll"
  /\ slot \/ \A c \in Channel : ~ Waiting(c)
  /\ UNCHANGED cur_epoch
  /\ IF renewal THEN CommitAll(biter, interval)
                ELSE UNCHANGED <<epoch_term, commit, biter, interval>>
  /\ f_1st' = FALSE
  /\ NextCandidate
  /\ UNCHANGED <<root, i, slot, last_polling, renewal, curtime, mail, server>>

(* XPT_pull_done (external: no program of the repository calls it) between *)
(* two candidates.                                                         *)
PullDone ==
  /\ pc = "candidate"
  /\ slot
  /\ slot' = FALSE
  /\ UNCHANGED <<root, pc, iter, phase, i, last_polling, tables, clock, f_1st,
                 mail, server>>

App ==
  \/ Subscribe
  \/ ReadyStart
  \/ \E c \in Channel : ReadyOther(c)
  \/ CkptInStep \/ CkptBehind
  \/ ReplayBegin \/ ReplayStep \/ ReplayEnd
  \/ PostexecSends \/ PostexecSilent
  \/ PollTimes \/ PollChange \/ PollNothing

Next ==
  \/ App
  \/ PullDone \/ ServerPullDone
  \/ SetCkpt
  \/ \E t \in 0 .. Steps - 1, time \in [Phase -> Duration] : RootSends(t, time)
  \/ \E new \in Interval : LastLine(new)

(* The job runs; nothing is assumed of root, the server or XPT_pull_done. *)
Spec == Init /\ [][Next]_vars /\ WF_vars(App)

-----------------------------------------------------------------------------
(* Every variable has its type, and the replay is of iterations that the   *)
(* process has reached.                                                    *)
TypeOK ==
  /\ root \in BOOLEAN
  /\ pc \in {"start", "wait", "candidate", "replay", "postexec", "poll", "done"}
  /\ startapp \in {"unsent", "due", "gone"}
  /\ missed \in BOOLEAN
  /\ iter \in 0 .. Steps - 1
  /\ phase \in Phase
  /\ i \in Nat
  /\ pc = "replay" => renewal /\ iter >= biter
  /\ slot \in BOOLEAN
  /\ last_polling \in Channel
  /\ toall \in Seq(Times)
  /\ srv2cli \in Seq(Change)
  /\ cur_epoch \in [Phase -> Nat]
  /\ epoch_term \in [Phase -> Nat]
  /\ commit \in [Phase -> BOOLEAN]
  /\ biter \in Nat
  /\ interval \in Nat
  /\ renewal \in BOOLEAN
  /\ curtime \in Int
  /\ f_1st \in BOOLEAN
  /\ told \in -1 .. Steps - 1
  /\ todo \in Seq(Nat)
  /\ ckpt_interval \in Nat
  /\ srv_slot \in BOOLEAN

(* Phases are shorter than the intervals between checkpoints. *)
PhasesFit == \A d \in Duration, v \in Interval : d <= v

(* Once an interval is in force and replayed, the clock stays between zero *)
(* and the interval: one subtraction per phase is enough to hold it there, *)
(* in the replay and outside, whatever new times come into force.          *)
ClockBounded ==
  PhasesFit /\ interval # 0 /\ (~ renewal \/ pc = "replay")
    => 0 <= curtime /\ curtime <= interval

(* No interval is lost on its way: the server's latest one is in force at  *)
(* the process, or it is the last one under way to it.  Only a process     *)
(* that came late may be without, until the next one: what was sent before *)
(* it subscribed, and what its wait for the start swallowed, is gone.      *)
LatestInterval ==
  IF srv2cli = <<>> THEN \/ interval = ckpt_interval
                         \/ interval = 0 /\ missed
                    ELSE srv2cli[Len(srv2cli)].value = ckpt_interval

(* The clock a process would have that had run by the times in force from  *)
(* the start of iteration biter on, without subtracting anything.          *)
Sums(time) ==
  LET sum[k \in Nat] ==
        IF k = 0 THEN 0 ELSE sum[k - 1] + time[(k - 1) % NCkpt]
  IN  sum
Count == (iter - biter) * NCkpt + phase
Elapsed == Sums(epoch_term)[Count + 1]

(* However late a process takes up a new interval, its clock is, up to     *)
(* whole intervals, that of one that had used it from the beginning, less  *)
(* at most one phase.  (Root changes its times under way.)                 *)
ReplayLosesOnePhase ==
  pc = "poll" /\ ~ root /\ ~ renewal /\ interval # 0 =>
    \E n \in 0 .. (iter - biter + 1) * NCkpt,
       lost \in {0} \cup {epoch_term[p] : p \in Phase} :
      curtime = Elapsed - lost - n * interval

(* Root gets its own announcements back on both subscriptions, one of them *)
(* by way of the server, late and in any order.  None of them ever makes   *)
(* it count from an iteration it has yet to begin: root never skips a      *)
(* checkpoint as a process that is behind.                                 *)
RootNeverBehind == [][root /\ biter' # biter => biter' <= iter]_vars

(* A process that has taken a new interval before its last iteration       *)
(* replays it in the end, though later times move the iteration it waits   *)
(* for: it does not skip its checkpoints for good.                         *)
RenewalApplied == (renewal /\ iter < Steps - 1) ~> ~ renewal
=============================================================================
