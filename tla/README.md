# Verification of the XPT event library

XPT is a small C library by which the processes of a parallel job exchange
events over FTB (a publish/subscribe "fault tolerance backplane"): `libxpti`
wraps FTB, `libxpt` adds one-event slots and two control constructs
(`XPT_POLL`/`XPT_CHECK` and `XPT_TRY`/`XPT_CATCH`), and under `oldcp/` there are
two users of it, a checkpointing client library and a fault-injection server.
This directory holds TLA+ models of the library, TLC configurations that check
them on small instances, and TLAPS proofs for every value of the constants.

All paths below are relative to `src/xpt/`.

## 1. Inventory

| Component | Source | State it keeps | Operations |
|---|---|---|---|
| XPTI pull events | `xpti/ftb/xptftb.c` 182-356 | handle storage `phdl[0..n_phdl-1]` (`used`, `hdl`, receive buffer `evt`), static `last_polling` | subscribe, flexible subscribe, unsubscribe (all), poll, payload getter, publish, fini |
| XPTI push events | same file 249-269, 337-348 | one handle `shdl[0]` with its buffer | subscribe, unsubscribe, poll, payload getter |
| XPT slot layer | `XPT_base.c`, `libxpt.h` | `restate_pull`, `restate_push`, the pointers `pulled_event`, `pulled_payload`, `pushed_event`, `pushed_payload`, the jump buffer | init, the two polls, four getters, the two "done" calls, the macros |
| Co-servers | `xpti/ftb/xptftb.c` 15-180, 359-522 | pids `dbserv`, `agent`, per-role `done` flags, a marker file named after the host | exec_coserver, init, killnwait, exec_complete |
| Checkpoint client | `oldcp/XPT_ckpt.c` | per-phase time tables, `curtime`, `interval`, `renewal`, checkpoint files | ready_root/ready_nodes, preexec, ckpt, postexec, pull_poll, commit |
| Scenario and tick loop | `oldcp/FI_base.c` | scenario file position, `survive`, timer, start time | fetch_scenario, ticked_loop, starttick, settick, failurerate |
| Fault-injection server | `oldcp/fiserver.c` | target pid, `restart`, time stamps, interval | one handler per event, exec_target, Newton iteration |
| Time and memory macros | `utilmacros.h` (three copies) | none | timespec arithmetic, conversions, logging |
| Test programs | `toytest/`, `xpti/ftb/toytest/` | - | a server/client pair, an MPI application, an event printer |

`oldcp/` is not built by the Makefiles of the repository; its sources use the
library and declare how it is meant to be used.

### How the parts interact

* An application calls `XPT_*`; each call goes down to `XPTI_*` and from there
  to FTB in the same thread.  There are no callbacks: FTB subscriptions are
  made with a null callback and are polled.
* FTB receives events on a thread of its own.  For the library this means that
  an event may arrive between any two of its FTB calls, in particular between
  two probes of one polling loop.
* The application reads an event through pointers *into the receive buffer* of
  a handle.  The slot states `restate_pull`/`restate_push` decide how long that
  buffer stays untouched; `XPT_CHECKED`/`XPT_CATCHED` give it back.
* `XPT_poll_push_event` does not return when it has an event: it jumps
  (`siglongjmp`) to the `XPT_TRY` of the application.
* The processes of a node share the co-servers: any of them may fork a server,
  all look for servers by name with `pgrep`, and they leave one another a marker
  file.  That is the only interaction of processes not mediated by FTB.
* The checkpoint clients and the FI server exchange commands as payloads of
  three events (`XPT_SRV2CLI`, `XPT_CLI2SRV`, `XPT_TOALL`).

### What is hard, and what makes each component correct

| Component | Hard behaviour | Correct means |
|---|---|---|
| Pull events | events arriving during a scan; buffers reused; two pointers set by two functions through a global index; subscriptions that fail or are cancelled with an event held | FIFO per subscription, at most one event held and it stays intact, no subscription starves |
| Push events | polls inside a catch clause; non-local jump; the choice of clause | a clause is not left half done; the same mailbox promise; the clause of an event handles that event |
| Co-servers | check-then-fork of several processes; fork, exec, pgrep failing; killing while others wait; a marker that outlives what it stands for | nobody passes the wait for the agent before there has been one, everyone passes it, nobody leaves its servers behind |
| Checkpoint client | several clients and a server, messages before the receiver has subscribed, crash in the middle of a checkpoint | everyone starts, a restart finds a whole checkpoint, all clients take the same decisions |
| Scenario loop | two sources, a timer whose ticks are lost while the loop works, read-ahead of one line | commands run in order, and the loop never sleeps for good with work left |
| FI server | failure injected at any moment, stale messages of a killed incarnation | a failed job is started again and runs on |

`PROJECT.json` lists the single hazards with their lines and the properties
that would catch them.

## 2. Plan

1. `Mailbox`, `PullEvents` (+ proofs): the core.  **Done.**
2. `PushEvents` (+ proofs).  **Done.**
3. `CoServer` (+ proofs).  **Done.**
4. `FiServer` (+ proofs): scenario fetch, the tick loop, the timer, the handlers
   of the fault-injection server and the program it starts and kills, over
   `Mailbox`.  **Done.**
5. `CkptClock` (+ proofs): one process's decision when to write a checkpoint,
   with times and intervals arriving on two subscriptions, and the replay.
   **Done.**
6. `CkptJob` (+ proofs): the whole job: late subscribers, the halo exchange, the
   files, kill and restart; `Lockstep`, what its halo exchange promises.
   **Done.**
7. `TimeSpec` (+ proofs): the timespec macros.  **Done.**
8. `RecursionLemmas`: induction and recursion over the natural numbers in the
   form the proofs about the clock and the job need.  **Done.**

What is left is outside the reach of the tools: the Newton iteration of
`fiserver.c` computes in floating point, and the conversions between `double` and
time structures are declared in `utilmacros.h` but defined nowhere in the
repository.

## 3. Modules

| Module | Models | Kind |
|---|---|---|
| `Mailbox` | what a subscriber is promised | abstract specification |
| `PullEvents` | pull side of `xptftb.c` + pull slot of `XPT_base.c` | detailed, implements `Mailbox` |
| `PushEvents` | push side of `xptftb.c` + push slot + TRY/CATCH of `libxpt.h` | detailed, implements `Mailbox` |
| `CoServer` | co-server half of `xptftb.c` | detailed |
| `FiServer` | `oldcp/FI_base.c`, `oldcp/fiserver.c`, publishing and polling of `oldcp/XPT_ckpt.c`, the calls of `toytest/testappli.c` | detailed, uses `Mailbox` |
| `CkptClock` | one process of `oldcp/XPT_ckpt.c`, `ehdl_lastline` of the server | detailed |
| `CkptJob` | all processes of `toytest/testappli.c` with `oldcp/XPT_ckpt.c`, and the server's start command, kill and restart | detailed |
| `Lockstep` | what a halo exchange promises to an iterative program | abstract specification, implemented by `CkptJob` |
| `TimeSpec` | the `ts*` macros of `utilmacros.h` | operators |
| `RecursionLemmas` | nothing of the code: induction and recursion over `Nat` | theorems for the proofs of `CkptClock` and `CkptJob` |
| `MC*` | small instances | for TLC |
| `*Proofs` | theorems | for TLAPS |

### PullEvents

One process.  `used`, `hdl`, `evt` are the fields of `phdl[i]`; `queue[i]` is what
FTB holds for the handle of slot `i` (external); `last_polling` the static
variable; `scan` the loop variable while `XPTI_poll_pull_event` runs, so that
`Publish` may happen between two probes; `restate_pull`, `pulled_event`,
`pulled_payload` the fields of `XPT_info_t`, the two pointers as slot numbers.
`flexible` is a live subscription in `shdl[0]` made by the flexible form.
`bypass` is a history variable.  Callers ignore what `XPT_init` returns, so
`connected` is either value at the start, and while it is not, FTB refuses every
subscription.

Each API call is an action; the poll is the call (`PollBegin`), one action per
probe (`PollHit`, `PollMiss`).  A refused poll (slot occupied) changes nothing
and so needs no action.  `PullSubscribe` keeps the code's order: the slot is
marked used whether or not FTB accepts the subscription.
`PullSubscribeFlexible` subscribes the *push* handle, as the code does, and is
restricted to slot 0, because `shdl` has one element; only `PushUnsubscribe` or
`Fini` ends that subscription.  `PullUnsubscribe` clears every mark, but FTB may
refuse to end any of the subscriptions: those stay live in slots that count as
free, the poll still delivers from them, and the next subscription overwrites
their handle.  `StorageExhausted` is
`ERROR_EXIT`.  Payloads and names are compared for identity only.

Not modelled here: attributes of subscriptions other than the name, `n_phdl = 0`
(the loop would use `chk` uninitialised; no caller does it), polling before
`XPT_phdl_init`.

### PushEvents

`at` is where the application is with respect to one `XPT_TRY` construct.
`PollPush` is the whole of `XPT_poll_push_event` when an event is there: buffer,
slot, jump, and the test of the clauses (`JumpsTo`).  `Strcmp` is a constant:
the C standard fixes only when it is zero and its sign, which is all that is
assumed of it.  `XPT_push_subscribe` on an occupied handle overwrites it; the
old subscription lives on in FTB where nothing polls it.  A failed
`FTB_Subscribe` or `FTB_Unsubscribe` changes nothing and needs no action.  A poll outside the
construct would jump to a dead frame; it is undefined and not modelled.

### CoServer

`pc[p]` is the program position of each process of a node from
`XPTI_exec_coserver` over `XPTI_init` to its end, "connected" or "unconnected",
and, for those with a `KillRole`, through `XPTI_killnwait_coserver` to its exit.
`FTB_Connect` may fail, and does when no agent runs; `XPTI_init` returns the error,
no caller looks at it, and the process goes on.  `child[k][p]` is the server of
kind `k` that `p` forked; "forked" is the window between `fork` and `execlp`, in
which `pgrep` does not list it yet (it has the parent's name).  `marker` is the
file named after the host; it may be there from the beginning, left by an
earlier job (`stale`, history): no program of the repository removes it.  `Faults`
says what else may go wrong: forks, execs, and the `system()` that runs `pgrep`,
whose -1 counts as "found" (`misled` records that it was taken for an agent).  A
process kills only servers it has forked itself.
The check of `SXPTI_exec_agent` and its fork are two actions, as are the `pgrep`
and the `stat` of the loop in `XPTI_init`.

### FiServer

One thread of the server, the clock and the program it has started.  `pc` and the
two flags `f_rsce`, `f_rcon` are the loop of `FI_ticked_loop`: "scenario" before
`FI_fetch_scenario`, "console" before the poll, "sigwait" asleep.  `line` is the
file position; the command buffer `scmd` always holds the line read last, so it
needs no variable: `FetchEnd`, which the code reaches in every tick after the end
of the file, runs that line again.  `FetchEarly` is `FI_SCC_NOEVENT`, `FetchDue`
the other two results.  `tick`, `period`, `left` and `elapsed` are `sh->tick`, the
armed timer, and the time since `sh->st`; before anybody moves `sh->st` it lies
at the epoch, so `elapsed` starts at `Horizon`.  The library appears as the
`Mailbox` with the two subscriptions of `XPT_CP_srv_init`; the server takes an
event into the slot and, as `XPT_CP_poll_pull_event` has it, never releases it.
`said` counts what the running incarnation of the program has published; killing
it resets `said` and leaves its events with FTB.  `runs` and `approved` are history
variables.

Ticks wake the server only in `sigwait`; `FI_open_scenario` unblocks the signal,
so at any other time its handler runs and the tick is gone (`Clock`).  What the
handlers compute from time stamps (checkpoint interval, Newton iteration) and the
phase sent with `FI_RESTART` influence no control here and are left out.  A missing
`scephase` file and the `assert(0)` of `BLT_INVOKE` and `BLT_RESTART` are not
modelled.

### CkptClock

One process, root or not, from before `XPT_CP_cli_init` to the end of its loop.
"start" and "wait" are before it and in `XPT_CP_ready_wait`, which ends on
`FI_STARTAPP` (`ReadyStart`) or, in a process that came too late for it, on whatever
arrives first (`ReadyOther`): a time or an interval, which is lost.  `missed` is a
history variable: an interval was lost that way, or sent before the process had
subscribed.  Then `pc` walks through one call of `ckpt_candidate`: "candidate" is `XPT_CP_preexec`
(root measures: any member of `Duration`) and `XPT_CP_ckpt`, "replay" its loop,
"postexec" root's `XPT_CP_postexec` on the last phase, "poll" `XPT_CP_pull_poll`.
`toall` and `srv2cli` are what FTB holds for the two subscriptions of
`XPT_CP_cli_init`; the poll prefers the one that did not deliver last, which is
what the round robin proved in `PullEvents` comes to for two slots.  When the
process is not root, root is an action that announces the times of any later
iteration (`RootSends`): ranks run apart.  The server's `ehdl_lastline` yields any
member of `Interval` and sends it if it is far enough from the old one
(`FarOff`, in integers: `10 * |new - old| > 8 * old`).

`XPT_CP_poll_pull_event` never gives the slot back, and no program of the
repository calls `XPT_pull_done`: as they stand, the wait for the start takes the
only event of a process's life, `FI_SETCKPT` the server's, and the module's
behaviours without `PullDone` and `ServerPullDone` are those programs.  The
library does not depend on who releases the slot, so the two actions
(external) may release it on either side, between any two calls or never, as the
usage comment in `libxpt.h` (47-57) asks for; what the clock does with
times and intervals is checked and proved for such programs.  Times are natural
numbers; the 30-second limit on sending times again is left open.

### CkptJob

All ranks of a job on a torus of `Size * Size` processes.  `pc[r]` is the place in
`main`: "start" before `XPT_CP_cli_init`, "greet" before root's `FI_TIMESTAMP`,
"ask" before its `FI_SETCKPT`, "wait" in `XPT_CP_ready_wait`,
"top" at the head of the loop, "halo" in `MPI_Waitall`, "ckpt" before a
candidate, "sce", "sceopen", "write" inside `XPT_CP_ckpt` with the file open.  As
the slot is never given back, a rank takes one event: it matters only that some
event has reached each of its subscriptions (`inbox`), and the checkpoint interval
stays zero.  Then the clock `curtime` need only be known as zero or positive
(`late`), root's times as zero or positive (`term`), and those of the other ranks
stay zero.  `greets` says whether the program publishes `FI_TIMESTAMP` first, as
`testappli.c` does (and then never starts: see `ProgramStarts`).  A file is "torn"
from `fopen(..., "w")` to `fclose`.  `Failure` is `ehdl_failure`: the ranks are
gone, the files and the server's unread mail stay, and a new incarnation begins;
that all ranks die with the killed process is the launcher's doing (external).

`Lockstep` knows only the round each node has begun.  A node advances when all
its neighbours have begun the round it is in; a restart sets everybody back.
`CkptJob` implements it with `iter` as the round (`ImplementsLockstep`): in the
code the condition is nowhere tested when an iteration begins, it is the
`MPI_Waitall` of the iteration before, several candidates and file operations
earlier, that makes it true.  `Hops[h]` are the ranks that h hops lead to from root.

### TimeSpec

The macros as operators on records `[sec, nsec]`.  `Value` is the time in
nanoseconds against which they are proved.  No run: its theorems cover all
values.

## 4. Runs

| Run | Bounds | Shows |
|---|---|---|
| `pull_safety` | 2 slots, 2 signals, 2 payloads, queues of 2 | `TypeOK`, `HeldEventStable`, `ImplementsMailbox` |
| `pull_liveness` | 3 slots, 2 signals, queues of 1 | `BoundedBypass`, `NoStarvation` |
| `push_safety` | 3 signals, 2 clauses, 2 payloads, queue of 2 | `TypeOK`, `ClauseNotPreempted`, `ImplementsMailbox` |
| `coserver_faults` | 3 processes, two with the node role, all kill, fork, exec and pgrep may fail, an old marker or none | `TypeOK`, `NoOrphanServer`, `MarkerMeansAgent` |
| `coserver_liveness` | 3 processes, one with both roles, all may kill | `NoneStranded`, `EveryonePassesTheWait` |
| `fi_server` | scenario of 5 lines with two failures, four programs, queues of 2, horizon 5 | `TypeOK`, `NoDropBeforeApproval`, `RunsInOrder`, `ScenarioEnds`, `FirstEventHandled` |
| `ckpt_clock` | in time or late, 2 phases, 3 iterations, times 1 and 2, intervals 2 and 11 | `TypeOK`, `ClockBounded`, `LatestInterval`, `ReplayLosesOnePhase`, `RootNeverBehind`, `RenewalApplied` |
| `ckpt_job` | 4 ranks, 2 iterations, 2 phases, halo before the second, 2 kills | `TypeOK`, `StartAnswered`, `AnnouncedIsBegun`, `NoHaloDeadlock`, `OneTornFile`, `ScePhaseBacked`, `ImplementsLockstep`, `JobFinishes` |
| `push_catch` | **violation** | the clause of `EVENT1` runs for `EVENT2` |
| `ckpt_restart` | **violation** | a killed job is started again and never runs (4 ranks, 1 iteration, 1 phase, 1 kill) |
| `fi_timerstart` | **violation** | the server sleeps for ever before `FI_TIMERSTART` |
| `fi_startapp` | **violation** | the test application is never told to start |

Why the bounds are enough.  Two slots give a scan that wraps around, with an
arrival before and behind it; three are needed to tell "passed over once" from
"N-1 times", hence the separate run.  Two payloads per signal tell an event from
a later one in the same buffer; a queue of two tells the head from the tail,
which the round robin does not look at, so that `pull_liveness` does with one.
Three names, two clauses: an event with its own clause, one with the next one's
and one with none.  Three processes: one that starts the servers, one that races
it for the agent and one that only waits.  The scenario of `fi_server` has lines
for the same tick (`FI_SCC_IMMEDIATE`), lines that become early when the
application moves the start time, two failures and an end; its horizon is one
unit past the last line, and the programs are the test application, one that
starts the timer, one that begins with the checkpoint count and one that ends
the server.  All bounds except `MaxQueue` are
removed by the proofs, and `MaxQueue` is arbitrary there.

Two phases and three iterations let a process be an iteration behind or ahead of
an announcement, replay over the end of an iteration, and receive a second
interval before the first is replayed.  An interval of 2 is reached within an
iteration, 11 never is, and going from one to the other is either sent (2 to 11,
11 to 2) or, for an equal one, not.  A 2 x 2 torus is the smallest with a rank
two hops from root, the one that may fall behind; two kills give an incarnation
that is neither the first nor the last.  The theorems remove these bounds, for the
properties they state.

`CHECK_DEADLOCK FALSE`: in `PullEvents` a process may have exited on
`ERROR_EXIT`; in `CoServer` all processes end; in `FiServer` the server may have
exited; in `CkptClock` and `CkptJob` the job comes to its end, and a job without a
start command waits for ever.

Symmetry is used in `pull_safety` only, on signals and payloads, which are only
compared; the runs with liveness use none.

### Fairness

`PullEvents`: weak fairness of the poll and of `XPT_pull_done`, because the
documented use (`libxpt.h` 47-57) is a loop around `XPT_POLL ... XPT_CHECKED`.  The
fairness rests on that comment only: no program of the repository calls
`XPT_pull_done`.  Nothing is assumed of publishers or of subscribing.  `CoServer`: weak fairness of each process's
start-up and of the forked children (the operating system schedules them);
leaving and killing are never forced.  `FiServer`: weak fairness of the server's
thread, of time and of the program; `Clock` is fair as a whole, so the timer
expires, but nothing makes it expire while the server sleeps.  `CkptClock`: weak
fairness of the application's own steps; nothing of root, the server or
`XPT_pull_done`.  `CkptJob`: weak fairness of each rank, of root's extra steps and
of the server; no failure is forced.

### What the violations mean

* `CatchMatchesEvent`: `libxpt.h:44` compares `strcmp(...)` with `XPT_JMPBACK`
  (1), not with 0.  With the usage comment's own names the clause of `EVENT1`
  catches `EVENT2`.  `OwnClauseUnreachable` proves for every C library that no
  clause ever runs for its own event.  An event that no clause catches leaves
  the slot occupied: there is no further jump.
* `TimerStartHeard`: with a scenario that leaves the start of the timer to the
  application, the loop uses up both sources and sleeps in `sigwait`
  (`FI_base.c:195`) for a tick of a timer that was never started;
  `FI_TIMERSTART` arrives afterwards and is not polled.
* `ProgramStarts`: `FI_TIMESTAMP`, which `testappli.c` publishes first, occupies
  the server's slot for ever; `FI_SETCKPT` is never polled and `FI_STARTAPP` never
  sent.  The same holds on the client's side after its first event.
* `JobRestarts`: `ehdl_failure` kills the job and starts it again ("kill process &
  restart process", `oldcp/fiserver.c:116`), but the server's slot still holds the
  first incarnation's `FI_SETCKPT`.  The new one's is never read, no `FI_STARTAPP`
  follows, and all ranks stay in `XPT_CP_ready_wait`.  `JobFailureIsFinal` proves
  the reason for every size: after that, no rank ever runs again.  The trace is of
  an application that does not greet; `testappli.c`, which does, is not even started
  once (`ProgramStarts`).

### Limits of subscriptions

* A live subscription need not sit in a used slot: `XPTI_pull_unsubscribe` clears
  the mark whatever `FTB_Unsubscribe` answers (`xptftb.c:259-261`).
* A flexible subscription goes to `shdl[0]` (`xptftb.c:243`): the pull side neither
  delivers nor ends it.

### Limits of the getters

* `XPT_poll_get_event` (`XPT_base.c:114`) returns `pulled_payload`; the retired
  decoder in the comment at `XPT_base.c:93` took the name from `pulled_event`.
* No function sets `pushed_payload`: both push getters return nothing
  (`PushGettersEmpty`, proved), and `toytest/testappli.c:220` reads a null pointer.

### Limits of checkpoint and restart

What the properties leave out, true of the code:

* A rank that subscribes after `FI_STARTAPP` was published hangs in
  `XPT_CP_ready_wait`, and its neighbours hang in `MPI_Waitall`.  If root gets as
  far as announcing its times, these start it instead: the wait ends on any event
  (`cc == XPT_TRUE` ends the loop whatever the command is).  `JobFinishes` is
  about jobs in which all ranks had subscribed.  `LatestInterval` makes an exception
  for the intervals such a rank missed.
* A restart does not work (`JobRestarts`).  And if the new incarnation did
  run: `FI_RESTART` is published on `XPT_SRV2CLI`, which the clients poll, while
  the clause that handles it waits for a push event nobody subscribes to.
* `scephase` is empty between its `fopen` and its `fclose`, and absent before
  root's first checkpoint; the server's `fread` checks neither.  The phase in it
  may be one whose file is torn (the first phase has one file, which a second
  checkpoint truncates), and one that the other ranks, which without times write
  only at the very first candidate, have no file of.
* A rank h hops from root may be h - 1 iterations short of the announced one
  (`AnnouncedIsBegun`); it skips its checkpoints until it gets there.  Root
  itself never does (`RootNeverBehind`).
* Root receives its own announcements.  An echo that comes in after a phase was
  measured replaces the measurement, and is announced again.
* The replay leaves out the phase before the current one (`phase - 1` as the
  bound of a loop that excludes it); `ReplayLosesOnePhase` states exactly that
  much.  With phases longer than the interval `ClockBounded` is false: there is
  only one subtraction per phase.
* In a program that released its slots, as the usage comment asks, an interval on
  `XPT_SRV2CLI` could overtake times published before it on `XPT_TOALL`: the poll
  alternates, and the loop that would wait for all times is inside the comment at
  `oldcp/XPT_ckpt.c:203`.  `CkptClock` has it; the programs here take no second event.
* A new interval that is smaller than the old one by less than 80 % is never
  sent.

### Limits of the fault-injection server

* The comment at `FI_base.c:261` asks for the approval of scenario *and*
  application; the counter that would wait for both is commented out and the
  first call starts the timer (`StartTick`).
* A scenario that sets the tick to zero gets a timer that never expires.
* After the end of the scenario the command read last runs in every tick again
  (`RunsInOrder` allows exactly that), a failure included.
* Once the application has moved the start time, lines that are read too early
  are dropped (`NoDropBeforeApproval` says it cannot happen before).
* `BLT_FAILURERATE` and the interval have no effect before `FI_LASTLINE` is
  handled, which, with one event per life, it is not.

### Limits of the co-servers that the properties leave out

Found while modelling and true of the code:

* With two NODE-role processes and a process that kills the agent,
  `EveryonePassesTheWait` is false: a process that saw the agent at
  `xptftb.c:402` and finds it killed at `:422` waits for ever.  `NoneStranded`
  has one such process (`OneOfTheNode`), nothing failing and no program that
  removes the marker; with `Completers`, a process that comes after the removal
  and the kill waits for ever, too.
* Passing the wait is not being connected.  The agent may have been killed again by
  the process that started it (`xpti/ftb/toytest/xftbtest.c:60`; the clients'
  call at `:83` kills nothing, since they have forked none), and the marker stays:
  `FTB_Connect` then fails, and nobody looks at what `XPTI_init` returns.
* With an old marker in the directory, a process that has no agent to start passes
  the wait before there is one; so does any process whose `system()` fails (-1 counts
  as "found").  `MarkerMeansAgent` names both.
* A process whose fork of the agent fails exits at once (`:406`) and leaves its
  database server running.
* An `execlp` that fails leaves its parent waiting until someone else's server
  is listed.

## 5. Proofs

| Theorem | Says |
|---|---|
| `TypeCorrect` | `PullEvents!TypeOK` |
| `RoundRobin`, `BypassBounded` | `RoundRobinInv`, `BoundedBypass` |
| `HeldPointers`, `HeldStable` | `HeldInv`, `HeldEventStable` |
| `Refinement` | `PullEvents` implements `Mailbox` |
| `PushTypeCorrect`, `ClauseRunsToCatched`, `PushRefinement`, `PushGettersEmpty`, `OwnClauseUnreachable` | the same for `PushEvents` |
| `CoServerTypeCorrect`, `MarkerHonest`, `NoServerLeftBehind` | `TypeOK`, `MarkerMeansAgent` and `NoOrphanServer`, for any processes, roles and faults |
| `NobodyStranded` | `NoneStranded`, for one process that starts the agent and any number of others |
| `FiTypeCorrect`, `FiTypeAndClock`, `FiNoDropBeforeApproval`, `FiRunsInOrder` | `FiServer`, for every scenario and all programs |
| `ClockTypeCorrect`, `ClockLatestInterval`, `ClockStaysBounded`, `ClockLosesOnePhase`, `ClockRootNeverBehind` | `CkptClock`, for any phases, iterations, times and intervals |
| `JobTypeCorrect`, `JobStartAnswered`, `JobAnnouncedIsBegun`, `JobOneTornFile`, `JobScePhaseBacked` | `CkptJob`, for any torus and any number of phases, iterations and kills |
| `JobNoHaloDeadlock` | `NoHaloDeadlock`, likewise |
| `JobFailureIsFinal` | a failure that hits a job whose server has handled its event is final: why `JobRestarts` fails |
| `JobImplementsLockstep` | `CkptJob` implements `Lockstep` |
| `AddExact`, `SubExact`, `SubUndoesAdd`, `CmpExact`, `AbsExact`, `IsSetExact` | `TimeSpec`, for all times in normal form |

Assumptions: those the modules name (`N` and `MaxQueue` positive, the special
values distinct, the scenario a non-empty sequence of lines within the horizon, `Strcmp` zero exactly on equal names, the constants of
`CoServer` of their types), and for `NobodyStranded` those of the run: one process with the node
role (`OneOfTheNode`, as the role's name says), no faults, and nobody who removes
the marker (no program of the repository calls `XPTI_coserver_exec_complete`).

**Induction and recursion.**  The library's induction theorems take an operator
as a parameter, which the provers here cannot instantiate.  `RecursionLemmas` says
the same of sets: a set of numbers that has 0 and, with each number, the next,
has them all (`SetInduction`, from the least number that it has not, which
`LeastNat` gets from the well-foundedness of `<`).  What is to be shown for all
n is then `n \in S` for a set S defined by it.  `SequenceExists` is recursion: for
every step function there is a sequence that it generates.  Recursive functions
such as `Sums` and `Hops` are choices in TLA+, and the existence of one that
satisfies the equation is what makes the chosen one satisfy it (`SumsEquation`,
`HopsEquation`).

**Bounded bypass.**  `BoundedBypass` is not inductive: it does not say how far
the loop is from the waiting slot.  `RoundRobinInv` bounds `bypass[i]` by the
number of slots between the slot that answered last and `i`: whenever another
slot delivers, it lies strictly between the two, because slots probed in vain
since the scan began were empty when probed, and an event that arrived behind
the scan has bypass 0 at that time.  `ChkInSlot` reduces the loop's `%` to one
conditional subtraction, which needs the bound on `last_polling` in `TypeOK`.

**Held event.**  `HeldInv` says that while the slot is occupied both pointers
name the same slot, its buffer has been written, and no scan is running; then
no step but `PullDone` touches what the application reads, and the refinement
maps each `PollHit` to `Take`, `Publish` to `Arrive`, unsubscribing and
disconnecting to `Cancel`, `PullDone` to `Release` and all the rest to stuttering.

**Markers.**  `MarkerMeansAgent` is inductive together with "a process that can
still fork an agent has not done so", which keeps a fork from hiding an agent
that has run, and "a process with the node role that is past its own wait for the
agent has seen one, or has been misled" (`Brought`): an old marker cannot let such a
process pass.  `NoneStranded` is about the one process q that starts the agent:
until q is through `XPTI_init` its agent is not killed, since only q kills it, and by then
the marker is there (`WaitInv`).  `StepShape` first reduces all actions of `CoServer` to what they do to
one child, one process and the marker; the theorems then reason about that.

**Scenario.**  `ClockInv` says that until the application starts the timer the
start time is the one of `FI_init`, and no call has asked for moving it
(`sreset`); it is what makes `FetchEarly` impossible then, and
`NoDropBeforeApproval` inductive.  `RunsInOrder` rests on `Unread`: no line behind
the file position has been run.  `RunLineFacts` and `HandleEventFacts` state once
what one command and one event can do to timer and program; `OtherSteps` and
`ApprovalsGrow` keep the rest of the actions out of the two theorems.

**Checkpoint clock.**  `ClockBounded` needs `FitInv`: whatever time is in the
tables or under way was measured (or is still zero), so it is not above any
interval (`PhasesFit`); whatever interval is in force came from the server; and
before the first candidate has been passed there is none, so the forced first
checkpoint cannot subtract one.  `OneSubtraction` then does for the replay and for
the candidates alike.  `LatestInterval` needs
`EarlyInv`: before the process is past its wait it has no interval, and before it has
subscribed none is under way; `QueueParts` is about the two ends of the queue.

`ReplayLosesOnePhase` holds between the calls only, so `ReplayInv` follows the clock
through them: inside the replay it is the sum of the first `i` times less whole
intervals; after it, that of all but one of the candidates passed, and it stays so
while candidate after candidate adds its time (`OneMorePhase`, `AdvanceBehind`).
`PhaseOfCount` finds the phase of a candidate in its number, which is what `% NCkpt`
in the code does, and `ReplayStopsShort` that the loop ends one phase early.
A commit changes the times under the clock; the invariant survives because a
commit happens only when the clock is to be replayed anyway.

`RootNeverBehind` needs `AnnouncedInv`: whatever is under way on either
subscription, or waits at the server, is of an iteration that was announced, and
root announces only iterations it has begun.

**Job.**  `AnswerInv` ties every event that can end a rank's wait to a server that
has handled `FI_SETCKPT`.  `HaloInv` says that neighbours are at most one iteration
apart, and level once one is past its `MPI_Waitall` (`PastHalo`); root announces
behind its own, hence `AnnouncedIsBegun`, by induction over the hops.
`BeginIteration` starts from past the halo, which gives `Lockstep` its condition, and
all other steps but `Failure` stutter there.  For `NoHaloDeadlock` take the rank in
`MPI_Waitall` that is furthest behind (`LeastNat` again): the neighbour it waits for
is further behind still, so not in `MPI_Waitall`, and has not left the loop, which
ranks do with their last iteration (`DoneInv`).  `FileInv` says a file is torn only while
its rank is writing it, or for good once the job is `Over`; it needs `Over` because
a failed job leaves a torn file behind, and one torn file per rank is only the
limit because no later incarnation runs.  `SceInv` puts the opening of root's file
before that of `scephase`.

**Time macros.**  `Fields` and `Build` split a time into its two fields and put it
together again; `NormalFormUnique` makes `SubUndoesAdd` an equality of records.

Only model-checked: `RenewalApplied`, `JobFinishes`, `NoStarvation`,
`EveryonePassesTheWait`, `ScenarioEnds` and `FirstEventHandled`, because liveness under
fairness is beyond the prover.  What could go wrong in them for safety reasons is
proved where it is more than a flag: `BoundedBypass` (nobody is passed over for
ever), `NoHaloDeadlock` (the ranks do not block one another) and `NoneStranded`
(nobody waits for what never comes).

## 6. Not modelled

Logging (`SXPTI_FTB_printerror`, the `DEBUGF` family), the bootstrap address in
the environment, the declaration of publishable events, truncation of names and
payloads to FTB's field sizes, FTB, MPI and the config reader themselves, the
vendored FTB sample `toytest/tcli.c`, the interval computation of `fiserver.c`
(floating point: the models take any value), the duration of writing a checkpoint
(it feeds that computation only), the conversions between `double` and time
structures, the allocation and logging macros, and the particle arithmetic and
command line of the test programs.
