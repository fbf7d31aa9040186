------------------------------ MODULE CoServer ------------------------------
(***************************************************************************)
(* Start, use and end of the co-servers on one node (xpti/ftb/xptftb.c):   *)
(* the FTB database server, one per job, and the FTB agent, one per node.  *)
(* Every process of the node that uses the library may be asked to start   *)
(* them; all wait until pgrep lists an agent, or until a marker file named *)
(* after the host shows that some process has got past that wait.          *)
(***************************************************************************)
EXTENDS Integers

CONSTANTS
  Proc,        \* the processes of the node that call the library
  Role,        \* the role each passes to XPTI_exec_coserver
  KillRole,    \* the role each passes to XPTI_killnwait_coserver in the end
  Completers,  \* the processes that call XPTI_coserver_exec_complete
  Faults       \* what may go wrong around them

Kind == {"db", "agent"}
RoleOf == [k \in Kind |-> IF k = "db" THEN "JOB" ELSE "NODE"]
AllFaults == {"ForkFails", "ExecFails", "PgrepFails"}

ASSUME RoleAssumption == Role \in [Proc -> SUBSET {"JOB", "NODE"}]
ASSUME KillRoleAssumption == KillRole \in [Proc -> SUBSET {"JOB", "NODE"}]
ASSUME CompletersAssumption == Completers \subseteq Proc
ASSUME FaultsAssumption == Faults \subseteq AllFaults

VARIABLES
  pc,      \* where each process is
  child,   \* the state of the server of each kind that a process forked
  marker,  \* the file named after the host exists
  stale,   \* history: it was there from the beginning, left by another job
  misled   \* history: a failing system() was taken for an agent

vars == <<pc, child, marker, stale, misled>>

(* "forked" has not called execlp yet, "dead" ended without ever having    *)
(* done so; a "zombie" is a killed server its parent has not waited for.   *)
ChildState == {"none", "forked", "dead", "running", "zombie", "gone"}

ProcState == {"exec", "db_wait", "agent_check", "agent_fork", "agent_wait",
              "init", "init_stat", "touch", "connect", "connected",
              "unconnected", "kill_db", "leaving", "exited", "failed"}

-----------------------------------------------------------------------------
Init ==
  /\ pc = [p \in Proc |-> "exec"]
  /\ child = [k \in Kind |-> [p \in Proc |-> "none"]]
  /\ stale \in BOOLEAN
  /\ marker = stale
  /\ misled = FALSE

Goto(p, where) == pc' = [pc EXCEPT ![p] = where]

SetChild(k, p, state) == child' = [child EXCEPT ![k][p] = state]

(* pgrep matches the name of a process image, also a zombie's, but not the *)
(* forked copy of the parent.                                              *)
Listed(k) == \E p \in Proc : child[k][p] \in {"running", "zombie"}

(* SXPTI_FTB_exist_programs, taken for true: its -1, when system() fails,  *)
(* is not zero either.                                                     *)
Found(k) ==
  \/ Listed(k) /\ UNCHANGED misled
  \/ "PgrepFails" \in Faults /\ misled' = (misled \/ k = "agent")

(* The same, taken for false. *)
NotFound(k) == ~ Listed(k) /\ UNCHANGED misled

-----------------------------------------------------------------------------
(* fork() of a server.  When it fails the process exits at once.           *)
Fork(k, p, next) ==
  \/ /\ SetChild(k, p, "forked")
     /\ Goto(p, next)
  \/ /\ "ForkFails" \in Faults
     /\ Goto(p, "failed")
     /\ UNCHANGED child

(* The child's side: it becomes the server, or execlp fails and it exits.  *)
ChildExec(k, p) ==
  /\ child[k][p] = "forked"
  /\ \/ SetChild(k, p, "running")
     \/ "ExecFails" \in Faults /\ SetChild(k, p, "dead")
  /\ UNCHANGED <<pc, marker, stale, misled>>

(* XPTI_exec_coserver: the database server first, then the agent. *)
AfterDb(p) == IF "NODE" \in Role[p] THEN "agent_check" ELSE "init"

(* Mutant of ExecFtbserver: the pid of the child is lost. *)
ExecFtbserver_PidLost(p) ==
  /\ pc[p] = "exec"
  /\ IF "JOB" \in Role[p] THEN Goto(p, "db_wait") ELSE Goto(p, AfterDb(p))
  /\ UNCHANGED <<child, marker, stale, misled>>

ExecFtbserver(p) ==
  /\ pc[p] = "exec"
  /\ IF "JOB" \in Role[p]
       THEN Fork("db", p, "db_wait")
       ELSE Goto(p, AfterDb(p)) /\ UNCHANGED child
  /\ UNCHANGED <<marker, stale, misled>>

(* The loop around pgrep; while it finds nothing the process sleeps. *)
AwaitFtbserver(p) ==
  /\ pc[p] = "db_wait"
  /\ Found("db")
  /\ Goto(p, AfterDb(p))
  /\ UNCHANGED <<child, marker, stale>>

(* SXPTI_exec_agent skips the fork when there is an agent already. *)
CheckAgent(p) ==
  /\ pc[p] = "agent_check"
  /\ \/ Found("agent") /\ Goto(p, "agent_wait")
     \/ NotFound("agent") /\ Goto(p, "agent_fork")
  /\ UNCHANGED <<child, marker, stale>>

ExecAgent(p) ==
  /\ pc[p] = "agent_fork"
  /\ Fork("agent", p, "agent_wait")
  /\ UNCHANGED <<marker, stale, misled>>

AwaitAgent(p) ==
  /\ pc[p] = "agent_wait"
  /\ Found("agent")
  /\ Goto(p, "init")
  /\ UNCHANGED <<child, marker, stale>>

-----------------------------------------------------------------------------
(* Mutant of InitPgrep: the loop of XPTI_init is an if. *)
InitPgrep_Once(p) ==
  /\ pc[p] = "init"
  /\ Goto(p, "touch")
  /\ UNCHANGED <<child, marker, stale, misled>>

(* XPTI_init waits for an agent or, failing that, for the marker. *)
InitPgrep(p) ==
  /\ pc[p] = "init"
  /\ \/ Found("agent") /\ Goto(p, "touch")
     \/ NotFound("agent") /\ Goto(p, "init_stat")
  /\ UNCHANGED <<child, marker, stale>>

(* Mutant of InitStat: the marker is looked for under another name. *)
InitStat_OtherName(p) ==
  /\ pc[p] = "init_stat"
  /\ Goto(p, "init")
  /\ UNCHANGED <<child, marker, stale, misled>>

InitStat(p) ==
  /\ pc[p] = "init_stat"
  /\ Goto(p, IF marker THEN "touch" ELSE "init")
  /\ UNCHANGED <<child, marker, stale, misled>>

(* Mutant of Touch: no marker is left. *)
Touch_Omitted(p) ==
  /\ pc[p] = "touch"
  /\ Goto(p, "connect")
  /\ UNCHANGED <<child, marker, stale, misled>>

Touch(p) ==
  /\ pc[p] = "touch"
  /\ marker' = TRUE
  /\ Goto(p, "connect")
  /\ UNCHANGED <<child, stale, misled>>

(* FTB_Connect can only succeed while an agent runs, and may fail then,    *)
(* too.  XPTI_init returns what it answers; no caller looks at it, and the *)
(* process goes on, connected or not.                                      *)
Connect(p) ==
  /\ pc[p] = "connect"
  /\ \/ (\E q \in Proc : child["agent"][q] = "running") /\ Goto(p, "connected")
     \/ Goto(p, "unconnected")
  /\ UNCHANGED <<child, marker, stale, misled>>

-----------------------------------------------------------------------------
(* XPTI_coserver_exec_complete removes the marker; the program decides     *)
(* when, and no program in the repository calls it.                        *)
ExecComplete(p) ==
  /\ pc[p] \in {"connected", "unconnected"}
  /\ p \in Completers
  /\ marker' = FALSE
  /\ UNCHANGED <<pc, child, stale, misled>>

(* Mutant of Kill: only a server that pgrep would list is killed. *)
Kill_ListedOnly(k, p) ==
  IF child[k][p] = "running"
    THEN \E after \in {"zombie", "gone"} : SetChild(k, p, after)
    ELSE UNCHANGED child

(* SIGKILL and waitpid(WNOHANG), which comes too late or too early. *)
Kill(k, p) ==
  CASE child[k][p] = "running" -> \E after \in {"zombie", "gone"} : SetChild(k, p, after)
    [] child[k][p] = "forked"  -> SetChild(k, p, "dead")
    [] OTHER                   -> UNCHANGED child

(* XPTI_killnwait_coserver: what its role argument says, the agent first.  *)
KillAgent(p) ==
  /\ pc[p] \in {"connected", "unconnected"}
  /\ KillRole[p] # {}
  /\ IF "NODE" \in KillRole[p] THEN Kill("agent", p) ELSE UNCHANGED child
  /\ Goto(p, "kill_db")
  /\ UNCHANGED <<marker, stale, misled>>

KillFtbserver(p) ==
  /\ pc[p] = "kill_db"
  /\ IF "JOB" \in KillRole[p] THEN Kill("db", p) ELSE UNCHANGED child
  /\ Goto(p, "leaving")
  /\ UNCHANGED <<marker, stale, misled>>

(* The process exits; the system waits for the zombies it leaves. *)
Exit(p) ==
  /\ pc[p] = "leaving"
  /\ Goto(p, "exited")
  /\ child' = [k \in Kind |-> [child[k] EXCEPT ![p] = IF @ = "zombie" THEN "gone" ELSE @]]
  /\ UNCHANGED <<marker, stale, misled>>

(* The way of one process to the end of XPTI_init. *)
Start(p) ==
  \/ ExecFtbserver(p) \/ AwaitFtbserver(p)
  \/ CheckAgent(p) \/ ExecAgent(p) \/ AwaitAgent(p)
  \/ InitPgrep(p) \/ InitStat(p) \/ Touch(p) \/ Connect(p)

Next ==
  \/ \E p \in Proc : Start(p) \/ ExecComplete(p) \/ KillAgent(p) \/ KillFtbserver(p) \/ Exit(p)
  \/ \E k \in Kind, p \in Proc : ChildExec(k, p)

Spec == Init /\ [][Next]_vars

(* Processes and forked children are scheduled; a process need not leave.  *)
Fairness ==
  /\ \A p \in Proc : WF_vars(Start(p))
  /\ \A k \in Kind, p \in Proc : WF_vars(ChildExec(k, p))

FairSpec == Spec /\ Fairness

-----------------------------------------------------------------------------
(* Every variable has its type, and a process waits for a database server  *)
(* only after it has forked one.                                           *)
TypeOK ==
  /\ pc \in [Proc -> ProcState]
  /\ child \in [Kind -> [Proc -> ChildState]]
  /\ marker \in BOOLEAN
  /\ stale \in BOOLEAN
  /\ misled \in BOOLEAN
  /\ \A p \in Proc : pc[p] = "db_wait" => child["db"][p] # "none"

(* Some agent has run: what the marker file stands for. *)
AgentHasRun == \E p \in Proc : child["agent"][p] \in {"running", "zombie", "gone"}

(* The process has got past the wait of XPTI_init, connected or not. *)
Passed(p) ==
  pc[p] \in {"touch", "connect", "connected", "unconnected", "kill_db",
             "leaving", "exited"}

(* A process gets past the wait of XPTI_init only if some agent has really *)
(* been started, however forks, execs, checks and kills of the processes   *)
(* interleave, unless a failing system() has been taken for an agent       *)
(* before, or the marker of an earlier job was there and it is not one of  *)
(* the processes that have to bring the agent up themselves.  Likewise for *)
(* the marker that it leaves.                                              *)
MarkerMeansAgent ==
  AgentHasRun \/ misled
    \/ /\ marker => stale
       /\ \A p \in Proc : Passed(p) => stale /\ "NODE" \notin Role[p]

(* XPTI_killnwait_coserver leaves no server of the calling process and of  *)
(* the roles it was called for behind, not even one that had not got to    *)
(* execlp when the process stopped waiting because another process's       *)
(* server was listed.                                                      *)
NoOrphanServer ==
  \A k \in Kind, p \in Proc :
    pc[p] \in {"leaving", "exited"} /\ RoleOf[k] \in KillRole[p]
      => child[k][p] \notin {"forked", "running"}

(* As the role's name says, one process of the node starts the agent. *)
OneOfTheNode == \E q \in Proc : \A p \in Proc : "NODE" \in Role[p] <=> p = q

(* A process that has an agent to start, or has started one that is not    *)
(* killed yet.                                                             *)
BringsAgent(q) ==
  \/ "NODE" \in Role[q] /\ pc[q] \in {"exec", "db_wait", "agent_check", "agent_fork"}
  \/ child["agent"][q] \in {"forked", "running"}

(* No process waits for what never comes.  Who waits for a database server *)
(* has a child that is or becomes one; who waits for its agent, likewise;  *)
(* who looks for an agent or its marker in turn, never both at once, finds *)
(* the marker or an agent that is still to be killed, or one comes.        *)
NoneStranded ==
  \A p \in Proc :
    /\ pc[p] = "db_wait" => child["db"][p] \in {"forked", "running"}
    /\ pc[p] = "agent_wait" => child["agent"][p] \in {"forked", "running"}
    /\ pc[p] \in {"init", "init_stat"}
         => marker \/ \E q \in Proc : BringsAgent(q)

(* Every process gets past the wait of XPTI_init, even one that looks for  *)
(* an agent only after the process that started it has killed it again:    *)
(* the marker stays.  FTB_Connect then fails for that one.                 *)
EveryonePassesTheWait == \A p \in Proc : <>Passed(p)
=============================================================================
