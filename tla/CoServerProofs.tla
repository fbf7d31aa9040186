--------------------------- MODULE CoServerProofs ---------------------------
(***************************************************************************)
(* Proofs about CoServer for any number of processes on the node, however  *)
(* their roles are given out.                                              *)
(***************************************************************************)
EXTENDS CoServer, TLAPS

USE DEF Kind, Goto, SetChild

(* The shape of the variables, which every step needs. *)
Typed ==
  /\ pc \in [Proc -> ProcState]
  /\ child \in [Kind -> [Proc -> ChildState]]
  /\ marker \in BOOLEAN
  /\ stale \in BOOLEAN
  /\ misled \in BOOLEAN

(* The life of one server process.  It is forked at one place only. *)
ForkPoint(k) == IF k = "db" THEN "exec" ELSE "agent_fork"

ChildStep(k, p) ==
  \/ child'[k][p] = child[k][p]
  \/ pc[p] = ForkPoint(k) /\ pc'[p] # pc[p] /\ child'[k][p] = "forked"
  \/ child[k][p] = "forked" /\ child'[k][p] \in {"running", "dead"}
  \/ child[k][p] = "running" /\ child'[k][p] \in {"zombie", "gone"}
  \/ child[k][p] = "zombie" /\ child'[k][p] = "gone"

(* The way of one process of the library, with what it has learnt or done. *)
PcStep(p) ==
  \/ pc'[p] = pc[p]
  \/ pc[p] = "exec" /\ pc'[p] = "db_wait" /\ child'["db"][p] = "forked"
  \/ pc[p] = "exec" /\ pc'[p] = "failed"
  \/ pc[p] \in {"exec", "db_wait"} /\ pc'[p] = AfterDb(p)
  \/ pc[p] = "agent_check" /\ pc'[p] \in {"agent_fork", "agent_wait"}
  \/ pc[p] = "agent_fork" /\ pc'[p] \in {"agent_wait", "failed"}
  \/ pc[p] = "agent_wait" /\ pc'[p] = "init" /\ (Listed("agent") \/ misled')
  \/ pc[p] = "init" /\ pc'[p] = "touch" /\ (Listed("agent") \/ misled')
  \/ pc[p] = "init" /\ pc'[p] = "init_stat"
  \/ pc[p] = "init_stat" /\ pc'[p] = "touch" /\ marker
  \/ pc[p] = "init_stat" /\ pc'[p] = "init"
  \/ pc[p] = "touch" /\ pc'[p] = "connect"
  \/ pc[p] = "connect" /\ pc'[p] \in {"connected", "unconnected"}
  \/ /\ pc[p] \in {"connected", "unconnected"} /\ pc'[p] = "kill_db"
     /\ "NODE" \in KillRole[p] => child'["agent"][p] \notin {"forked", "running"}
  \/ /\ pc[p] = "kill_db" /\ pc'[p] = "leaving"
     /\ "JOB" \in KillRole[p] => child'["db"][p] \notin {"forked", "running"}
  \/ pc[p] = "leaving" /\ pc'[p] = "exited"

MarkerStep ==
  \/ marker' \in {marker, FALSE}
  \/ marker' = TRUE /\ \E p \in Proc : pc[p] = "touch"

HistoryStep == stale' = stale /\ (misled => misled')

Shape ==
  /\ Typed'
  /\ \A k \in Kind, p \in Proc : ChildStep(k, p)
  /\ \A p \in Proc : PcStep(p)
  /\ MarkerStep
  /\ HistoryStep

(* A kill touches one child, which then neither awaits execlp nor runs. *)
LEMMA KillFacts ==
  ASSUME Typed, NEW k \in Kind, NEW p \in Proc, Kill(k, p)
  PROVE  /\ child' \in [Kind -> [Proc -> ChildState]]
         /\ child'[k][p] \notin {"forked", "running"}
         /\ \A l \in Kind, q \in Proc : ChildStep(l, q)
<1>1. CASE child[k][p] = "running"
  <2>1. PICK after \in {"zombie", "gone"} : child' = [child EXCEPT ![k][p] = after]
    BY <1>1 DEF Kill
  <2> QED
    BY <1>1, <2>1 DEF Typed, ChildState, ChildStep
<1>2. CASE child[k][p] = "forked"
  <2>1. child' = [child EXCEPT ![k][p] = "dead"]
    BY <1>2 DEF Kill
  <2> QED
    BY <1>2, <2>1 DEF Typed, ChildState, ChildStep
<1>3. CASE child[k][p] \notin {"running", "forked"}
  <2>1. child' = child
    BY <1>3 DEF Kill
  <2> QED
    BY <1>3, <2>1 DEF Typed, ChildStep
<1> QED
  BY <1>1, <1>2, <1>3

(* Every step, whichever process takes it, has this shape. *)
LEMMA StepShape ==
  ASSUME Typed, [Next]_vars
  PROVE  Shape
<1> USE DEF Shape, Typed, MarkerStep, HistoryStep
<1>1. ASSUME NEW p \in Proc, ExecFtbserver(p)
      PROVE  Shape
  <2>1. CASE "JOB" \in Role[p]
    BY <1>1, <2>1 DEF ExecFtbserver, Fork, PcStep, ChildStep, ForkPoint, ProcState, ChildState
  <2>2. CASE "JOB" \notin Role[p]
    BY <1>1, <2>2 DEF ExecFtbserver, AfterDb, PcStep, ChildStep, ProcState
  <2> QED
    BY <2>1, <2>2
<1>2. ASSUME NEW p \in Proc, AwaitFtbserver(p)
      PROVE  Shape
  BY <1>2 DEF AwaitFtbserver, Found, AfterDb, PcStep, ChildStep, ProcState
<1>3. ASSUME NEW p \in Proc, CheckAgent(p)
      PROVE  Shape
  BY <1>3 DEF CheckAgent, Found, NotFound, PcStep, ChildStep, ProcState
<1>4. ASSUME NEW p \in Proc, ExecAgent(p)
      PROVE  Shape
  BY <1>4 DEF ExecAgent, Fork, PcStep, ChildStep, ForkPoint, ProcState, ChildState
<1>5. ASSUME NEW p \in Proc, AwaitAgent(p)
      PROVE  Shape
  BY <1>5 DEF AwaitAgent, Found, PcStep, ChildStep, ProcState
<1>6. ASSUME NEW p \in Proc, InitPgrep(p)
      PROVE  Shape
  BY <1>6 DEF InitPgrep, Found, NotFound, PcStep, ChildStep, ProcState
<1>7. ASSUME NEW p \in Proc, InitStat(p)
      PROVE  Shape
  BY <1>7 DEF InitStat, PcStep, ChildStep, ProcState
<1>8. ASSUME NEW p \in Proc, Touch(p)
      PROVE  Shape
  BY <1>8 DEF Touch, PcStep, ChildStep, ProcState
<1>9. ASSUME NEW p \in Proc, Connect(p)
      PROVE  Shape
  BY <1>9 DEF Connect, PcStep, ChildStep, ProcState
<1>10. ASSUME NEW p \in Proc, KillAgent(p)
       PROVE  Shape
  <2>1. /\ marker' = marker /\ stale' = stale /\ misled' = misled
        /\ pc[p] \in {"connected", "unconnected"} /\ pc' = [pc EXCEPT ![p] = "kill_db"]
    BY <1>10 DEF KillAgent
  <2>2. CASE "NODE" \in KillRole[p]
    <3>1. Kill("agent", p)
      BY <1>10, <2>2 DEF KillAgent
    <3> QED
      BY <2>1, <3>1, KillFacts DEF PcStep, ProcState
  <2>3. CASE "NODE" \notin KillRole[p]
    BY <1>10, <2>1, <2>3 DEF KillAgent, PcStep, ChildStep, ProcState
  <2> QED
    BY <2>2, <2>3
<1>11. ASSUME NEW p \in Proc, KillFtbserver(p)
       PROVE  Shape
  <2>1. /\ marker' = marker /\ stale' = stale /\ misled' = misled
        /\ pc[p] = "kill_db" /\ pc' = [pc EXCEPT ![p] = "leaving"]
    BY <1>11 DEF KillFtbserver
  <2>2. CASE "JOB" \in KillRole[p]
    <3>1. Kill("db", p)
      BY <1>11, <2>2 DEF KillFtbserver
    <3> QED
      BY <2>1, <3>1, KillFacts DEF PcStep, ProcState
  <2>3. CASE "JOB" \notin KillRole[p]
    BY <1>11, <2>1, <2>3 DEF KillFtbserver, PcStep, ChildStep, ProcState
  <2> QED
    BY <2>2, <2>3
<1>12. ASSUME NEW p \in Proc, Exit(p)
       PROVE  Shape
  BY <1>12 DEF Exit, PcStep, ChildStep, ProcState, ChildState
<1>13. ASSUME NEW k \in Kind, NEW p \in Proc, ChildExec(k, p)
       PROVE  Shape
  BY <1>13 DEF ChildExec, PcStep, ChildStep, ChildState
<1>14. ASSUME NEW p \in Proc, ExecComplete(p)
       PROVE  Shape
  BY <1>14 DEF ExecComplete, PcStep, ChildStep
<1>15. CASE UNCHANGED vars
  BY <1>15 DEF vars, PcStep, ChildStep
<1> QED
  BY <1>1, <1>2, <1>3, <1>4, <1>5, <1>6, <1>7, <1>8, <1>9, <1>10, <1>11, <1>12,
     <1>13, <1>14, <1>15 DEF Next, Start

-----------------------------------------------------------------------------
(* Type correctness. *)
THEOREM CoServerTypeCorrect == Spec => []TypeOK
<1>1. Init => TypeOK
  <2> SUFFICES ASSUME Init
               PROVE  TypeOK
    OBVIOUS
  <2>1. /\ pc \in [Proc -> ProcState]
        /\ child \in [Kind -> [Proc -> ChildState]]
        /\ \A p \in Proc : pc[p] # "db_wait"
    BY DEF Init, ProcState, ChildState
  <2>2. marker \in BOOLEAN /\ stale \in BOOLEAN /\ misled \in BOOLEAN
    BY Zenon DEF Init
  <2> QED
    BY <2>1, <2>2 DEF TypeOK
<1>2. TypeOK /\ [Next]_vars => TypeOK'
  <2> SUFFICES ASSUME TypeOK, [Next]_vars
               PROVE  TypeOK'
    OBVIOUS
  <2>1. Typed
    BY DEF TypeOK, Typed
  <2>2. Shape
    BY <2>1, StepShape
  <2> SUFFICES ASSUME NEW p \in Proc, pc'[p] = "db_wait"
               PROVE  child'["db"][p] # "none"
    BY <2>2 DEF Shape, Typed, TypeOK
  <2>3. PcStep(p) /\ ChildStep("db", p)
    BY <2>2 DEF Shape
  <2>4. pc[p] = "db_wait" => child["db"][p] # "none"
    BY DEF TypeOK
  <2> QED
    BY <2>3, <2>4 DEF PcStep, AfterDb, ChildStep
<1> QED
  BY <1>1, <1>2, PTL DEF Spec

-----------------------------------------------------------------------------
(* A process that may still fork its agent has not forked it, so no fork   *)
(* hides an agent that has run; and a process with the node role is past   *)
(* its wait for an agent before it can read any marker.                    *)
ForkAhead(p) == pc[p] \in {"exec", "db_wait", "agent_check", "agent_fork"}

Brought(p) == pc[p] \in {"init", "init_stat"} \/ Passed(p)

MarkerInv ==
  /\ \A p \in Proc : ForkAhead(p) => child["agent"][p] = "none"
  /\ \A p \in Proc : "NODE" \in Role[p] /\ Brought(p) => AgentHasRun \/ misled
  /\ MarkerMeansAgent

(* Nobody is let through to FTB_Connect before an agent has really run or  *)
(* a failing system() was taken for one, but for a process without the     *)
(* node role that finds the marker of an earlier job.                      *)
THEOREM MarkerHonest == Spec => []MarkerMeansAgent
<1>1. Init => MarkerInv
  BY DEF Init, MarkerInv, MarkerMeansAgent, Brought, Passed
<1>2. TypeOK /\ MarkerInv /\ [Next]_vars => MarkerInv'
  <2> SUFFICES ASSUME TypeOK, MarkerInv, [Next]_vars
               PROVE  MarkerInv'
    OBVIOUS
  <2>1. Shape
    BY StepShape DEF TypeOK, Typed
  <2>2. ASSUME NEW p \in Proc, ForkAhead(p)'
        PROVE  child'["agent"][p] = "none"
    <3>1. PcStep(p) /\ ChildStep("agent", p)
      BY <2>1 DEF Shape
    <3>2. ForkAhead(p) /\ (pc[p] = "agent_fork" => pc'[p] = pc[p])
      BY <2>2, <3>1 DEF PcStep, ForkAhead, AfterDb
    <3>3. child["agent"][p] = "none"
      BY <3>2 DEF MarkerInv
    <3> QED
      BY <3>1, <3>2, <3>3 DEF ChildStep, ForkPoint
  <2>3. ASSUME AgentHasRun
        PROVE  AgentHasRun'
    <3>1. PICK q \in Proc : child["agent"][q] \in {"running", "zombie", "gone"}
      BY <2>3 DEF AgentHasRun
    <3>2. ChildStep("agent", q)
      BY <2>1 DEF Shape
    <3>3. pc[q] # "agent_fork"
      BY <3>1 DEF MarkerInv, ForkAhead
    <3> QED
      BY <3>1, <3>2, <3>3 DEF AgentHasRun, ChildStep, ForkPoint
  <2>4. Listed("agent") => AgentHasRun
    BY DEF Listed, AgentHasRun
  <2>5. stale' = stale /\ (misled => misled')
    BY <2>1 DEF Shape, HistoryStep
  <2>6. ASSUME NEW p \in Proc, "NODE" \in Role[p], Brought(p)'
        PROVE  AgentHasRun' \/ misled'
    <3>1. PcStep(p)
      BY <2>1 DEF Shape
    <3>2. Brought(p) \/ Listed("agent") \/ misled'
      BY <2>6, <3>1 DEF PcStep, AfterDb, Brought, Passed
    <3> QED
      BY <2>3, <2>4, <2>5, <2>6, <3>2 DEF MarkerInv
  <2>7. MarkerMeansAgent'
    <3> SUFFICES ASSUME ~ AgentHasRun', ~ misled'
                 PROVE  /\ marker' => stale
                        /\ \A p \in Proc : Passed(p)' => stale /\ "NODE" \notin Role[p]
      BY <2>5 DEF MarkerMeansAgent
    <3>1. /\ ~ AgentHasRun /\ ~ misled
          /\ marker => stale
          /\ \A p \in Proc : Passed(p) => stale /\ "NODE" \notin Role[p]
      BY <2>3, <2>5 DEF MarkerInv, MarkerMeansAgent
    <3>2. marker' => stale
      BY <2>1, <3>1 DEF Shape, MarkerStep, Passed
    <3>3. ASSUME NEW p \in Proc, Passed(p)'
          PROVE  stale /\ "NODE" \notin Role[p]
      <4>1. PcStep(p)
        BY <2>1 DEF Shape
      <4>2. Passed(p) \/ (pc[p] = "init_stat" /\ marker)
        BY <2>4, <3>1, <3>3, <4>1 DEF PcStep, AfterDb, Passed
      <4>3. CASE pc[p] = "init_stat" /\ marker
        BY <3>1, <4>3 DEF MarkerInv, Brought
      <4> QED
        BY <3>1, <4>2, <4>3
    <3> QED
      BY <3>2, <3>3
  <2> QED
    BY <2>2, <2>6, <2>7 DEF MarkerInv
<1>3. MarkerInv => MarkerMeansAgent
  BY DEF MarkerInv
<1> QED
  BY <1>1, <1>2, <1>3, CoServerTypeCorrect, PTL DEF Spec

-----------------------------------------------------------------------------
(* What a process that is ending its servers has already ended. *)
KilledInv ==
  \A p \in Proc :
    /\ pc[p] \in {"kill_db", "leaving", "exited"} /\ "NODE" \in KillRole[p]
         => child["agent"][p] \notin {"forked", "running"}
    /\ pc[p] \in {"leaving", "exited"} /\ "JOB" \in KillRole[p]
         => child["db"][p] \notin {"forked", "running"}

(* After XPTI_killnwait_coserver no server the process forked, of the roles *)
(* it was called for, is left,                                              *)
(* whatever fails or is stale.                                             *)
THEOREM NoServerLeftBehind == Spec => []NoOrphanServer
<1>1. Init => KilledInv
  BY DEF Init, KilledInv
<1>2. TypeOK /\ KilledInv /\ [Next]_vars => KilledInv'
  <2> SUFFICES ASSUME TypeOK, KilledInv, [Next]_vars, NEW p \in Proc
               PROVE  /\ pc'[p] \in {"kill_db", "leaving", "exited"} /\ "NODE" \in KillRole[p]
                           => child'["agent"][p] \notin {"forked", "running"}
                      /\ pc'[p] \in {"leaving", "exited"} /\ "JOB" \in KillRole[p]
                           => child'["db"][p] \notin {"forked", "running"}
    BY DEF KilledInv
  <2>1. PcStep(p) /\ ChildStep("agent", p) /\ ChildStep("db", p)
    BY StepShape DEF TypeOK, Typed, Shape
  <2> QED
    BY <2>1 DEF KilledInv, PcStep, AfterDb, ChildStep, ForkPoint
<1>3. KilledInv => NoOrphanServer
  BY DEF KilledInv, NoOrphanServer, RoleOf
<1> QED
  BY <1>1, <1>2, <1>3, CoServerTypeCorrect, PTL DEF Spec

-----------------------------------------------------------------------------
(* With the one process q that starts the agent: the child it waits for is *)
(* not killed before q is connected, and by then the marker is there.      *)
WaitInv(q) ==
  /\ \A p \in Proc : pc[p] = "db_wait" => child["db"][p] \in {"forked", "running"}
  /\ \A p \in Proc \ {q} : pc[p] \notin {"agent_check", "agent_fork", "agent_wait"}
  /\ \A p \in Proc \ {q} : child["agent"][p] = "none"
  /\ pc[q] \in {"exec", "db_wait", "agent_check", "agent_fork"}
       => child["agent"][q] = "none"
  /\ pc[q] \in {"agent_wait", "init", "init_stat", "touch"}
       => child["agent"][q] \in {"forked", "running"}
  /\ pc[q] \in {"connect", "connected", "unconnected", "kill_db", "leaving", "exited"} => marker
  /\ pc[q] # "failed"

LEMMA WaitStep ==
  ASSUME NEW q \in Proc, \A p \in Proc : "NODE" \in Role[p] <=> p = q,
         Faults = {}, Completers = {}, Typed, WaitInv(q), [Next]_vars
  PROVE  WaitInv(q)'
<1>1. ASSUME NEW p \in Proc, ExecFtbserver(p)
      PROVE  WaitInv(q)'
  BY <1>1 DEF Typed, WaitInv, ExecFtbserver, AfterDb, Fork
<1>2. ASSUME NEW p \in Proc, AwaitFtbserver(p)
      PROVE  WaitInv(q)'
  BY <1>2 DEF Typed, WaitInv, AwaitFtbserver, AfterDb
<1>3. ASSUME NEW p \in Proc, CheckAgent(p)
      PROVE  WaitInv(q)'
  <2>1. p = q /\ ~ Found("agent")
    BY <1>3 DEF Typed, WaitInv, CheckAgent, Found, Listed
  <2>2. QED
    BY <1>3, <2>1 DEF Typed, WaitInv, CheckAgent
<1>4. ASSUME NEW p \in Proc, ExecAgent(p)
      PROVE  WaitInv(q)'
  BY <1>4 DEF Typed, WaitInv, ExecAgent, Fork
<1>5. ASSUME NEW p \in Proc, \/ AwaitAgent(p) \/ InitPgrep(p) \/ InitStat(p)
                            \/ Connect(p)
      PROVE  WaitInv(q)'
  BY <1>5 DEF Typed, WaitInv, AwaitAgent, InitPgrep, InitStat, Connect
<1>6. ASSUME NEW p \in Proc, Touch(p)
      PROVE  WaitInv(q)'
  BY <1>6 DEF Typed, WaitInv, Touch
<1>7. ASSUME NEW p \in Proc, ExecComplete(p)
      PROVE  FALSE
  BY <1>7 DEF ExecComplete
<1>8. ASSUME NEW p \in Proc, KillAgent(p) \/ KillFtbserver(p)
      PROVE  WaitInv(q)'
  BY <1>8 DEF Typed, WaitInv, KillAgent, KillFtbserver, Kill
<1>9. ASSUME NEW p \in Proc, Exit(p)
      PROVE  WaitInv(q)'
  BY <1>9 DEF Typed, WaitInv, Exit
<1>10. ASSUME NEW k \in Kind, NEW p \in Proc, ChildExec(k, p)
       PROVE  WaitInv(q)'
  BY <1>10 DEF Typed, WaitInv, ChildExec
<1>11. CASE UNCHANGED vars
  BY <1>11 DEF WaitInv, vars
<1>12. QED
  BY <1>1, <1>2, <1>3, <1>4, <1>5, <1>6, <1>7, <1>8, <1>9, <1>10, <1>11
     DEF Next, Start

(* No process waits for a server or a marker that never comes, if nothing  *)
(* around it fails, one process of the node starts the agent and no        *)
(* program removes the marker.                                             *)
THEOREM NobodyStranded ==
  ASSUME OneOfTheNode, Faults = {}, Completers = {}
  PROVE  Spec => []NoneStranded
<1>1. PICK q \in Proc : \A p \in Proc : "NODE" \in Role[p] <=> p = q
  BY DEF OneOfTheNode
<1>2. Init => WaitInv(q)
  BY DEF Init, WaitInv
<1>3. TypeOK /\ WaitInv(q) /\ [Next]_vars => WaitInv(q)'
  BY <1>1, WaitStep DEF TypeOK, Typed
<1>4. TypeOK /\ WaitInv(q) => NoneStranded
  <2> SUFFICES ASSUME TypeOK, WaitInv(q), NEW p \in Proc
               PROVE  /\ pc[p] = "db_wait"
                           => child["db"][p] \in {"forked", "running"}
                      /\ pc[p] = "agent_wait"
                           => child["agent"][p] \in {"forked", "running"}
                      /\ pc[p] \in {"init", "init_stat"}
                           => marker \/ \E r \in Proc : BringsAgent(r)
    BY DEF NoneStranded
  <2>1. pc[p] = "db_wait" => child["db"][p] \in {"forked", "running"}
    BY DEF WaitInv
  <2>2. pc[p] = "agent_wait" => child["agent"][p] \in {"forked", "running"}
    BY DEF WaitInv
  <2>3. marker \/ BringsAgent(q)
    <3>1. pc[q] \in ProcState
      BY DEF TypeOK
    <3>2. "NODE" \in Role[q]
      BY <1>1
    <3>3. QED
      BY <3>1, <3>2 DEF ProcState, WaitInv, BringsAgent
  <2>4. QED
    BY <2>1, <2>2, <2>3
<1>5. QED
  BY <1>2, <1>3, <1>4, CoServerTypeCorrect, PTL DEF Spec
=============================================================================
