----------------------------- MODULE MCCoServer -----------------------------
(* Small instances of CoServer for TLC: a server process that starts both  *)
(* co-servers, clients that start none, and a second process that was also *)
(* given the node role.                                                    *)
EXTENDS CoServer

OneNodeRole ==
  [p \in Proc |-> IF p = "srv" THEN {"JOB", "NODE"} ELSE {}]

TwoNodeRoles ==
  [p \in Proc |-> CASE p = "srv" -> {"JOB", "NODE"}
                    [] p = "peer" -> {"NODE"}
                    [] OTHER -> {}]

(* What the test programs pass to XPTI_killnwait_coserver: the server both *)
(* roles, a client the node role although it has started nothing.          *)
TestKills ==
  [p \in Proc |-> IF p = "srv" THEN {"JOB", "NODE"} ELSE {"NODE"}]
=============================================================================
