----------------------------- MODULE MCFiServer -----------------------------
(* Small instances of FiServer for TLC: scenario files and programs. *)
EXTENDS FiServer

Cmd(t, c) == [at |-> t, cmd |-> c, arg |-> 0]
SetTick(t, n) == [at |-> t, cmd |-> "BLT_SETTICK", arg |-> n]

(* Settings at time 0, two failures within a tick, one later. *)
TwoFailures ==
  <<Cmd(0, "BLT_FAILURERATE"), SetTick(0, 2), Cmd(0, "BLT_STARTTICK"),
    Cmd(3, "FI_FAILURE"), Cmd(4, "FI_FAILURE")>>

(* The timer is left to the application. *)
NoStartTick == <<SetTick(0, 1), Cmd(2, "FI_FAILURE"), Cmd(4, "BLT_FAILURERATE")>>

(* The timer is started and nothing else happens. *)
OnlyStartTick == <<Cmd(0, "BLT_STARTTICK")>>

(* What the test application publishes; an application that starts the     *)
(* timer; one that reports checkpoint times; one that ends the server.     *)
TestAppli == <<"FI_TIMESTAMP", "FI_SETCKPT", "FI_RESTART_READY", "FI_LASTLINE">>
TimedAppli == <<"FI_TIMERSTART", "FI_TIMESTAMP">>
CkptAppli == <<"FI_SETCKPT", "FI_RESTART_READY", "FI_CKPTTIME", "FI_LASTLINE">>
EndingAppli == <<"FI_FINISH_ALL">>

AllPrograms == {TestAppli, TimedAppli, CkptAppli, EndingAppli}
TestProgram == {TestAppli}
TimedProgram == {TimedAppli}
=============================================================================
