---------------------------- MODULE MCCkptClock ----------------------------
(* Two phases of one or two units, a short and a long interval. *)
EXTENDS CkptClock

MCDuration == {1, 2}
MCInterval == {2, 11}
=============================================================================
