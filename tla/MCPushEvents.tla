---------------------------- MODULE MCPushEvents ----------------------------
(* Small instances of PushEvents for TLC.  Names are numbers: EVENT1,      *)
(* EVENT2, ... of the usage comment differ in their last character only.   *)
EXTENDS PushEvents

(* The two results C libraries give: the difference of the first differing *)
(* bytes, or its sign.                                                     *)
ByteDifference(a, b) == a - b

SignOfDifference(a, b) == IF a < b THEN -1 ELSE IF a > b THEN 1 ELSE 0

UsageClauses == <<1, 2>>
=============================================================================
