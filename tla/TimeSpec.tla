------------------------------ MODULE TimeSpec ------------------------------
(***************************************************************************)
(* The timespec arithmetic of utilmacros.h (tsclear, tsisset, tscmp,       *)
(* tsabs, tsadd, tssub).  A time is a record of whole seconds, which may   *)
(* be negative, and nanoseconds, which in normal form are below one second *)
(* and never negative, also for negative times.  Seconds are unbounded     *)
(* here: a 64-bit time_t does not overflow on any time a clock shows.      *)
(***************************************************************************)
EXTENDS Integers

Giga == 1000000000        \* nanoseconds in a second

Timespec == [sec : Int, nsec : 0 .. Giga - 1]

(* The time a timespec stands for, in nanoseconds. *)
Value(a) == a.sec * Giga + a.nsec

tsclear == [sec |-> 0, nsec |-> 0]
tsisset(a) == a.sec # 0 \/ a.nsec # 0

(* tscmp with the comparison operators its users may pass. *)
tscmp(a, b, CMP(_, _)) ==
  IF a.sec = b.sec THEN CMP(a.nsec, b.nsec) ELSE CMP(a.sec, b.sec)
tsless(a, b) == tscmp(a, b, <)
tsleq(a, b) == tscmp(a, b, <=)

tsadd(a, b) ==
  LET sec == a.sec + b.sec
      nsec == a.nsec + b.nsec
  IN  IF nsec >= Giga THEN [sec |-> sec + 1, nsec |-> nsec - Giga]
                      ELSE [sec |-> sec, nsec |-> nsec]

tssub(a, b) ==
  LET sec == a.sec - b.sec
      nsec == a.nsec - b.nsec
  IN  IF nsec < 0 THEN [sec |-> sec - 1, nsec |-> nsec + Giga]
                  ELSE [sec |-> sec, nsec |-> nsec]

tsabs(a) == IF tsless(a, tsclear) THEN tssub(tsclear, a) ELSE tssub(a, tsclear)
=============================================================================
