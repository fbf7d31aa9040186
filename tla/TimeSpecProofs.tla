--------------------------- MODULE TimeSpecProofs ---------------------------
(* What the timespec macros compute, for every time. *)
EXTENDS TimeSpec, TLAPS

LEMMA GigaNat == Giga \in Nat /\ Giga > 0
BY SMT DEF Giga

LEMMA Fields ==
  ASSUME NEW a \in Timespec
  PROVE  /\ a.sec \in Int
         /\ a.nsec \in Int /\ 0 <= a.nsec /\ a.nsec < Giga
         /\ a = [sec |-> a.sec, nsec |-> a.nsec]
BY GigaNat DEF Timespec

LEMMA Build ==
  ASSUME NEW s \in Int, NEW n \in Int, 0 <= n, n < Giga
  PROVE  [sec |-> s, nsec |-> n] \in Timespec
BY GigaNat DEF Timespec

LEMMA ValueInt ==
  ASSUME NEW a \in Timespec
  PROVE  Value(a) \in Int
BY Fields, SMT DEF Value, Giga

(* A sum of two times in normal form is in normal form: one carry is       *)
(* enough, and it is the exact sum.                                        *)
THEOREM AddExact ==
  ASSUME NEW a \in Timespec, NEW b \in Timespec
  PROVE  /\ tsadd(a, b) \in Timespec
         /\ Value(tsadd(a, b)) = Value(a) + Value(b)
<1>1. /\ a.sec \in Int /\ a.nsec \in Int /\ 0 <= a.nsec /\ a.nsec < Giga
      /\ b.sec \in Int /\ b.nsec \in Int /\ 0 <= b.nsec /\ b.nsec < Giga
  BY Fields
<1>2. CASE a.nsec + b.nsec >= Giga
  <2>1. tsadd(a, b) = [sec |-> a.sec + b.sec + 1,
                       nsec |-> a.nsec + b.nsec - Giga]
    BY <1>1, <1>2, GigaNat DEF tsadd
  <2>2. tsadd(a, b) \in Timespec
    BY <1>1, <1>2, <2>1, GigaNat, Build
  <2>3. Value(tsadd(a, b)) = Value(a) + Value(b)
    BY <1>1, <1>2, <2>1, SMT DEF Value, Giga
  <2>4. QED
    BY <2>2, <2>3
<1>3. CASE ~ (a.nsec + b.nsec >= Giga)
  <2>1. tsadd(a, b) = [sec |-> a.sec + b.sec, nsec |-> a.nsec + b.nsec]
    BY <1>1, <1>3, GigaNat DEF tsadd
  <2>2. tsadd(a, b) \in Timespec
    BY <1>1, <1>3, <2>1, GigaNat, Build
  <2>3. Value(tsadd(a, b)) = Value(a) + Value(b)
    BY <1>1, <1>3, <2>1, SMT DEF Value, Giga
  <2>4. QED
    BY <2>2, <2>3
<1>4. QED
  BY <1>2, <1>3

(* The same for a difference, also one below zero. *)
THEOREM SubExact ==
  ASSUME NEW a \in Timespec, NEW b \in Timespec
  PROVE  /\ tssub(a, b) \in Timespec
         /\ Value(tssub(a, b)) = Value(a) - Value(b)
<1>1. /\ a.sec \in Int /\ a.nsec \in Int /\ 0 <= a.nsec /\ a.nsec < Giga
      /\ b.sec \in Int /\ b.nsec \in Int /\ 0 <= b.nsec /\ b.nsec < Giga
  BY Fields
<1>2. CASE a.nsec - b.nsec < 0
  <2>1. tssub(a, b) = [sec |-> a.sec - b.sec - 1,
                       nsec |-> a.nsec - b.nsec + Giga]
    BY <1>2 DEF tssub
  <2>2. tssub(a, b) \in Timespec
    BY <1>1, <1>2, <2>1, GigaNat, Build
  <2>3. Value(tssub(a, b)) = Value(a) - Value(b)
    BY <1>1, <1>2, <2>1, SMT DEF Value, Giga
  <2>4. QED
    BY <2>2, <2>3
<1>3. CASE ~ (a.nsec - b.nsec < 0)
  <2>1. tssub(a, b) = [sec |-> a.sec - b.sec, nsec |-> a.nsec - b.nsec]
    BY <1>3 DEF tssub
  <2>2. tssub(a, b) \in Timespec
    BY <1>1, <1>3, <2>1, GigaNat, Build
  <2>3. Value(tssub(a, b)) = Value(a) - Value(b)
    BY <1>1, <1>3, <2>1, SMT DEF Value, Giga
  <2>4. QED
    BY <2>2, <2>3
<1>4. QED
  BY <1>2, <1>3

(* A time has one normal form. *)
LEMMA NormalFormUnique ==
  ASSUME NEW a \in Timespec, NEW b \in Timespec, Value(a) = Value(b)
  PROVE  a = b
<1>1. /\ a.sec \in Int /\ a.nsec \in Int /\ 0 <= a.nsec /\ a.nsec < Giga
      /\ b.sec \in Int /\ b.nsec \in Int /\ 0 <= b.nsec /\ b.nsec < Giga
  BY Fields
<1>2. a.sec * Giga + a.nsec = b.sec * Giga + b.nsec
  BY DEF Value
<1>3. ~ (a.sec < b.sec) /\ ~ (b.sec < a.sec)
  BY <1>1, <1>2, SMT DEF Giga
<1>4. a.sec = b.sec /\ a.nsec = b.nsec
  BY <1>1, <1>2, <1>3, SMT DEF Giga
<1>5. a = [sec |-> a.sec, nsec |-> a.nsec] /\ b = [sec |-> b.sec, nsec |-> b.nsec]
  BY Fields
<1>6. QED
  BY <1>4, <1>5

(* tssub undoes tsadd, field for field. *)
THEOREM SubUndoesAdd ==
  ASSUME NEW a \in Timespec, NEW b \in Timespec
  PROVE  tssub(tsadd(a, b), b) = a
<1>1. /\ tsadd(a, b) \in Timespec
      /\ Value(tsadd(a, b)) = Value(a) + Value(b)
  BY AddExact
<1>2. /\ tssub(tsadd(a, b), b) \in Timespec
      /\ Value(tssub(tsadd(a, b), b)) = Value(tsadd(a, b)) - Value(b)
  BY <1>1, SubExact
<1>3. Value(a) \in Int /\ Value(b) \in Int
  BY ValueInt
<1>4. Value(tssub(tsadd(a, b), b)) = Value(a)
  BY <1>1, <1>2, <1>3
<1>5. QED
  BY <1>2, <1>4, NormalFormUnique

(* Comparing seconds, and nanoseconds only on equal seconds, is comparing  *)
(* the times, negative ones included.                                      *)
THEOREM CmpExact ==
  ASSUME NEW a \in Timespec, NEW b \in Timespec
  PROVE  /\ tsless(a, b) <=> Value(a) < Value(b)
         /\ tsleq(a, b) <=> Value(a) <= Value(b)
<1>1. /\ a.sec \in Int /\ a.nsec \in Int /\ 0 <= a.nsec /\ a.nsec < Giga
      /\ b.sec \in Int /\ b.nsec \in Int /\ 0 <= b.nsec /\ b.nsec < Giga
  BY Fields
<1>2. CASE a.sec = b.sec
  BY <1>1, <1>2, SMT DEF tsless, tsleq, tscmp, Value, Giga
<1>3. CASE a.sec # b.sec
  BY <1>1, <1>3, SMT DEF tsless, tsleq, tscmp, Value, Giga
<1>4. QED
  BY <1>2, <1>3

(* tsabs yields the size of a time, in normal form. *)
THEOREM AbsExact ==
  ASSUME NEW a \in Timespec
  PROVE  /\ tsabs(a) \in Timespec
         /\ Value(tsabs(a)) = IF Value(a) < 0 THEN 0 - Value(a) ELSE Value(a)
<1>1. tsclear \in Timespec /\ Value(tsclear) = 0
  BY GigaNat, Build DEF tsclear, Value
<1>2. Value(a) \in Int
  BY ValueInt
<1>3. tsless(a, tsclear) <=> Value(a) < 0
  BY <1>1, CmpExact
<1>4. /\ tssub(tsclear, a) \in Timespec
      /\ Value(tssub(tsclear, a)) = 0 - Value(a)
  BY <1>1, SubExact
<1>5. /\ tssub(a, tsclear) \in Timespec
      /\ Value(tssub(a, tsclear)) = Value(a) - 0
  BY <1>1, SubExact
<1>6. QED
  BY <1>2, <1>3, <1>4, <1>5 DEF tsabs

(* tsisset tells the zero time from all others, and only it. *)
THEOREM IsSetExact ==
  ASSUME NEW a \in Timespec
  PROVE  tsisset(a) <=> Value(a) # 0
<1>1. a.sec \in Int /\ a.nsec \in Int /\ 0 <= a.nsec /\ a.nsec < Giga
  BY Fields
<1>2. QED
  BY <1>1, SMT DEF tsisset, Value, Giga
=============================================================================
