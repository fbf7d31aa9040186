--------------------------- MODULE RecursionLemmas ---------------------------
(***************************************************************************)
(* Induction over the natural numbers without an operator parameter: what  *)
(* is shown for every number is a set of numbers.  From it, that running   *)
(* sums exist, and the arithmetic of phases counted through iterations.    *)
(***************************************************************************)
EXTENDS Integers, WellFoundedInduction, TLAPS

(* Every non-empty set of natural numbers has a least element. *)
LEMMA LeastNat ==
  ASSUME NEW T \in SUBSET Nat, T # {}
  PROVE  \E x \in T : \A y \in T : x <= y
<1> DEFINE R == OpToRel(<, Nat)
<1>1. IsWellFoundedOn(R, Nat)
  BY NatLessThanWellFounded
<1>2. \A x, y \in Nat : <<y, x>> \in R <=> y < x
  BY DEF OpToRel
<1> HIDE DEF R
<1>3. \E x \in T : \A y \in T : ~ (<<y, x>> \in R)
  BY <1>1, WFMin
<1>4. PICK x \in T : \A y \in T : ~ (<<y, x>> \in R)
  BY <1>3
<1>5. \A y \in T : ~ (y < x)
  BY <1>2, <1>4
<1>6. QED
  BY <1>5

(* A set of natural numbers with zero and every successor is all of them. *)
LEMMA SetInduction ==
  ASSUME NEW S, 0 \in S, \A n \in Nat : n \in S => n + 1 \in S
  PROVE  Nat \subseteq S
<1> SUFFICES ASSUME Nat \ S # {}
             PROVE  FALSE
  OBVIOUS
<1>1. PICK x \in Nat \ S : \A y \in Nat \ S : x <= y
  BY LeastNat
<1>2. x # 0 /\ x - 1 \in Nat /\ ~ (x <= x - 1)
  BY <1>1
<1>3. x - 1 \in S
  BY <1>1, <1>2
<1>4. (x - 1) + 1 \in S
  BY <1>2, <1>3
<1>5. (x - 1) + 1 = x
  BY <1>1
<1>6. QED
  BY <1>1, <1>4, <1>5

-----------------------------------------------------------------------------
(* Phases are counted through the iterations: after a of them, at phase p, *)
(* the count is a * n + p, and the phase is what is left of it.            *)
LEMMA PhaseOfCount ==
  ASSUME NEW n \in Nat \ {0}, NEW p \in 0 .. n - 1, NEW a \in Nat
  PROVE  a * n + p \in Nat /\ (a * n + p) % n = p
<1> DEFINE c == a * n + p
           q == c \div n
           r == c % n
<1>1. a * n \in Nat
  OBVIOUS
<1>2. c \in Nat
  BY <1>1
<1>3. q \in Int /\ r \in 0 .. n - 1 /\ c = n * q + r
  BY <1>2
<1>4. a * n + p = n * q + r
  BY <1>3
<1> HIDE DEF c, q, r
<1>5. CASE q <= a - 1
  <2>1. n * q <= n * (a - 1)
    BY <1>3, <1>5
  <2>2. n * (a - 1) = a * n - n
    OBVIOUS
  <2>3. n * q \in Int
    BY <1>3
  <2>4. QED
    BY <1>1, <1>3, <1>4, <2>1, <2>2, <2>3
<1>6. CASE q >= a + 1
  <2>1. n * q >= n * (a + 1)
    BY <1>3, <1>6
  <2>2. n * (a + 1) = a * n + n
    OBVIOUS
  <2>3. n * q \in Int
    BY <1>3
  <2>4. QED
    BY <1>1, <1>3, <1>4, <2>1, <2>2, <2>3
<1>7. CASE q = a
  <2>1. n * q = a * n
    BY <1>3, <1>7
  <2>2. r = p
    BY <1>1, <1>3, <1>4, <2>1
  <2>3. QED
    BY <1>2, <2>2 DEF c, r
<1>8. QED
  BY <1>3, <1>5, <1>6, <1>7

-----------------------------------------------------------------------------
(* The first n steps of a sequence that F generates from v. *)
Starts(s, v, F, n) ==
  s[0] = v /\ \A k \in 0 .. n - 1 : s[k + 1] = F[k][s[k]]

(* Two such sequences are the same as far as both go. *)
LEMMA StartsAgree ==
  ASSUME NEW v, NEW F, NEW m \in Nat, NEW n \in Nat, NEW s, NEW t,
         Starts(s, v, F, m), Starts(t, v, F, n)
  PROVE  \A k \in Nat : k <= m /\ k <= n => s[k] = t[k]
<1> DEFINE S == {k \in Nat : k <= m /\ k <= n => s[k] = t[k]}
<1>1. 0 \in S
  BY DEF Starts
<1>2. ASSUME NEW k \in Nat, k \in S
      PROVE  k + 1 \in S
  <2>1. CASE k + 1 <= m /\ k + 1 <= n
    <3>1. s[k] = t[k] /\ k \in 0 .. m - 1 /\ k \in 0 .. n - 1
      BY <1>2, <2>1
    <3>2. s[k + 1] = F[k][s[k]] /\ t[k + 1] = F[k][t[k]]
      BY <3>1 DEF Starts
    <3>3. s[k + 1] = t[k + 1]
      BY <3>1, <3>2, Zenon
    <3>4. QED
      BY <3>3
  <2>2. QED
    BY <2>1
<1> HIDE DEF S
<1>3. Nat \subseteq S
  BY <1>1, <1>2, SetInduction
<1>4. QED
  BY <1>3 DEF S

LEMMA StartsExist ==
  ASSUME NEW V, NEW v \in V, NEW F \in [Nat -> [V -> V]]
  PROVE  \A n \in Nat : \E s \in [Nat -> V] : Starts(s, v, F, n)
<1> DEFINE S == {n \in Nat : \E s \in [Nat -> V] : Starts(s, v, F, n)}
<1>1. 0 \in S
  <2> DEFINE s == [k \in Nat |-> v]
  <2>1. s \in [Nat -> V] /\ s[0] = v
    OBVIOUS
  <2> HIDE DEF s
  <2>2. Starts(s, v, F, 0)
    BY <2>1 DEF Starts
  <2>3. QED
    BY <2>1, <2>2
<1>2. ASSUME NEW n \in Nat, n \in S
      PROVE  n + 1 \in S
  <2>1. PICK s \in [Nat -> V] : Starts(s, v, F, n)
    BY <1>2
  <2> DEFINE t == [k \in Nat |-> IF k = n + 1 THEN F[n][s[n]] ELSE s[k]]
  <2>2. F[n][s[n]] \in V
    <3>1. s[n] \in V
      OBVIOUS
    <3>2. QED
      BY <3>1
  <2>3. t \in [Nat -> V]
    BY <2>2
  <2>4. t[n + 1] = F[n][s[n]] /\ \A k \in 0 .. n : t[k] = s[k]
    OBVIOUS
  <2> HIDE DEF t
  <2>8. t[0] = v
    <3>1. 0 \in 0 .. n
      OBVIOUS
    <3>2. QED
      BY <2>1, <2>4, <3>1 DEF Starts
  <2>5. ASSUME NEW k \in 0 .. (n + 1) - 1
        PROVE  t[k + 1] = F[k][t[k]]
    <3>1. CASE k = n
      BY <2>4, <3>1
    <3>2. CASE k # n
      <4>1. k \in 0 .. n - 1 /\ k \in 0 .. n /\ k + 1 \in 0 .. n
        BY <3>2
      <4>2. s[k + 1] = F[k][s[k]]
        BY <2>1, <4>1 DEF Starts
      <4>3. QED
        BY <2>4, <4>1, <4>2, Zenon
    <3>3. QED
      BY <3>1, <3>2
  <2>6. Starts(t, v, F, n + 1)
    BY <2>8, <2>5 DEF Starts
  <2>7. QED
    BY <2>3, <2>6
<1> HIDE DEF S
<1>3. Nat \subseteq S
  BY <1>1, <1>2, SetInduction
<1>4. QED
  BY <1>3 DEF S

(* s begins with v and goes on from s[k] to s[k + 1] by the function F[k]. *)
Generates(F, v, V, s) ==
  /\ s \in [Nat -> V]
  /\ s[0] = v
  /\ \A k \in Nat : s[k + 1] = F[k][s[k]]

(* Recursion over the natural numbers: every such F generates a sequence. *)
LEMMA SequenceExists ==
  ASSUME NEW V, NEW v, NEW F, v \in V, F \in [Nat -> [V -> V]]
  PROVE  \E s : Generates(F, v, V, s)
<1> DEFINE part(n) == CHOOSE s \in [Nat -> V] : Starts(s, v, F, n)
<1>1. ASSUME NEW n \in Nat
      PROVE  part(n) \in [Nat -> V] /\ Starts(part(n), v, F, n)
  BY StartsExist
<1> HIDE DEF part
<1> DEFINE s == [n \in Nat |-> part(n)[n]]
<1>2. s \in [Nat -> V]
  BY <1>1
<1>3. s[0] = v
  BY <1>1 DEF Starts
<1>4. ASSUME NEW k \in Nat
      PROVE  s[k + 1] = F[k][s[k]]
  <2>1. Starts(part(k), v, F, k) /\ Starts(part(k + 1), v, F, k + 1)
    BY <1>1
  <2>2. part(k + 1)[k] = part(k)[k]
    BY <2>1, StartsAgree
  <2>3. part(k + 1)[k + 1] = F[k][part(k + 1)[k]]
    BY <2>1 DEF Starts
  <2>4. QED
    BY <2>2, <2>3
<1> HIDE DEF s
<1>5. Generates(F, v, V, s)
  BY <1>2, <1>3, <1>4 DEF Generates
<1>6. QED
  BY <1>5
=============================================================================
