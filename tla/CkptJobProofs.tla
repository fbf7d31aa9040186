--------------------------- MODULE CkptJobProofs ---------------------------
(* Theorems about CkptJob, for every torus, number of iterations, phases   *)
(* and failures.                                                           *)
EXTENDS CkptJob, RecursionLemmas, TLAPS

USE SizeAssumption, StepsAssumption, NCkptAssumption, HaloPhaseAssumption,
    MaxKillsAssumption

LEMMA SizeSquared == N \in Nat /\ N > 0
BY DEF N

LEMMA RootIsRank == Root \in Rank
BY SizeSquared DEF Rank, Root

LEMMA PhaseZero == 0 \in Phase
BY DEF Phase

(* The torus arithmetic of main stays among the ranks. *)
LEMMA NeighboursAreRanks ==
  ASSUME NEW r \in Rank
  PROVE  Neighbours(r) \subseteq Rank
<1>1. r \in Int /\ 0 <= r /\ r < N
  BY SizeSquared DEF Rank
<1>2. (r - Size + N) % N \in Rank /\ (r + Size + N) % N \in Rank
  BY <1>1, SizeSquared DEF Rank
<1> DEFINE row == r \div Size
<1>3. row \in Int /\ 0 <= row /\ row < Size
  <2>1. row \in Int /\ Size * row <= r /\ r < Size * row + Size
    BY <1>1
  <2>2. r < Size * Size
    BY <1>1 DEF N
  <2>3. 0 <= row
    BY <2>1, <1>1
  <2>4. row < Size
    <3>1. SUFFICES ASSUME Size <= row
                   PROVE  FALSE
      BY <2>1
    <3> HIDE DEF row
    <3>2. Size * Size <= Size * row
      BY <3>1, <2>1
    <3>3. QED
      BY <3>2, <2>1, <2>2, <1>1
  <2>5. QED
    BY <2>1, <2>3, <2>4
<1>4. ASSUME NEW m \in Int, 0 <= m, m < Size
      PROVE  m + row * Size \in Rank
  <2> HIDE DEF row
  <2>1. row * Size \in Int /\ 0 <= row * Size
    BY <1>3
  <2>2. row * Size <= Size * Size - Size
    <3>1. row <= Size - 1
      BY <1>3
    <3>2. row * Size <= (Size - 1) * Size
      BY <3>1, <1>3
    <3>3. QED
      BY <3>2, <1>3
  <2>3. QED
    BY <1>4, <2>1, <2>2, SizeSquared DEF Rank, N
<1>5. /\ (r - 1 + Size) % Size \in Int
      /\ 0 <= (r - 1 + Size) % Size /\ (r - 1 + Size) % Size < Size
      /\ (r + 1 + Size) % Size \in Int
      /\ 0 <= (r + 1 + Size) % Size /\ (r + 1 + Size) % Size < Size
  BY <1>1
<1>6. /\ ((r - 1 + Size) % Size) + row * Size \in Rank
      /\ ((r + 1 + Size) % Size) + row * Size \in Rank
  BY <1>4, <1>5
<1>7. QED
  BY <1>2, <1>6 DEF Neighbours
-----------------------------------------------------------------------------
(* What the part of a step behind XPT_CP_ckpt does to the types. *)
LEMMA AfterCkptType ==
  ASSUME TypeOK, NEW r \in Rank, pc[r] \in {"ckpt", "write"}, AfterCkpt(r)
  PROVE  /\ pc' \in [Rank -> {"start", "greet", "ask", "wait", "top", "halo",
                             "ckpt", "sce", "sceopen", "write", "done"}]
         /\ \A q \in Rank :
              pc'[q] \in {"greet", "ask", "sce", "sceopen"} => q = Root
         /\ phase' \in [Rank -> Phase]
         /\ inbox' \in [Rank -> SUBSET {"XPT_SRV2CLI", "XPT_TOALL"}]
         /\ term' \in [Phase -> BOOLEAN]
         /\ told' \in -1 .. Steps - 1
<1>1. /\ pc' \in [Rank -> {"start", "greet", "ask", "wait", "top", "halo",
                           "ckpt", "sce", "sceopen", "write", "done"}]
      /\ \A q \in Rank :
           pc'[q] \in {"greet", "ask", "sce", "sceopen"} => q = Root
  BY DEF TypeOK, AfterCkpt, Towards
<1>2. phase' \in [Rank -> Phase]
  <2>1. phase[r] + 1 < NCkpt => phase[r] + 1 \in Phase
    BY DEF TypeOK, Phase
  <2>2. QED
    BY <2>1 DEF TypeOK, AfterCkpt
<1>3. /\ inbox' \in [Rank -> SUBSET {"XPT_SRV2CLI", "XPT_TOALL"}]
      /\ term' \in [Phase -> BOOLEAN]
      /\ told' \in -1 .. Steps - 1
  <2>1. CASE PostexecSends(r)
    BY <2>1 DEF TypeOK, PostexecSends, Deliver
  <2>2. CASE PostexecSilent(r)
    BY <2>2 DEF TypeOK, PostexecSilent
  <2>3. QED
    BY <2>1, <2>2 DEF AfterCkpt
<1>4. QED
  BY <1>1, <1>2, <1>3

LEMMA TypeInit == Init => TypeOK
BY PhaseZero DEF Init, TypeOK, Empty, NoFile, Signal

LEMMA TypeStep == TypeOK /\ [Next]_vars => TypeOK'
<1> SUFFICES ASSUME TypeOK, [Next]_vars
             PROVE  TypeOK'
  OBVIOUS
<1> USE RootIsRank
<1>1. ASSUME NEW r \in Rank, CliInit(r)
      PROVE  TypeOK'
  BY <1>1 DEF TypeOK, CliInit, files, server
<1>2. ASSUME NEW r \in Rank, ReadyWait(r)
      PROVE  TypeOK'
  BY <1>2 DEF TypeOK, ReadyWait, files, Signal
<1>3. ASSUME NEW r \in Rank, BeginIteration(r)
      PROVE  TypeOK'
  BY <1>3, PhaseZero DEF TypeOK, BeginIteration, Towards, files, server
<1>4. ASSUME NEW r \in Rank, LoopEnds(r)
      PROVE  TypeOK'
  BY <1>4 DEF TypeOK, LoopEnds, files, server
<1>5. ASSUME NEW r \in Rank, Waitall(r)
      PROVE  TypeOK'
  BY <1>5 DEF TypeOK, Waitall, files, server
<1>6. ASSUME NEW r \in Rank, PassCandidate(r)
      PROVE  TypeOK'
  <2>1. pc[r] \in {"ckpt", "write"} /\ AfterCkpt(r)
    BY <1>6 DEF PassCandidate
  <2>2. QED
    BY <1>6, <2>1, AfterCkptType DEF TypeOK, PassCandidate, files, server
<1>7. ASSUME NEW r \in Rank, OpenCkpt(r)
      PROVE  TypeOK'
  <2>1. LateNow(r) \in BOOLEAN
    BY DEF LateNow, TypeOK
  <2>2. QED
    BY <1>7, <2>1 DEF TypeOK, OpenCkpt, server
<1>8. ASSUME NEW r \in Rank, CloseCkpt(r)
      PROVE  TypeOK'
  <2>1. pc[r] \in {"ckpt", "write"} /\ AfterCkpt(r)
    BY <1>8 DEF CloseCkpt
  <2>2. QED
    BY <1>8, <2>1, AfterCkptType DEF TypeOK, CloseCkpt, server
<1>9. CASE Greet \/ Ask
  <2>1. "FI_TIMESTAMP" \in Signal /\ "FI_SETCKPT" \in Signal
    BY DEF Signal
  <2>2. mail' \in Seq(Signal)
    <3>1. mail \in Seq(Signal)
      BY DEF TypeOK
    <3>2. /\ Append(mail, "FI_TIMESTAMP") \in Seq(Signal)
          /\ Append(mail, "FI_SETCKPT") \in Seq(Signal)
      BY <2>1, <3>1
    <3>3. mail' \in {mail, Append(mail, "FI_TIMESTAMP"), Append(mail, "FI_SETCKPT")}
      BY <1>9 DEF Greet, Ask
    <3>4. QED
      BY <3>1, <3>2, <3>3
  <2>3. CASE Greet
    BY <2>2, <2>3 DEF TypeOK, Greet, files
  <2>4. CASE Ask
    BY <2>2, <2>4 DEF TypeOK, Ask, files
  <2>5. QED
    BY <1>9, <2>3, <2>4
<1>10. CASE OpenSce
  BY <1>10 DEF TypeOK, OpenSce, server, Empty
<1>11. CASE CloseSce
  BY <1>11 DEF TypeOK, CloseSce, server
<1>12. CASE ServerTakes
  <2>1. slot' \in Signal /\ mail' \in Seq(Signal)
    BY <1>12 DEF ServerTakes, TypeOK
  <2>2. inbox' \in [Rank -> SUBSET {"XPT_SRV2CLI", "XPT_TOALL"}]
    BY <1>12 DEF ServerTakes, Deliver, TypeOK
  <2>3. QED
    BY <1>12, <2>1, <2>2 DEF TypeOK, ServerTakes, files
<1>13. CASE Failure
  BY <1>13, PhaseZero DEF TypeOK, Failure, files, server
<1>14. CASE UNCHANGED vars
  BY <1>14 DEF TypeOK, vars, files, server
<1>15. QED
  BY <1>1, <1>2, <1>3, <1>4, <1>5, <1>6, <1>7, <1>8, <1>9, <1>10, <1>11,
     <1>12, <1>13, <1>14 DEF Next, RankStep, RootStep

(* Every variable keeps its type. *)
THEOREM JobTypeCorrect == Spec => []TypeOK
BY TypeInit, TypeStep, PTL DEF Spec

-----------------------------------------------------------------------------
(* Nobody has anything to run on before the server has answered. *)
AnswerInv ==
  \A r \in Rank : Running(r) \/ inbox[r] # {} => slot = "FI_SETCKPT"

LEMMA AnswerStep == TypeOK /\ AnswerInv /\ [Next]_vars => AnswerInv'
<1> SUFFICES ASSUME TypeOK, AnswerInv, [Next]_vars
             PROVE  AnswerInv'
  OBVIOUS
<1> USE RootIsRank
<1>1. ASSUME NEW r \in Rank, CliInit(r)
      PROVE  AnswerInv'
  BY <1>1 DEF TypeOK, AnswerInv, Running, CliInit, server
<1>2. ASSUME NEW r \in Rank, ReadyWait(r)
      PROVE  AnswerInv'
  BY <1>2 DEF TypeOK, AnswerInv, Running, ReadyWait
<1>3. ASSUME NEW r \in Rank, \/ BeginIteration(r) \/ LoopEnds(r)
                            \/ Waitall(r) \/ OpenCkpt(r)
      PROVE  AnswerInv'
  BY <1>3 DEF TypeOK, AnswerInv, Running, BeginIteration, LoopEnds, Waitall,
              OpenCkpt, server
<1>4. ASSUME NEW r \in Rank, PassCandidate(r) \/ CloseCkpt(r)
      PROVE  AnswerInv'
  <2>1. slot = "FI_SETCKPT" /\ slot' = slot
    BY <1>4 DEF AnswerInv, Running, PassCandidate, CloseCkpt, server
  <2>2. QED
    BY <2>1 DEF AnswerInv
<1>5. CASE RootStep
  BY <1>5 DEF TypeOK, AnswerInv, Running, RootStep, Greet, Ask, OpenSce, CloseSce,
              server
<1>6. CASE ServerTakes
  BY <1>6 DEF TypeOK, AnswerInv, Running, ServerTakes, Signal
<1>7. CASE Failure
  BY <1>7 DEF AnswerInv, Running, Failure
<1>8. CASE UNCHANGED vars
  BY <1>8 DEF AnswerInv, Running, vars, server
<1>9. QED
  BY <1>1, <1>2, <1>3, <1>4, <1>5, <1>6, <1>7, <1>8 DEF Next, RankStep

LEMMA AnswerAlways == Spec => [](TypeOK /\ AnswerInv)
<1>1. Init => AnswerInv
  BY DEF Init, AnswerInv, Running
<1>2. QED
  BY <1>1, TypeInit, TypeStep, AnswerStep, PTL DEF Spec

(* No rank of any incarnation runs before the server has its tables. *)
THEOREM JobStartAnswered == Spec => []StartAnswered
<1>1. AnswerInv => StartAnswered
  BY DEF AnswerInv, StartAnswered
<1>2. QED
  BY <1>1, AnswerAlways, PTL

-----------------------------------------------------------------------------
(* Ranks that are not between the head of the loop and its MPI_Waitall. *)
PastHalo(r) ==
  \/ pc[r] \in {"start", "greet", "ask", "wait", "top", "done"}
  \/ pc[r] \in {"ckpt", "sce", "sceopen", "write"} /\ HaloPhase <= phase[r]

(* Neighbours are at most an iteration apart, and not behind a rank that   *)
(* has heard from them; what root has announced they have begun.           *)
HaloInv ==
  /\ \A r \in Rank : \A q \in Neighbours(r) :
       /\ iter[r] <= iter[q] + 1
       /\ PastHalo(r) => iter[r] <= iter[q]
  /\ \A q \in Neighbours(Root) : told <= iter[q]

(* Steps that leave the iterations alone and take nobody past the halo. *)
LEMMA HaloKept ==
  ASSUME HaloInv, iter' = iter, told' = told,
         \A r \in Rank : PastHalo(r)' => PastHalo(r)
  PROVE  HaloInv'
BY DEF HaloInv, PastHalo

LEMMA AfterCkptHalo ==
  ASSUME TypeOK, HaloInv, NEW r \in Rank, pc[r] \in {"ckpt", "write"},
         AfterCkpt(r), iter' = iter
  PROVE  HaloInv'
<1>1. phase[r] \in Phase
  BY DEF TypeOK
<1>2. ASSUME NEW q \in Rank
      PROVE  PastHalo(q)' => PastHalo(q)
  BY <1>1 DEF AfterCkpt, PastHalo, Towards, TypeOK, Phase
<1>3. CASE PostexecSilent(r)
  BY <1>2, <1>3, HaloKept DEF PostexecSilent
<1>4. CASE PostexecSends(r)
  <2>1. PastHalo(Root) /\ told' = iter[Root]
    BY <1>1, <1>4 DEF PostexecSends, PastHalo, Phase
  <2>2. \A q \in Neighbours(Root) : told' <= iter'[q]
    BY <2>1, RootIsRank DEF HaloInv
  <2>3. QED
    BY <1>2, <2>2 DEF HaloInv, PastHalo
<1>5. QED
  BY <1>3, <1>4 DEF AfterCkpt

LEMMA HaloStep == TypeOK /\ HaloInv /\ [Next]_vars => HaloInv'
<1> SUFFICES ASSUME TypeOK, HaloInv, [Next]_vars
             PROVE  HaloInv'
  OBVIOUS
<1> USE RootIsRank
<1>1. ASSUME NEW r \in Rank, CliInit(r) \/ ReadyWait(r) \/ LoopEnds(r)
                            \/ OpenCkpt(r)
      PROVE  HaloInv'
  <2>1. iter' = iter /\ told' = told
    BY <1>1 DEF CliInit, ReadyWait, LoopEnds, OpenCkpt
  <2>2. \A q \in Rank : PastHalo(q)' => PastHalo(q)
    BY <1>1 DEF TypeOK, PastHalo, CliInit, ReadyWait, LoopEnds, OpenCkpt
  <2>3. QED
    BY <2>1, <2>2, HaloKept
<1>2. ASSUME NEW r \in Rank, BeginIteration(r)
      PROVE  HaloInv'
  <2>1. /\ iter[r] \in Int /\ iter' = [iter EXCEPT ![r] = iter[r] + 1]
        /\ \A q \in Rank : iter[q] \in Int /\ iter'[q] \in Int
                          /\ iter[q] <= iter'[q]
        /\ told' = told /\ PastHalo(r)
    BY <1>2 DEF TypeOK, BeginIteration, PastHalo
  <2>2. ~ PastHalo(r)'
    BY <1>2 DEF TypeOK, BeginIteration, PastHalo, Towards
  <2>3. \A q \in Rank \ {r} : /\ PastHalo(q)' <=> PastHalo(q)
                             /\ iter'[q] = iter[q]
    BY <1>2 DEF TypeOK, BeginIteration, PastHalo
  <2>4. \A p \in Rank : \A q \in Neighbours(p) :
          /\ iter'[p] <= iter'[q] + 1
          /\ PastHalo(p)' => iter'[p] <= iter'[q]
    <3>1. SUFFICES ASSUME NEW p \in Rank, NEW q \in Neighbours(p)
                   PROVE  /\ iter'[p] <= iter'[q] + 1
                          /\ PastHalo(p)' => iter'[p] <= iter'[q]
      OBVIOUS
    <3>2. q \in Rank
      BY NeighboursAreRanks
    <3>3. CASE p = r
      BY <2>1, <2>2, <3>2, <3>3 DEF HaloInv, TypeOK
    <3>4. CASE p # r
      BY <2>1, <2>3, <3>2, <3>4 DEF HaloInv
    <3>5. QED
      BY <3>3, <3>4
  <2>5. \A q \in Neighbours(Root) : told' <= iter'[q]
    <3>1. SUFFICES ASSUME NEW q \in Neighbours(Root)
                   PROVE  told <= iter'[q]
      BY <2>1
    <3>2. q \in Rank /\ told <= iter[q] /\ told \in Int
      BY NeighboursAreRanks DEF HaloInv, TypeOK
    <3>3. QED
      BY <2>1, <3>2
  <2>6. QED
    BY <2>4, <2>5 DEF HaloInv, PastHalo
<1>3. ASSUME NEW r \in Rank, Waitall(r)
      PROVE  HaloInv'
  <2>1. iter' = iter /\ told' = told
    BY <1>3 DEF Waitall
  <2>2. \A q \in Rank \ {r} : PastHalo(q)' <=> PastHalo(q)
    BY <1>3 DEF TypeOK, Waitall, PastHalo
  <2>3. \A q \in Neighbours(r) : iter[r] <= iter[q]
    BY <1>3 DEF Waitall
  <2>4. QED
    BY <2>1, <2>2, <2>3 DEF HaloInv, PastHalo
<1>4. ASSUME NEW r \in Rank, PassCandidate(r) \/ CloseCkpt(r)
      PROVE  HaloInv'
  BY <1>4, AfterCkptHalo DEF PassCandidate, CloseCkpt
<1>5. CASE RootStep
  <2>1. iter' = iter /\ told' = told
    BY <1>5 DEF RootStep, Greet, Ask, OpenSce, CloseSce
  <2>2. \A q \in Rank : PastHalo(q)' => PastHalo(q)
    BY <1>5 DEF TypeOK, PastHalo, RootStep, Greet, Ask, OpenSce, CloseSce
  <2>3. QED
    BY <2>1, <2>2, HaloKept
<1>6. CASE ServerTakes \/ UNCHANGED vars
  <2>1. iter' = iter /\ told' = told /\ pc' = pc /\ phase' = phase
    BY <1>6 DEF ServerTakes, vars
  <2>2. QED
    BY <2>1, HaloKept DEF PastHalo
<1>7. CASE Failure
  <2>1. /\ iter' = [r \in Rank |-> -1] /\ told' = -1
        /\ pc' = [r \in Rank |-> "start"]
    BY <1>7 DEF Failure
  <2>2. QED
    BY <2>1, NeighboursAreRanks DEF HaloInv, PastHalo
<1>8. QED
  BY <1>1, <1>2, <1>3, <1>4, <1>5, <1>6, <1>7 DEF Next, RankStep

LEMMA HaloAlways == Spec => [](TypeOK /\ HaloInv)
<1>1. Init => HaloInv
  BY NeighboursAreRanks, RootIsRank DEF Init, HaloInv, PastHalo
<1>2. QED
  BY <1>1, TypeInit, TypeStep, HaloStep, PTL DEF Spec

(* The recursive function Hops is what its equation says. *)
LEMMA HopsEquation ==
  /\ Hops[0] = {Root}
  /\ \A h \in Nat : /\ Hops[h] \subseteq Rank
                    /\ Hops[h + 1] = UNION {Neighbours(q) : q \in Hops[h]}
<1> DEFINE Around(S) == UNION {Neighbours(q) : q \in S}
           F == [h \in Nat |-> [S \in SUBSET Rank |-> Around(S)]]
           Eq(g) == g = [h \in Nat |-> IF h = 0 THEN {Root}
                                       ELSE UNION {Neighbours(q) : q \in g[h - 1]}]
<1>1. ASSUME NEW S \in SUBSET Rank
      PROVE  Around(S) \in SUBSET Rank
  BY NeighboursAreRanks
<1> HIDE DEF Around
<1>2. /\ F \in [Nat -> [SUBSET Rank -> SUBSET Rank]]
      /\ \A h \in Nat, S \in SUBSET Rank : F[h][S] = Around(S)
  BY <1>1
<1> HIDE DEF F
<1>3. PICK s : Generates(F, {Root}, SUBSET Rank, s)
  <2>1. {Root} \in SUBSET Rank
    BY RootIsRank
  <2>2. QED
    BY <1>2, <2>1, SequenceExists
<1>4. /\ s \in [Nat -> SUBSET Rank] /\ s[0] = {Root}
      /\ \A h \in Nat : s[h + 1] = Around(s[h])
  BY <1>2, <1>3 DEF Generates
<1>5. Eq(s)
  <2>1. ASSUME NEW h \in Nat
        PROVE  s[h] = IF h = 0 THEN {Root} ELSE Around(s[h - 1])
    <3>1. CASE h = 0
      BY <1>4, <3>1
    <3>2. CASE h # 0
      <4>1. h - 1 \in Nat /\ (h - 1) + 1 = h
        BY <3>2
      <4>2. s[(h - 1) + 1] = Around(s[h - 1])
        BY <1>4, <4>1
      <4>3. QED
        BY <3>2, <4>1, <4>2
    <3>3. QED
      BY <3>1, <3>2
  <2>2. QED
    BY <1>4, <2>1 DEF Around
<1>6. Eq(Hops)
  <2>1. Hops = CHOOSE g : Eq(g)
    BY DEF Hops
  <2> HIDE DEF Eq
  <2>2. QED
    BY <1>5, <2>1
<1>7. /\ Hops[0] = {Root}
      /\ \A h \in Nat : Hops[h + 1] = Around(Hops[h])
  <2>1. Hops = [h \in Nat |-> IF h = 0 THEN {Root} ELSE Around(Hops[h - 1])]
    BY <1>6 DEF Around
  <2>2. Hops[0] = {Root}
    BY <2>1
  <2>3. ASSUME NEW h \in Nat
        PROVE  Hops[h + 1] = Around(Hops[h])
    <3>1. h + 1 \in Nat /\ h + 1 # 0 /\ (h + 1) - 1 = h
      OBVIOUS
    <3>2. Hops[h + 1] = Around(Hops[(h + 1) - 1])
      BY <2>1, <3>1
    <3>3. QED
      BY <3>1, <3>2
  <2>4. QED
    BY <2>2, <2>3
<1> HIDE DEF Eq
<1>8. \A h \in Nat : Hops[h] \in SUBSET Rank
  <2> DEFINE S == {h \in Nat : Hops[h] \in SUBSET Rank}
  <2>1. 0 \in S
    BY <1>7, RootIsRank
  <2>2. ASSUME NEW h \in Nat, h \in S
        PROVE  h + 1 \in S
    BY <1>1, <1>7, <2>2
  <2> HIDE DEF S
  <2>3. Nat \subseteq S
    BY <2>1, <2>2, SetInduction
  <2>4. QED
    BY <2>3 DEF S
<1>9. QED
  BY <1>7, <1>8 DEF Around

(* A rank h hops from root has begun the announced iteration but for h - 1 *)
(* iterations, whatever the torus and however far it is.                   *)
THEOREM JobAnnouncedIsBegun == Spec => []AnnouncedIsBegun
<1>1. TypeOK /\ HaloInv => AnnouncedIsBegun
  <2> SUFFICES ASSUME TypeOK, HaloInv
               PROVE  AnnouncedIsBegun
    OBVIOUS
  <2> DEFINE S == {h \in Nat : \A r \in Hops[h + 1] : told <= iter[r] + h}
  <2>1. told \in Int /\ \A r \in Rank : iter[r] \in Int
    BY DEF TypeOK
  <2>2. 0 \in S
    <3>1. Hops[0 + 1] = Neighbours(Root)
      <4>1. Hops[0 + 1] = UNION {Neighbours(q) : q \in Hops[0]}
        BY HopsEquation
      <4>2. Hops[0] = {Root}
        BY HopsEquation
      <4>3. QED
        BY <4>1, <4>2
    <3>2. ASSUME NEW r \in Hops[0 + 1]
          PROVE  told <= iter[r] + 0
      <4>1. r \in Rank /\ told <= iter[r]
        BY <3>1, NeighboursAreRanks, RootIsRank DEF HaloInv
      <4>2. QED
        BY <2>1, <4>1
    <3>3. QED
      BY <3>2
  <2>3. ASSUME NEW h \in Nat, h \in S
        PROVE  h + 1 \in S
    <3>1. ASSUME NEW r \in Hops[(h + 1) + 1]
          PROVE  told <= iter[r] + (h + 1)
      <4>1. PICK q \in Hops[h + 1] : r \in Neighbours(q)
        BY HopsEquation
      <4>2. q \in Rank /\ r \in Rank
        BY <4>1, HopsEquation, NeighboursAreRanks
      <4>3. iter[q] <= iter[r] + 1
        BY <4>1, <4>2 DEF HaloInv
      <4>4. told <= iter[q] + h
        BY <2>3, <4>1
      <4>5. QED
        BY <2>1, <4>2, <4>3, <4>4
    <3>2. QED
      BY <3>1
  <2> HIDE DEF S
  <2>4. Nat \subseteq S
    BY <2>2, <2>3, SetInduction
  <2>5. ASSUME NEW h \in 1 .. N, NEW r \in Hops[h]
        PROVE  told <= iter[r] + h - 1
    <3>1. h - 1 \in Nat /\ (h - 1) + 1 = h
      BY SizeSquared
    <3>2. h - 1 \in S
      BY <2>4, <3>1
    <3>3. told <= iter[r] + (h - 1)
      BY <3>1, <3>2 DEF S
    <3>4. r \in Rank
      BY HopsEquation, SizeSquared
    <3>5. QED
      BY <2>1, <3>1, <3>3, <3>4
  <2>6. QED
    BY <2>5 DEF AnnouncedIsBegun
<1>2. QED
  BY <1>1, HaloAlways, PTL

-----------------------------------------------------------------------------
(* The server has handled its one event and nobody is left to run: the     *)
(* state in which a job that had been running stays after a failure.       *)
Over ==
  /\ slot # "none"
  /\ \A r \in Rank : ~ Running(r) /\ inbox[r] = {}

Writing(r) == pc[r] \in {"sce", "sceopen", "write"}

(* A file is torn while it is written, or for good. *)
FileInv ==
  /\ \A r \in Rank : Writing(r) => ck[r][phase[r]] = "torn"
  /\ \A r \in Rank, q \in Phase :
       ck[r][q] = "torn" => Over \/ (Writing(r) /\ phase[r] = q)
  /\ OneTornFile

(* scephase is written while root's file is open. *)
SceInv ==
  /\ Writing(Root) => ck[Root][phase[Root]] # "none"
  /\ ScePhaseBacked

LEMMA OverStays == TypeOK /\ Over /\ [Next]_vars => Over'
<1> SUFFICES ASSUME TypeOK, Over, [Next]_vars
             PROVE  Over'
  OBVIOUS
<1> USE RootIsRank
<1>1. ASSUME NEW r \in Rank, CliInit(r)
      PROVE  Over'
  BY <1>1 DEF TypeOK, Over, Running, CliInit, server
<1>2. ASSUME NEW r \in Rank, RankStep(r), ~ CliInit(r)
      PROVE  FALSE
  BY <1>2 DEF Over, Running, RankStep, ReadyWait, BeginIteration, LoopEnds,
              Waitall, PassCandidate, OpenCkpt, CloseCkpt
<1>3. CASE RootStep
  BY <1>3 DEF TypeOK, Over, Running, RootStep, Greet, Ask, OpenSce, CloseSce, server
<1>4. CASE ServerTakes
  BY <1>4 DEF Over, ServerTakes
<1>5. CASE Failure
  BY <1>5 DEF Over, Running, Failure, server
<1>6. CASE UNCHANGED vars
  BY <1>6 DEF Over, Running, vars, server
<1>7. QED
  BY <1>1, <1>2, <1>3, <1>4, <1>5, <1>6 DEF Next

(* Steps that leave the files and who writes them alone. *)
LEMMA FilesKept ==
  ASSUME TypeOK, FileInv, SceInv, [Next]_vars, ck' = ck, scephase' = scephase,
         \A r \in Rank : /\ Writing(r)' <=> Writing(r)
                         /\ Writing(r) => phase'[r] = phase[r]
  PROVE  FileInv' /\ SceInv'
<1>1. Over => Over'
  BY OverStays
<1>2. \A r \in Rank : Writing(r)' => Writing(r) /\ phase'[r] = phase[r]
  OBVIOUS
<1>3. (\A r \in Rank : Writing(r) => ck[r][phase[r]] = "torn")'
  BY <1>2 DEF FileInv
<1>4. (\A r \in Rank, q \in Phase :
         ck[r][q] = "torn" => Over \/ (Writing(r) /\ phase[r] = q))'
  BY <1>1 DEF FileInv
<1>5. OneTornFile'
  BY DEF FileInv, OneTornFile
<1>6. SceInv'
  <2>1. (Writing(Root) => ck[Root][phase[Root]] # "none")'
    BY <1>2, RootIsRank DEF SceInv
  <2>2. ScePhaseBacked'
    BY DEF SceInv, ScePhaseBacked
  <2>3. QED
    BY <2>1, <2>2 DEF SceInv
<1>7. QED
  BY <1>3, <1>4, <1>5, <1>6 DEF FileInv

LEMMA FileStep ==
  TypeOK /\ AnswerInv /\ FileInv /\ SceInv /\ [Next]_vars
    => FileInv' /\ SceInv'
<1> SUFFICES ASSUME TypeOK, AnswerInv, FileInv, SceInv, [Next]_vars
             PROVE  FileInv' /\ SceInv'
  OBVIOUS
<1> USE RootIsRank
<1>1. ASSUME NEW r \in Rank, \/ CliInit(r) \/ ReadyWait(r)
                            \/ BeginIteration(r) \/ LoopEnds(r) \/ Waitall(r)
      PROVE  FileInv' /\ SceInv'
  <2>1. ck' = ck /\ scephase' = scephase
    BY <1>1 DEF CliInit, ReadyWait, BeginIteration, LoopEnds, Waitall, files
  <2>2. \A q \in Rank : /\ Writing(q)' <=> Writing(q)
                        /\ Writing(q) => phase'[q] = phase[q]
    BY <1>1 DEF TypeOK, Writing, CliInit, ReadyWait, BeginIteration, LoopEnds,
                Waitall, Towards
  <2>3. QED
    BY <2>1, <2>2, FilesKept
<1>2. ASSUME NEW r \in Rank, PassCandidate(r)
      PROVE  FileInv' /\ SceInv'
  <2>1. ck' = ck /\ scephase' = scephase
    BY <1>2 DEF PassCandidate, files
  <2>2. \A q \in Rank : /\ Writing(q)' <=> Writing(q)
                        /\ Writing(q) => phase'[q] = phase[q]
    BY <1>2 DEF TypeOK, Writing, PassCandidate, AfterCkpt, Towards
  <2>3. QED
    BY <2>1, <2>2, FilesKept
<1>3. ASSUME NEW r \in Rank, OpenCkpt(r)
      PROVE  FileInv' /\ SceInv'
  <2>1. /\ ~ Over /\ ~ Writing(r) /\ Writing(r)'
        /\ phase' = phase /\ scephase' = scephase
        /\ phase[r] \in Phase
        /\ \A q \in Rank \ {r} : Writing(q)' <=> Writing(q)
    BY <1>3 DEF TypeOK, OpenCkpt, Over, Running, Writing
  <2>2. /\ ck'[r][phase[r]] = "torn"
        /\ \A q \in Phase \ {phase[r]} : ck'[r][q] = ck[r][q]
        /\ \A q \in Rank \ {r} : ck'[q] = ck[q]
    BY <1>3, <2>1 DEF TypeOK, OpenCkpt
  <2>3. \A q \in Phase : ck[r][q] # "torn"
    BY <2>1 DEF FileInv
  <2>4. FileInv'
    BY <2>1, <2>2, <2>3 DEF FileInv, OneTornFile
  <2>5. SceInv'
    BY <2>1, <2>2 DEF SceInv, ScePhaseBacked
  <2>6. QED
    BY <2>4, <2>5
<1>4. ASSUME NEW r \in Rank, CloseCkpt(r)
      PROVE  FileInv' /\ SceInv'
  <2>1. /\ ~ Over /\ Writing(r) /\ ~ Writing(r)'
        /\ scephase' = scephase
        /\ phase[r] \in Phase
        /\ \A q \in Rank \ {r} : /\ Writing(q)' <=> Writing(q)
                                 /\ phase'[q] = phase[q]
    BY <1>4 DEF TypeOK, CloseCkpt, AfterCkpt, Towards, Over, Running, Writing
  <2>2. /\ ck'[r][phase[r]] = "whole"
        /\ \A q \in Phase \ {phase[r]} : ck'[r][q] = ck[r][q]
        /\ \A q \in Rank \ {r} : ck'[q] = ck[q]
    BY <1>4, <2>1 DEF TypeOK, CloseCkpt
  <2>3. \A q \in Phase : ck'[r][q] # "torn"
    BY <2>1, <2>2 DEF FileInv
  <2>4. FileInv'
    BY <2>1, <2>2, <2>3 DEF FileInv, OneTornFile
  <2>5. SceInv'
    BY <2>1, <2>2 DEF SceInv, ScePhaseBacked
  <2>6. QED
    BY <2>4, <2>5
<1>5. CASE Greet \/ Ask \/ ServerTakes \/ UNCHANGED vars
  <2>1. ck' = ck /\ scephase' = scephase
    BY <1>5 DEF Greet, Ask, ServerTakes, vars, files
  <2>2. \A q \in Rank : /\ Writing(q)' <=> Writing(q)
                        /\ Writing(q) => phase'[q] = phase[q]
    BY <1>5 DEF TypeOK, Writing, Greet, Ask, ServerTakes, vars
  <2>3. QED
    BY <2>1, <2>2, FilesKept
<1>6. CASE OpenSce \/ CloseSce
  <2>1. /\ ~ Over /\ ck' = ck /\ phase' = phase
        /\ scephase' \in {Empty, phase[Root]}
        /\ Writing(Root)
        /\ \A q \in Rank : Writing(q)' <=> Writing(q)
    BY <1>6 DEF TypeOK, OpenSce, CloseSce, Over, Running, Writing
  <2>2. FileInv'
    BY <2>1 DEF FileInv, OneTornFile
  <2>3. SceInv'
    BY <2>1 DEF SceInv, ScePhaseBacked, Phase, Empty
  <2>4. QED
    BY <2>2, <2>3
<1>7. CASE Failure
  <2>1. /\ ck' = ck /\ scephase' = scephase /\ slot' = slot
        /\ \A r \in Rank : ~ Writing(r)' /\ ~ Running(r)' /\ inbox'[r] = {}
    BY <1>7 DEF Failure, Writing, Running, files, server
  <2>2. ASSUME NEW r \in Rank, NEW q \in Phase, ck[r][q] = "torn"
        PROVE  Over'
    <3>1. slot # "none"
      BY <2>2 DEF FileInv, AnswerInv, Over, Writing, Running
    <3>2. QED
      BY <2>1, <3>1 DEF Over
  <2>3. FileInv'
    BY <2>1, <2>2 DEF FileInv, OneTornFile
  <2>4. SceInv'
    BY <2>1 DEF SceInv, ScePhaseBacked
  <2>5. QED
    BY <2>3, <2>4
<1>8. QED
  BY <1>1, <1>2, <1>3, <1>4, <1>5, <1>6, <1>7 DEF Next, RankStep, RootStep

LEMMA FilesAlways == Spec => [](FileInv /\ SceInv)
<1>1. Init => FileInv /\ SceInv
  BY RootIsRank DEF Init, FileInv, SceInv, OneTornFile, ScePhaseBacked, Writing,
     Phase, NoFile
<1>2. QED
  BY <1>1, TypeInit, TypeStep, FileStep, AnswerAlways, PTL DEF Spec

(* Failures leave a rank with at most one checkpoint file that is torn. *)
THEOREM JobOneTornFile == Spec => []OneTornFile
<1>1. FileInv => OneTornFile
  BY DEF FileInv
<1>2. QED
  BY <1>1, FilesAlways, PTL

(* scephase names a phase whose checkpoint root has begun. *)
THEOREM JobScePhaseBacked == Spec => []ScePhaseBacked
<1>1. SceInv => ScePhaseBacked
  BY DEF SceInv
<1>2. QED
  BY <1>1, FilesAlways, PTL

(* Why the job does not come back, as it should: a failure that hits a     *)
(* running job ends it for good.  No rank of a later incarnation is told   *)
(* to run, for the server's slot still holds the event that started the    *)
(* first one.                                                              *)
THEOREM JobFailureIsFinal == Spec => [][Over => Over']_vars
<1>1. TypeOK /\ [Next]_vars => [Over => Over']_vars
  BY OverStays
<1>2. QED
  BY <1>1, JobTypeCorrect, PTL DEF Spec

-----------------------------------------------------------------------------
(* A rank leaves the loop with its last iteration. *)
DoneInv == \A r \in Rank : pc[r] = "done" => iter[r] = Steps - 1

LEMMA DoneStep == TypeOK /\ DoneInv /\ [Next]_vars => DoneInv'
<1> SUFFICES ASSUME TypeOK, DoneInv, [Next]_vars
             PROVE  DoneInv'
  OBVIOUS
<1> USE RootIsRank
<1>1. ASSUME iter' = iter, \A r \in Rank : pc'[r] = "done" => pc[r] = "done"
      PROVE  DoneInv'
  BY <1>1 DEF DoneInv
<1>2. ASSUME NEW r \in Rank, CliInit(r) \/ ReadyWait(r) \/ Waitall(r)
                            \/ OpenCkpt(r)
      PROVE  DoneInv'
  BY <1>1, <1>2 DEF TypeOK, CliInit, ReadyWait, Waitall, OpenCkpt
<1>3. ASSUME NEW r \in Rank, PassCandidate(r) \/ CloseCkpt(r)
      PROVE  DoneInv'
  BY <1>1, <1>3 DEF TypeOK, PassCandidate, CloseCkpt, AfterCkpt, Towards
<1>4. ASSUME NEW r \in Rank, BeginIteration(r)
      PROVE  DoneInv'
  BY <1>4 DEF TypeOK, DoneInv, BeginIteration, Towards
<1>5. ASSUME NEW r \in Rank, LoopEnds(r)
      PROVE  DoneInv'
  <2>1. iter[r] \in Int /\ iter[r] + 1 = Steps /\ iter' = iter
    BY <1>5 DEF TypeOK, LoopEnds
  <2>2. iter[r] = Steps - 1
    BY <2>1
  <2>3. \A q \in Rank \ {r} : pc'[q] = pc[q]
    BY <1>5 DEF TypeOK, LoopEnds
  <2>4. QED
    BY <2>1, <2>2, <2>3 DEF DoneInv
<1>6. CASE RootStep
  BY <1>1, <1>6 DEF TypeOK, RootStep, Greet, Ask, OpenSce, CloseSce
<1>7. CASE ServerTakes \/ UNCHANGED vars
  BY <1>1, <1>7 DEF ServerTakes, vars
<1>8. CASE Failure
  BY <1>8 DEF DoneInv, Failure
<1>9. QED
  BY <1>2, <1>3, <1>4, <1>5, <1>6, <1>7, <1>8 DEF Next, RankStep

(* The rank that is behind all others in MPI_Waitall is waiting for one    *)
(* that is not in it, and has not ended: the ranks never all wait.         *)
THEOREM JobNoHaloDeadlock == Spec => []NoHaloDeadlock
<1>1. TypeOK /\ DoneInv => NoHaloDeadlock
  <2> SUFFICES ASSUME TypeOK, DoneInv, NEW p \in Rank, pc[p] = "halo",
                      \A r \in Rank : ~ CanGoOn(r)
               PROVE  FALSE
    BY DEF NoHaloDeadlock
  <2> DEFINE S == {n \in Nat : \E r \in Rank : pc[r] = "halo"
                                               /\ iter[r] + 1 = n}
  <2>1. \A r \in Rank : iter[r] \in Int /\ -1 <= iter[r]
                        /\ iter[r] <= Steps - 1
    BY DEF TypeOK
  <2>2. iter[p] + 1 \in S
    BY <2>1
  <2>3. PICK n \in S : \A m \in S : n <= m
    <3> HIDE DEF S
    <3>1. S \subseteq Nat
      BY DEF S
    <3>2. QED
      BY <2>2, <3>1, LeastNat
  <2>4. PICK r \in Rank : pc[r] = "halo" /\ iter[r] + 1 = n
    BY <2>3
  <2>5. PICK q \in Neighbours(r) : ~ (iter[r] <= iter[q])
    BY <2>4 DEF CanGoOn
  <2>6. q \in Rank /\ iter[q] < iter[r]
    BY <2>1, <2>5, NeighboursAreRanks
  <2>7. pc[q] # "done"
    BY <2>1, <2>6 DEF DoneInv
  <2>8. pc[q] = "halo"
    BY <2>6, <2>7 DEF CanGoOn
  <2>9. iter[q] + 1 \in S
    BY <2>1, <2>6, <2>8
  <2>10. QED
    BY <2>1, <2>3, <2>4, <2>6, <2>9
<1>2. Init => DoneInv
  BY DEF Init, DoneInv
<1>3. QED
  BY <1>1, <1>2, TypeInit, TypeStep, DoneStep, PTL DEF Spec

-----------------------------------------------------------------------------
(* A step of the job is a round of one rank, a restart of all, or neither. *)
LEMMA LockstepStep ==
  TypeOK /\ HaloInv /\ [Next]_vars => [HaloExchange!Next]_iter
<1> SUFFICES ASSUME TypeOK, HaloInv, [Next]_vars
             PROVE  [HaloExchange!Next]_iter
  OBVIOUS
<1>1. ASSUME NEW r \in Rank, BeginIteration(r)
      PROVE  HaloExchange!Advance(r)
  <2>1. PastHalo(r)
    BY <1>1 DEF BeginIteration, PastHalo
  <2>2. \A q \in Neighbours(r) : iter[r] <= iter[q]
    BY <2>1 DEF HaloInv
  <2>3. QED
    BY <1>1, <2>2 DEF BeginIteration, HaloExchange!Advance
<1>2. ASSUME NEW r \in Rank, RankStep(r), ~ BeginIteration(r)
      PROVE  iter' = iter
  BY <1>2 DEF RankStep, CliInit, ReadyWait, LoopEnds, Waitall, PassCandidate,
              OpenCkpt, CloseCkpt
<1>3. CASE RootStep \/ ServerTakes \/ UNCHANGED vars
  BY <1>3 DEF RootStep, Greet, Ask, OpenSce, CloseSce, ServerTakes, vars
<1>4. CASE Failure
  BY <1>4 DEF Failure, HaloExchange!Next, HaloExchange!Restart,
              HaloExchange!NotBegun
<1>5. QED
  BY <1>1, <1>2, <1>3, <1>4 DEF Next, HaloExchange!Next

(* In what iterations the ranks are, through checkpoints, failures and     *)
(* restarts, is a behaviour of a lockstep of neighbours, on any torus.     *)
THEOREM JobImplementsLockstep == Spec => ImplementsLockstep
<1>1. Init => HaloExchange!Init
  BY DEF Init, HaloExchange!Init, HaloExchange!NotBegun
<1>2. QED
  BY <1>1, LockstepStep, HaloAlways, PTL
     DEF Spec, ImplementsLockstep, HaloExchange!Spec
=============================================================================
