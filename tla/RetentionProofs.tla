-------------------------- MODULE RetentionProofs ---------------------------
(***************************************************************************)
(* Proofs about module Retention, for every list of policies the parser    *)
(* accepts, every filter and every length of a day.                        *)
(***************************************************************************)
EXTENDS Retention, CommonLemmas

-----------------------------------------------------------------------------
(* Days and sums.                                                          *)

(* Later times are not on earlier days. *)
LEMMA DayOrder ==
    ASSUME NEW a \in Nat, NEW b \in Nat, a <= b
    PROVE  /\ a \div DayLength \in Int /\ b \div DayLength \in Int
           /\ a \div DayLength <= b \div DayLength
<1> DEFINE d == DayLength
           p == a \div d
           q == b \div d
<1>1. d \in Nat /\ d > 0  BY Times
<1>2. p \in Int /\ q \in Int  BY <1>1
<1>3. d * p <= a /\ b < d * (q + 1)  BY <1>1, Z3
<1>4. ASSUME p >= q + 1 PROVE FALSE
  <2>1. d * (q + 1) <= d * p  BY <1>1, <1>2, <1>4, Z3
  <2> HIDE DEF d, p, q
  <2>2. d * p \in Int /\ d * (q + 1) \in Int  BY <1>1, <1>2
  <2> QED  BY <1>3, <2>1, <2>2
<1> QED  BY <1>2, <1>4

(* The recursive function gap exists. *)
LEMMA GapExists ==
    gap = [k \in 0 .. Len(Policies) |-> IF k = 0 THEN 0 ELSE gap[k - 1] + Loss(k)]
<1> DEFINE N == Len(Policies)
           Sums(g, n) == g = [k \in 0 .. n |-> IF k = 0 THEN 0 ELSE g[k - 1] + Loss(k)]
           Bad == {n \in 0 .. N : ~ \E g : Sums(g, n)}
<1>1. N \in Nat  BY PoliciesSorted
<1>2. Bad = {}
  <2>1. SUFFICES ASSUME Bad # {} PROVE FALSE  OBVIOUS
  <2>2. PICK n \in Bad : \A m \in Bad : n <= m
    <3>1. Bad \in SUBSET Nat  BY <1>1
    <3> HIDE DEF Bad
    <3> QED  BY <2>1, <3>1, SmallestExists
  <2>3. CASE n = 0
    <3>1. Sums([k \in 0 .. 0 |-> 0], 0)  OBVIOUS
    <3> QED  BY <2>3, <3>1
  <2>4. CASE n # 0
    <3>1. n \in Nat /\ n - 1 \in 0 .. N /\ n - 1 \notin Bad  BY <1>1, <2>2, <2>4
    <3>2. PICK g : Sums(g, n - 1)  BY <3>1
    <3> DEFINE h == [k \in 0 .. n |-> IF k = n THEN g[n - 1] + Loss(n) ELSE g[k]]
    <3>3. ASSUME NEW k \in 0 .. n
          PROVE  h[k] = IF k = 0 THEN 0 ELSE h[k - 1] + Loss(k)
      <4>1. CASE k = n  BY <3>1, <4>1, <2>4
      <4>2. CASE k # n
        <5>1. k \in 0 .. n - 1 /\ (k # 0 => k - 1 \in 0 .. n - 1)  BY <3>1, <4>2
        <5>2. g[k] = IF k = 0 THEN 0 ELSE g[k - 1] + Loss(k)  BY <3>2, <5>1
        <5>3. h[k] = g[k] /\ (k # 0 => h[k - 1] = g[k - 1])  BY <3>1, <4>2, <5>1
        <5> QED  BY <5>2, <5>3
      <4> QED  BY <4>1, <4>2
    <3>4. Sums(h, n)
      <4> DEFINE r == [k \in 0 .. n |-> IF k = 0 THEN 0 ELSE h[k - 1] + Loss(k)]
      <4>1. \A k \in 0 .. n : h[k] = r[k]  BY <3>3
      <4>2. h = [k \in 0 .. n |-> h[k]]  OBVIOUS
      <4> HIDE DEF h
      <4>3. r = [k \in 0 .. n |-> r[k]]  OBVIOUS
      <4>4. h = r
        <5> HIDE DEF r
        <5> QED  BY <4>1, <4>2, <4>3
      <4> QED  BY <4>4
    <3> QED  BY <3>4, <2>2
  <2> QED  BY <2>3, <2>4
<1>3. \E g : Sums(g, N)  BY <1>1, <1>2
<1>4. gap = CHOOSE g : Sums(g, N)  BY DEF gap
<1> QED  BY <1>3, <1>4, Zenon

(* The shape of a list of policies. *)
LEMMA PolicyTypes ==
    /\ Len(Policies) \in Nat /\ DOMAIN Policies = 1 .. Len(Policies)
    /\ \A k \in DOMAIN Policies :
          /\ Policies[k].age \in Nat /\ Policies[k].interval \in Nat
          /\ Loss(k) \in Nat
          /\ Policies[k].interval # 0 => Loss(k) = Policies[k].interval - 1
    /\ \A j, k \in DOMAIN Policies : j < k => Policies[j].age > Policies[k].age
<1>1. Len(Policies) \in Nat /\ DOMAIN Policies = 1 .. Len(Policies)  BY PoliciesSorted
<1>2. ASSUME NEW k \in DOMAIN Policies
      PROVE  Policies[k].age \in Nat /\ Policies[k].interval \in Nat
  <2> DEFINE P == [age : Nat \ {0}, interval : Nat]
  <2>1. Policies \in Seq(P)  BY PoliciesSorted
  <2>2. Policies[k] \in P
    <3> HIDE DEF P
    <3> QED  BY <1>1, <2>1
  <2> QED  BY <2>2
<1>3. ASSUME NEW k \in DOMAIN Policies
      PROVE  Loss(k) \in Nat /\ (Policies[k].interval # 0 => Loss(k) = Policies[k].interval - 1)
  BY <1>2 DEF Loss
<1> QED  BY <1>1, <1>2, <1>3, PoliciesSorted

(* The sums are numbers, and grow. *)
LEMMA GapSums ==
    /\ \A k \in 0 .. Len(Policies) : gap[k] \in Nat
    /\ \A k \in DOMAIN Policies : gap[k] = gap[k - 1] + Loss(k)
    /\ \A j, k \in 0 .. Len(Policies) : j <= k => gap[j] <= gap[k]
    /\ Reach = gap[Len(Policies)]
<1> DEFINE N == Len(Policies)
<1>1. N \in Nat /\ \A k \in 1 .. N : Loss(k) \in Nat /\ k \in DOMAIN Policies
  BY PolicyTypes
<1>2. gap[0] = 0 /\ \A k \in 1 .. N : gap[k] = gap[k - 1] + Loss(k)
  BY <1>1, GapExists
<1> HIDE DEF N
<1>3. ASSUME NEW j \in 0 .. N, NEW P, P = {k \in j .. N : ~(gap[k] \in Int /\ gap[j] <= gap[k])},
             gap[j] \in Nat
      PROVE  P = {}
  <2>1. SUFFICES ASSUME P # {} PROVE FALSE  OBVIOUS
  <2>2. P \in SUBSET Nat  BY <1>1, <1>3
  <2>3. PICK k \in P : \A m \in P : k <= m  BY <2>1, <2>2, SmallestExists
  <2>4. k # j /\ k \in 1 .. N /\ k - 1 \in j .. N  BY <1>1, <1>3, <2>3
  <2>5. gap[k - 1] \in Int /\ gap[j] <= gap[k - 1]
    <3>1. k - 1 \notin P  BY <1>1, <2>3, <2>4
    <3> QED  BY <1>3, <2>4, <3>1
  <2>6. gap[k] = gap[k - 1] + Loss(k) /\ Loss(k) \in Nat  BY <1>1, <1>2, <2>4
  <2>7. gap[k] \in Int /\ gap[j] <= gap[k]  BY <1>3, <2>5, <2>6
  <2> QED  BY <1>3, <2>3, <2>7
<1>4. \A k \in 0 .. N : gap[k] \in Nat
  <2>1. 0 \in 0 .. N /\ gap[0] \in Nat  BY <1>1, <1>2
  <2>2. {k \in 0 .. N : ~(gap[k] \in Int /\ gap[0] <= gap[k])} = {}  BY <1>3, <2>1
  <2> QED  BY <1>2, <2>2
<1>5. \A j, k \in 0 .. N : j <= k => gap[j] <= gap[k]
  <2> TAKE j \in 0 .. N
  <2>1. {k \in j .. N : ~(gap[k] \in Int /\ gap[j] <= gap[k])} = {}  BY <1>3, <1>4
  <2> QED  BY <1>1, <2>1
<1> QED  BY <1>2, <1>4, <1>5, PolicyTypes DEF N, Reach

-----------------------------------------------------------------------------
(* Ages and policies.                                                      *)

(* Ages are numbers, the older snapshot has the greater age, and days add up. *)
LEMMA Ages ==
    ASSUME now \in Nat, NEW s \in Snapshot, NEW u \in Snapshot
    PROVE  /\ Age(s) \in Int /\ getDaysBetween(u.start, s.start) \in Int
           /\ s.start \in Nat \ {0}
           /\ u.start <= s.start => Age(u) >= Age(s) /\ getDaysBetween(u.start, s.start) >= 0
           /\ Age(u) = Age(s) + getDaysBetween(u.start, s.start)
<1>1. s.start \in Nat \ {0} /\ u.start \in Nat  BY DEF Snapshot
<1>2. DayLength \in Nat /\ DayLength > 0  BY Times
<1>3. /\ s.start \div DayLength \in Int /\ u.start \div DayLength \in Int
      /\ now \div DayLength \in Int
  BY <1>1, <1>2
<1>4. u.start <= s.start => u.start \div DayLength <= s.start \div DayLength
  BY <1>1, DayOrder
<1> QED  BY <1>1, <1>3, <1>4 DEF Age, getDaysBetween

(* Only one policy governs a snapshot. *)
LEMMA OnePolicy ==
    ASSUME now \in Nat, NEW s \in Snapshot, NEW j \in DOMAIN Policies, NEW k \in DOMAIN Policies,
           Governs(j, s), Governs(k, s)
    PROVE  j = k
<1>1. Age(s) \in Int  BY Ages
<1>2. ~(j < k) /\ ~(k < j)  BY <1>1, PolicyTypes DEF Governs
<1> QED  BY <1>2, PolicyTypes

-----------------------------------------------------------------------------
(* Type correctness.                                                       *)

(* Snapshots are ordered by time. *)
LEMMA Started ==
    ASSUME TypeOK
    PROVE  /\ now \in Nat
           /\ \A s \in taken : s \in Snapshot /\ s.start \in Nat \ {0}
           /\ snapshots \subseteq taken /\ listed \subseteq snapshots /\ todo \subseteq listed
<1>1. \A s \in Snapshot : s.start \in Nat \ {0}  BY DEF Snapshot
<1> QED  BY <1>1 DEF TypeOK

LEMMA TypeInit == Init => TypeOK
<1> SUFFICES ASSUME Init PROVE TypeOK  OBVIOUS
<1>1. i \in 1 .. Len(Policies) + 1  BY PolicyTypes DEF Init
<1>2. now \in Nat \ {0}  BY DEF Init
<1>3. pruning \in BOOLEAN /\ exclusive \in BOOLEAN  BY DEF Init
<1>4. taken = {} /\ snapshots = {} /\ listed = {} /\ todo = {} /\ flagged = {} /\ last = 0
  BY DEF Init
<1> QED  BY <1>1, <1>2, <1>3, <1>4 DEF TypeOK

LEMMA TypeStep ==
    ASSUME TypeOK, [Next]_vars
    PROVE  TypeOK'
<1> USE DEF TypeOK
<1>1. ASSUME NEW tag \in Tags, Backup(tag) PROVE TypeOK'
  <2>1. [start |-> now, tag |-> tag] \in Snapshot  BY DEF Snapshot
  <2> QED  BY <1>1, <2>1 DEF Backup, loop
<1>2. CASE Tick  BY <1>2 DEF Tick, loop
<1>3. ASSUME NEW e \in BOOLEAN, StartPrune(e) PROVE TypeOK'
  <2>1. i' \in 1 .. Len(Policies) + 1  BY <1>3, PolicyTypes DEF StartPrune
  <2> QED  BY <1>3, <2>1 DEF StartPrune
<1>4. ASSUME NEW s \in todo, SkipSnapshot(s) PROVE TypeOK'  BY <1>4 DEF SkipSnapshot
<1>5. ASSUME NEW s \in todo, NextPolicy(s) PROVE TypeOK'
  <2>1. i' \in 1 .. Len(Policies) + 1  BY <1>5, PolicyTypes DEF NextPolicy
  <2> QED  BY <1>5, <2>1 DEF NextPolicy
<1>6. ASSUME NEW s \in todo, Judge(s) PROVE TypeOK'
  <2>1. UNCHANGED <<now, snapshots, taken, pruning, exclusive, listed, i>> /\ todo' \subseteq todo
    BY <1>6 DEF Judge
  <2>2. flagged' \subseteq listed /\ (last' = last \/ last' = s.start)  BY <1>6 DEF Judge
  <2> QED  BY <2>1, <2>2
<1>7. CASE FinishPrune
  <2>1. i' \in 1 .. Len(Policies) + 1  BY <1>7, PolicyTypes DEF FinishPrune
  <2> QED  BY <1>7, <2>1 DEF FinishPrune
<1>8. CASE UNCHANGED vars  BY <1>8 DEF vars, loop
<1> QED  BY <1>1, <1>2, <1>3, <1>4, <1>5, <1>6, <1>7, <1>8 DEF Next

(* Type correctness. *)
THEOREM TypeCorrect == Spec => []TypeOK
  BY TypeInit, TypeStep, PTL DEF Spec

-----------------------------------------------------------------------------
(* The loop of one prune, action by action.                                *)

LEMMA LoopInit == Init => LoopInv
<1> SUFFICES ASSUME Init PROVE LoopInv  OBVIOUS
<1>1. TypeOK  BY TypeInit
<1>2. listed = {} /\ todo = {} /\ flagged = {} /\ snapshots = {} /\ last = 0  BY DEF Init
<1>3. InOrder  BY <1>2 DEF InOrder
<1>4. Judged = {} /\ KeptSoFar = {}  BY <1>2 DEF Judged, KeptSoFar
<1> QED  BY <1>1, <1>2, <1>3, <1>4 DEF LoopInv, PoliciesPassed, LastKept, Apart, Close

(* Between prunes there is nothing to say. *)
LEMMA NothingRead ==
    ASSUME TypeOK', listed' = {}, last' = 0
    PROVE  PoliciesPassed' /\ LastKept' /\ Apart' /\ Close'
<1>1. todo' = {} /\ flagged' = {} /\ Judged' = {} /\ KeptSoFar' = {}
  BY DEF TypeOK, Judged, KeptSoFar
<1> QED  BY <1>1 DEF PoliciesPassed, LastKept, Apart, Close

(* A step that leaves the clock and the loop alone. *)
LEMMA LoopUnchanged ==
    ASSUME UNCHANGED <<now, loop>>, PoliciesPassed, LastKept, Apart, Close
    PROVE  PoliciesPassed' /\ LastKept' /\ Apart' /\ Close'
  BY DEF loop, PoliciesPassed, LastKept, Apart, Close, Judged, KeptSoFar, Skipped, Governs, Age,
         getDaysBetween

LEMMA BackupLoop ==
    ASSUME LoopInv, TypeOK', NEW tag \in Tags, Backup(tag)
    PROVE  LoopInv'
<1>1. InOrder'  BY Started DEF LoopInv, InOrder, Backup, loop, Snapshot
<1> QED  BY <1>1, LoopUnchanged DEF LoopInv, Backup

LEMMA TickLoop ==
    ASSUME LoopInv, TypeOK', Tick
    PROVE  LoopInv'
<1>1. listed = {} /\ listed' = {} /\ last' = last /\ last = 0  BY DEF LoopInv, InOrder, Tick, loop, TypeOK
<1>2. InOrder'  BY <1>1, Started DEF LoopInv, InOrder, Tick, loop
<1> QED  BY <1>1, <1>2, NothingRead DEF LoopInv

LEMMA StartLoop ==
    ASSUME LoopInv, TypeOK', NEW e \in BOOLEAN, StartPrune(e)
    PROVE  LoopInv'
<1>1. /\ snapshots' = snapshots /\ listed' = snapshots /\ todo' = snapshots /\ flagged' = {}
      /\ last' = 0 /\ i' = 1 /\ pruning' /\ now' = now
  BY DEF StartPrune
<1>2. InOrder'  BY <1>1 DEF LoopInv, InOrder
<1>3. Judged' = {} /\ KeptSoFar' = {}  BY <1>1 DEF Judged, KeptSoFar
<1>4. PoliciesPassed'  BY <1>1, <1>3 DEF PoliciesPassed
<1> QED  BY <1>1, <1>2, <1>3, <1>4 DEF LoopInv, LastKept, Apart, Close

LEMMA FinishLoop ==
    ASSUME LoopInv, TypeOK', FinishPrune
    PROVE  LoopInv'
<1>1. listed' = {} /\ last' = 0 /\ snapshots' \subseteq snapshots /\ now' = now  BY DEF FinishPrune
<1>2. InOrder'  BY <1>1 DEF LoopInv, InOrder
<1> QED  BY <1>1, <1>2, NothingRead DEF LoopInv

(* What does not change while the loop looks at snapshots. *)
LEMMA SameView ==
    ASSUME UNCHANGED <<now, exclusive, listed>>
    PROVE  /\ \A k, s : Governs(k, s)' <=> Governs(k, s)
           /\ \A s : Skipped(s)' <=> Skipped(s)
           /\ \A s : Age(s)' = Age(s)
  BY DEF Governs, Skipped, Age, getDaysBetween

LEMMA SkipLoop ==
    ASSUME LoopInv, TypeOK', NEW s \in todo, SkipSnapshot(s)
    PROVE  LoopInv'
<1>1. /\ UNCHANGED <<now, snapshots, pruning, exclusive, listed, i, last, flagged>>
      /\ todo' = todo \ {s} /\ IsNext(s) /\ Skipped(s)
  BY DEF SkipSnapshot
<1>2. InOrder'
  <2>1. \A u \in todo' : s.start < u.start
    BY <1>1, Started DEF LoopInv, InOrder, IsNext
  <2> QED  BY <1>1, <2>1 DEF LoopInv, InOrder
<1>3. Judged' = Judged /\ KeptSoFar' = KeptSoFar
  BY <1>1, SameView DEF Judged, KeptSoFar, LoopInv
<1> QED  BY <1>1, <1>2, <1>3, SameView DEF LoopInv, PoliciesPassed, LastKept, Apart, Close, Governs, Age, getDaysBetween

LEMMA NextPolicyLoop ==
    ASSUME LoopInv, TypeOK', NEW s \in todo, NextPolicy(s)
    PROVE  LoopInv'
<1>1. /\ UNCHANGED <<now, snapshots, pruning, exclusive, listed, todo, flagged>>
      /\ i \in DOMAIN Policies /\ i' = i + 1 /\ last' = 0 /\ IsNext(s) /\ Age(s) < Policies[i].age
  BY PolicyTypes DEF NextPolicy, LoopInv, TypeOK, TooYoung
<1>2. InOrder'  BY <1>1 DEF LoopInv, InOrder
<1>3. Judged' = Judged /\ KeptSoFar' = KeptSoFar
  BY <1>1, SameView DEF Judged, KeptSoFar, LoopInv
<1>4. PoliciesPassed'
  <2>1. flagged' \subseteq Judged'  BY <1>1, <1>3 DEF LoopInv, PoliciesPassed
  <2>2. ASSUME NEW u \in todo, NEW k \in 1 .. i PROVE Age(u) < Policies[k].age
    <3>1. CASE k = i
      <4>1. s.start <= u.start /\ s \in Snapshot /\ u \in Snapshot /\ now \in Nat
        BY <1>1, Started DEF IsNext, LoopInv
      <4>2. Age(u) \in Int /\ Age(s) \in Int /\ Age(u) <= Age(s)  BY <4>1, Ages
      <4> QED  BY <1>1, <3>1, <4>2, PolicyTypes
    <3>2. CASE k # i
      <4>1. k \in 1 .. i - 1  BY <1>1, <3>2, PolicyTypes
      <4> QED  BY <4>1 DEF LoopInv, PoliciesPassed
    <3> QED  BY <3>1, <3>2
  <2>3. 1 .. i' - 1 = 1 .. i  BY <1>1, PolicyTypes
  <2>4. \A u \in Judged : \E k \in DOMAIN Policies : k <= i' /\ Governs(k, u)
    BY <1>1, PolicyTypes DEF LoopInv, PoliciesPassed
  <2> QED  BY <1>1, <1>3, <2>1, <2>2, <2>3, <2>4, SameView DEF PoliciesPassed
<1>5. LastKept'
  <2>1. ASSUME NEW u \in KeptSoFar, i' \in DOMAIN Policies, Governs(i', u) PROVE FALSE
    <3>1. PICK k \in DOMAIN Policies : k <= i /\ Governs(k, u)
      BY DEF KeptSoFar, LoopInv, PoliciesPassed
    <3>2. u \in Snapshot /\ now \in Nat  BY Started DEF KeptSoFar, Judged, LoopInv
    <3>3. k = i'  BY <2>1, <3>1, <3>2, OnePolicy
    <3> QED  BY <1>1, <3>1, <3>3, PolicyTypes
  <2> QED  BY <1>1, <1>3, <2>1, SameView DEF LastKept
<1>6. Apart'  BY <1>1, <1>3, SameView DEF LoopInv, Apart
<1>7. Close'  BY <1>1, <1>3, SameView DEF LoopInv, Close
<1> QED  BY <1>2, <1>4, <1>5, <1>6, <1>7 DEF LoopInv

(* The snapshot judged is governed by the policy the loop is at. *)
LEMMA JudgedUnder ==
    ASSUME LoopInv, NEW s \in todo, Judge(s)
    PROVE  /\ i \in DOMAIN Policies /\ Governs(i, s)
           /\ s \notin Judged /\ s \notin flagged
           /\ \A u \in Judged : u.start < s.start
           /\ s \in Snapshot /\ now \in Nat
<1>1. i \in DOMAIN Policies /\ Age(s) >= Policies[i].age
  <2>1. i \in DOMAIN Policies /\ ~(Age(s) < Policies[i].age)
    BY PolicyTypes DEF Judge, LoopInv, TypeOK, TooYoung
  <2>2. Age(s) \in Int /\ Policies[i].age \in Int
    BY <2>1, Ages, Started, PolicyTypes DEF LoopInv
  <2> QED  BY <2>1, <2>2
<1>2. Governs(i, s)  BY <1>1 DEF Governs, LoopInv, PoliciesPassed
<1> QED  BY <1>1, <1>2, Started DEF LoopInv, Judged, InOrder, PoliciesPassed

LEMMA JudgeLoop ==
    ASSUME LoopInv, TypeOK', NEW s \in todo, Judge(s)
    PROVE  LoopInv'
<1>1. /\ UNCHANGED <<now, snapshots, pruning, exclusive, listed, i>>
      /\ todo' = todo \ {s} /\ IsNext(s) /\ ~Skipped(s)
      /\ IF TooClose(s) THEN flagged' = flagged \cup {s} /\ last' = last
                        ELSE last' = s.start /\ flagged' = flagged
  BY DEF Judge
<1>2. InOrder'
  <2>1. \A u \in todo' : s.start < u.start
    BY <1>1, Started DEF LoopInv, InOrder, IsNext
  <2> QED  BY <1>1, <2>1 DEF LoopInv, InOrder
<1>3. Judged' = Judged \cup {s}
  BY <1>1, SameView, Started DEF Judged, LoopInv
<1>4. PoliciesPassed'
  <2>1. flagged' \subseteq Judged'  BY <1>1, <1>3 DEF LoopInv, PoliciesPassed
  <2>2. i <= i  BY JudgedUnder, PolicyTypes
  <2> QED  BY <1>1, <1>3, <2>1, <2>2, JudgedUnder, SameView DEF LoopInv, PoliciesPassed
<1>5. LastKept' /\ Apart' /\ Close'
  <2>1. CASE TooClose(s)
    <3>1. KeptSoFar' = KeptSoFar  BY <1>1, <1>3, <2>1, JudgedUnder DEF KeptSoFar
    <3>2. LastKept' /\ Apart'
      BY <1>1, <2>1, <3>1, SameView DEF LoopInv, LastKept, Apart
    <3>3. ASSUME NEW k \in DOMAIN Policies, Governs(k, s), Policies[k].interval # 0
          PROVE  \E u \in KeptSoFar : /\ Governs(k, u) /\ u.start < s.start
                                      /\ getDaysBetween(u.start, s.start) < Policies[k].interval
      <4>1. k = i  BY <3>3, JudgedUnder, OnePolicy
      <4>2. last # 0 /\ getDaysBetween(last, s.start) < Policies[i].interval
        BY <2>1, <3>3, <4>1 DEF TooClose
      <4>3. PICK u \in KeptSoFar : Governs(i, u) /\ u.start = last
        BY <4>2 DEF LoopInv, LastKept
      <4>4. u.start < s.start  BY JudgedUnder DEF KeptSoFar
      <4> QED  BY <4>1, <4>2, <4>3, <4>4
    <3>4. Close'  BY <1>1, <2>1, <3>1, <3>3, SameView DEF LoopInv, Close
    <3> QED  BY <3>2, <3>4
  <2>2. CASE ~TooClose(s)
    <3>1. KeptSoFar' = KeptSoFar \cup {s}  BY <1>1, <1>3, <2>2, JudgedUnder DEF KeptSoFar
    <3>2. last' = s.start /\ s.start \in Nat \ {0} /\ flagged' = flagged
      BY <1>1, <2>2, Started DEF LoopInv
    <3>3. \A u \in KeptSoFar : u.start < s.start /\ u.start \in Nat /\ u \in Snapshot
      BY JudgedUnder, Started DEF KeptSoFar, Judged, LoopInv
    <3>4. LastKept'
      BY <1>1, <3>1, <3>2, <3>3, JudgedUnder, SameView DEF LastKept
    <3>5. ASSUME NEW k \in DOMAIN Policies, Governs(k, s)
          PROVE  /\ Policies[k].interval # 0
                 /\ \A u \in KeptSoFar : Governs(k, u) =>
                       getDaysBetween(u.start, s.start) >= Policies[k].interval
      <4>1. k = i  BY <3>5, JudgedUnder, OnePolicy
      <4>2. Policies[k].interval # 0  BY <2>2, <4>1 DEF TooClose
      <4>3. ASSUME NEW u \in KeptSoFar, Governs(k, u)
            PROVE  getDaysBetween(u.start, s.start) >= Policies[k].interval
        <5>1. last # 0 /\ u.start <= last  BY <4>1, <4>3, JudgedUnder DEF LoopInv, LastKept
        <5>2. PICK v \in KeptSoFar : v.start = last  BY <5>1 DEF LoopInv, LastKept
        <5>3. ~(getDaysBetween(v.start, s.start) < Policies[k].interval)
          BY <2>2, <4>1, <5>1, <5>2 DEF TooClose
        <5>4. getDaysBetween(v.start, s.start) \in Int /\ getDaysBetween(u.start, s.start) \in Int
          BY <3>3, JudgedUnder, Ages
        <5>5. getDaysBetween(u.start, s.start) >= getDaysBetween(v.start, s.start)
          <6>1. /\ u.start \div DayLength \in Int /\ v.start \div DayLength \in Int
                /\ u.start \div DayLength <= v.start \div DayLength
            BY <3>3, <5>1, <5>2, DayOrder
          <6>2. s.start \div DayLength \in Int  BY <3>2, DayOrder
          <6> QED  BY <6>1, <6>2 DEF getDaysBetween
        <5> QED  BY <5>3, <5>4, <5>5, PolicyTypes
      <4> QED  BY <4>2, <4>3
    <3>6. Apart'
      <4> SUFFICES ASSUME NEW k \in DOMAIN Policies, NEW x \in KeptSoFar \cup {s}, Governs(k, x)
                   PROVE  /\ Policies[k].interval # 0
                          /\ \A u \in KeptSoFar \cup {s} : Governs(k, u) /\ u.start < x.start =>
                                getDaysBetween(u.start, x.start) >= Policies[k].interval
        BY <1>1, <3>1, SameView DEF Apart
      <4>1. CASE x = s
        <5>1. ~(s.start < s.start)  BY <3>2
        <5> QED  BY <3>5, <4>1, <5>1
      <4>2. CASE x \in KeptSoFar
        <5>1. ~(s.start < x.start)  BY <3>2, <3>3, <4>2
        <5> QED  BY <4>2, <5>1 DEF LoopInv, Apart
      <4> QED  BY <4>1, <4>2
    <3>7. Close'  BY <1>1, <3>1, <3>2, SameView DEF LoopInv, Close
    <3> QED  BY <3>4, <3>6, <3>7
  <2> QED  BY <2>1, <2>2
<1> QED  BY <1>2, <1>4, <1>5 DEF LoopInv

LEMMA LoopStep ==
    ASSUME LoopInv, [Next]_vars
    PROVE  LoopInv'
<1>1. TypeOK'  BY TypeStep DEF LoopInv
<1>2. CASE UNCHANGED vars
  <2>1. UNCHANGED <<now, loop, snapshots, pruning, listed, todo>>  BY <1>2 DEF vars, loop
  <2>2. InOrder'  BY <2>1 DEF LoopInv, InOrder
  <2> QED  BY <1>1, <2>1, <2>2, LoopUnchanged DEF LoopInv
<1> QED  BY <1>1, <1>2, BackupLoop, TickLoop, StartLoop, SkipLoop, NextPolicyLoop, JudgeLoop,
            FinishLoop DEF Next

(* The invariant of the loop over the snapshots. *)
THEOREM LoopInvariant == Spec => []LoopInv
  BY LoopInit, LoopStep, PTL DEF Spec

-----------------------------------------------------------------------------
(* When the loop is over, it has looked at everything a policy governs. *)
LEMMA AllJudged ==
    ASSUME LoopInv, LoopOver, NEW k \in DOMAIN Policies, NEW s \in listed, Governs(k, s)
    PROVE  s \notin todo
<1>1. SUFFICES ASSUME s \in todo PROVE FALSE  OBVIOUS
<1>2. i > Len(Policies) /\ i \in Nat  BY <1>1, PolicyTypes DEF LoopOver, LoopInv, TypeOK
<1>3. k \in 1 .. i - 1  BY <1>2, PolicyTypes
<1>4. Age(s) < Policies[k].age  BY <1>1, <1>3 DEF LoopInv, PoliciesPassed
<1>5. Age(s) \in Int /\ Policies[k].age \in Int  BY Ages, Started, PolicyTypes DEF LoopInv
<1> QED  BY <1>4, <1>5 DEF Governs

LEMMA LoopInvPolicies == LoopInv => PolicyHeld
<1> SUFFICES ASSUME LoopInv, LoopOver, NEW k \in DOMAIN Policies, NEW s \in listed, Governs(k, s)
             PROVE  /\ s \in Kept =>
                          /\ Policies[k].interval # 0
                          /\ \A u \in Kept : Governs(k, u) /\ u.start < s.start =>
                                getDaysBetween(u.start, s.start) >= Policies[k].interval
                    /\ s \in flagged /\ Policies[k].interval # 0 =>
                          \E u \in Kept : /\ Governs(k, u) /\ u.start < s.start
                                          /\ getDaysBetween(u.start, s.start) < Policies[k].interval
  BY DEF PolicyHeld
<1>1. KeptSoFar \subseteq Kept  BY DEF KeptSoFar, Kept, Judged
<1>2. \A u \in Kept : Governs(k, u) => u \in KeptSoFar
  BY AllJudged DEF KeptSoFar, Kept, Judged
<1> QED  BY <1>1, <1>2 DEF LoopInv, Apart, Close

(* The comment on policies is right about every prune, for every sorted    *)
(* list of policies.                                                       *)
THEOREM PoliciesHeld == Spec => []PolicyHeld
  BY LoopInvariant, LoopInvPolicies, PTL

-----------------------------------------------------------------------------
(* What is left after many prunes.                                         *)

(* A snapshot goes on standing for a backup as time passes, older ones are *)
(* deleted and newer ones made.                                            *)
LEMMA StillStands ==
    ASSUME TypeOK, now' \in Nat, now <= now',
           NEW s \in snapshots, NEW b \in taken, NEW k \in 1 .. Len(Policies) + 1,
           StandsFor(s, b, k),
           \A u \in snapshots' : u \in snapshots \/ ~(u.start < s.start)
    PROVE  StandsFor(s, b, k)'
<1>1. now \in Nat /\ \A u \in snapshots : u \in Snapshot /\ u.start \in Nat
  BY Started
<1>2. ASSUME NEW u \in snapshots PROVE Age(u) \in Int /\ Age(u)' \in Int /\ Age(u) <= Age(u)'
  <2>1. /\ now \div DayLength \in Int /\ now' \div DayLength \in Int
        /\ now \div DayLength <= now' \div DayLength
    BY <1>1, DayOrder
  <2>2. u.start \div DayLength \in Int  BY <1>1, DayOrder
  <2> QED  BY <2>1, <2>2 DEF Age, getDaysBetween
<1>3. ASSUME k \in DOMAIN Policies PROVE Age(s)' >= Policies[k].age /\ Settled(s, k)'
  <2>1. Age(s) >= Policies[k].age /\ Settled(s, k) /\ Policies[k].age \in Int
    BY <1>3, PolicyTypes DEF StandsFor
  <2>2. Age(s)' >= Policies[k].age  BY <1>2, <2>1
  <2>3. ASSUME NEW u \in snapshots', Filter # {} => u.tag \in Filter, u.start < s.start,
               k > 1 => Age(u)' < Policies[k - 1].age
        PROVE  getDaysBetween(u.start, s.start) >= Policies[k].interval
    <3>1. u \in snapshots  BY <2>3
    <3>2. ASSUME k > 1 PROVE Age(u) < Policies[k - 1].age
      <4>1. k - 1 \in DOMAIN Policies  BY <1>3, <3>2, PolicyTypes
      <4>2. Policies[k - 1].age \in Int  BY <4>1, PolicyTypes
      <4> QED  BY <1>2, <2>3, <3>1, <3>2, <4>2
    <3> QED  BY <2>1, <2>3, <3>1, <3>2 DEF Settled
  <2>4. Settled(s, k)'  BY <2>3 DEF Settled, Age, getDaysBetween
  <2> QED  BY <2>2, <2>4
<1>4. s.start <= b.start /\ getDaysBetween(s.start, b.start) <= Reach - gap[k - 1]
  BY DEF StandsFor
<1> QED  BY <1>3, <1>4 DEF StandsFor, Age, getDaysBetween

(* A backup that is expiring goes on expiring. *)
LEMMA StillExpiring ==
    ASSUME TypeOK, now' \in Nat, now <= now', NEW b \in taken, Expiring(b)
    PROVE  Expiring(b)'
<1>1. PICK k \in DOMAIN Policies : Policies[k].interval = 0 /\ Age(b) + Reach >= Policies[k].age
  BY DEF Expiring
<1>2. Reach \in Int /\ Policies[k].age \in Int  BY GapSums, PolicyTypes
<1>3. Age(b) \in Int /\ Age(b)' \in Int /\ Age(b) <= Age(b)'
  <2>1. now \in Nat /\ b.start \in Nat  BY Started
  <2>2. /\ now \div DayLength \in Int /\ now' \div DayLength \in Int
        /\ now \div DayLength <= now' \div DayLength
    BY <2>1, DayOrder
  <2>3. b.start \div DayLength \in Int  BY <2>1, DayOrder
  <2> QED  BY <2>2, <2>3 DEF Age, getDaysBetween
<1>4. Age(b)' + Reach >= Policies[k].age  BY <1>1, <1>2, <1>3
<1> QED  BY <1>1, <1>4 DEF Expiring, Age

(* Steps that delete nothing. *)
LEMMA GrowingHistory ==
    ASSUME TypeOK, Represented, now' \in Nat, now <= now', snapshots \subseteq snapshots',
           \A s \in snapshots : \A u \in snapshots' : u \in snapshots \/ ~(u.start < s.start),
           NEW b \in taken, ~Expiring(b)'
    PROVE  \E s \in snapshots' : \E k \in 1 .. Len(Policies) + 1 : StandsFor(s, b, k)'
<1>1. ~Expiring(b)  BY StillExpiring
<1>2. PICK s \in snapshots, k \in 1 .. Len(Policies) + 1 : StandsFor(s, b, k)
  BY <1>1 DEF Represented
<1>3. StandsFor(s, b, k)'  BY <1>2, StillStands
<1> QED  BY <1>3

(* The snapshots flagged are under a policy, together with a kept one that *)
(* is nearer than its interval.                                            *)
LEMMA FlaggedNearKept ==
    ASSUME LoopInv, LoopOver, NEW s \in flagged
    PROVE  \E k \in DOMAIN Policies :
              /\ Governs(k, s)
              /\ Policies[k].interval # 0 =>
                    \E u \in Kept : /\ Governs(k, u) /\ u.start < s.start
                                    /\ getDaysBetween(u.start, s.start) < Policies[k].interval
<1>1. s \in listed  BY DEF LoopInv, TypeOK
<1>2. PICK k \in DOMAIN Policies : Governs(k, s)  BY DEF LoopInv, PoliciesPassed
<1>3. PolicyHeld  BY LoopInvPolicies
<1> QED  BY <1>1, <1>2, <1>3 DEF PolicyHeld

(* A kept snapshot has settled under its policy when the flagged are gone. *)
LEMMA KeptSettles ==
    ASSUME LoopInv, FinishPrune, NEW k \in DOMAIN Policies, NEW s \in Kept, Governs(k, s)
    PROVE  Settled(s, k)'
<1>1. LoopOver /\ snapshots' = snapshots \ flagged /\ now' = now  BY DEF FinishPrune
<1>2. PolicyHeld  BY LoopInvPolicies
<1>3. s \in listed /\ s \in Snapshot /\ now \in Nat  BY Started DEF Kept, LoopInv
<1>4. ASSUME NEW u \in snapshots \ flagged, Filter # {} => u.tag \in Filter, u.start < s.start,
             k > 1 => Age(u) < Policies[k - 1].age
      PROVE  getDaysBetween(u.start, s.start) >= Policies[k].interval
  <2>1. u \in Snapshot /\ u.start \in Nat /\ s.start \in Nat  BY <1>3, Started DEF LoopInv
  <2>2. u \in listed
    BY <1>3, <1>4, <2>1 DEF LoopInv, InOrder
  <2>3. u \in Kept
    <3>1. ~(s.start <= u.start)  BY <1>4, <2>1
    <3> QED  BY <1>3, <1>4, <2>2, <3>1 DEF Kept, Skipped
  <2>4. Governs(k, u)
    <3>1. Age(u) \in Int /\ Age(s) \in Int /\ Age(u) >= Age(s)  BY <1>3, <1>4, <2>1, Ages
    <3>2. Age(u) >= Policies[k].age  BY <3>1, PolicyTypes DEF Governs
    <3>3. ASSUME NEW l \in 1 .. k - 1 PROVE Age(u) < Policies[l].age
      <4>1. /\ k \in Nat /\ l \in Nat /\ k > 1 /\ l <= k - 1
            /\ k - 1 \in DOMAIN Policies /\ l \in DOMAIN Policies
        BY PolicyTypes
      <4>2. Policies[l].age \in Int /\ Policies[k - 1].age \in Int
        BY <4>1, PolicyTypes
      <4>3. Policies[l].age >= Policies[k - 1].age
        <5>1. CASE l = k - 1  BY <4>2, <5>1
        <5>2. CASE l < k - 1  BY <4>1, <4>2, <5>2, PolicyTypes
        <5> QED  BY <4>1, <5>1, <5>2
      <4> QED  BY <1>4, <3>1, <4>1, <4>2, <4>3
    <3> QED  BY <3>2, <3>3 DEF Governs
  <2> QED  BY <1>1, <1>2, <1>3, <1>4, <2>3, <2>4 DEF PolicyHeld
<1> QED  BY <1>1, <1>4 DEF Settled, Age, getDaysBetween

(* The end of a prune: the nearest kept snapshot stands in for a deleted   *)
(* one, under a policy that none of its losses was due to before.          *)
LEMMA FinishHistory ==
    ASSUME LoopInv, Represented, FinishPrune, NEW b \in taken, ~Expiring(b)'
    PROVE  \E s \in snapshots' : \E k \in 1 .. Len(Policies) + 1 : StandsFor(s, b, k)'
<1>1. /\ LoopOver /\ snapshots' = snapshots \ flagged /\ now' = now /\ now \in Nat /\ now <= now'
      /\ TypeOK
  BY Started DEF FinishPrune, LoopInv
<1>2. ~Expiring(b)  BY <1>1, StillExpiring
<1>3. PICK s \in snapshots, k \in 1 .. Len(Policies) + 1 : StandsFor(s, b, k)
  BY <1>2 DEF Represented
<1>4. CASE s \notin flagged
  BY <1>1, <1>3, <1>4, StillStands
<1>5. CASE s \in flagged
  <2>1. PICK l \in DOMAIN Policies :
           /\ Governs(l, s)
           /\ Policies[l].interval # 0 =>
                 \E u \in Kept : /\ Governs(l, u) /\ u.start < s.start
                                 /\ getDaysBetween(u.start, s.start) < Policies[l].interval
    BY <1>1, <1>5, FlaggedNearKept
  <2>2. s \in Snapshot /\ b \in Snapshot /\ s.start \in Nat /\ b.start \in Nat
    BY <1>1, Started
  <2>3. /\ s.start <= b.start /\ getDaysBetween(s.start, b.start) <= Reach - gap[k - 1]
        /\ k \in DOMAIN Policies => Age(s) >= Policies[k].age /\ Settled(s, k)
    BY <1>3 DEF StandsFor
  <2>4. /\ getDaysBetween(s.start, b.start) \in Int /\ Age(s) \in Int /\ Age(b) \in Int
        /\ Age(s) = Age(b) + getDaysBetween(s.start, b.start)
    BY <1>1, <2>2, Ages
  <2>5. k - 1 \in 0 .. Len(Policies) /\ gap[k - 1] \in Nat /\ Reach \in Nat
    BY PolicyTypes, GapSums
  <2>6. Policies[l].interval # 0
    <3>1. Age(s) >= Policies[l].age /\ Policies[l].age \in Int  BY <2>1, PolicyTypes DEF Governs
    <3>2. Age(b) + Reach >= Policies[l].age  BY <2>3, <2>4, <2>5, <3>1
    <3> QED  BY <1>2, <3>2 DEF Expiring
  <2>7. PICK u \in Kept : /\ Governs(l, u) /\ u.start < s.start
                          /\ getDaysBetween(u.start, s.start) < Policies[l].interval
    BY <2>1, <2>6
  <2>8. u \in Snapshot /\ u \in snapshots' /\ u \in snapshots /\ u.start \in Nat
    BY <1>1, Started DEF Kept
  <2>9. l \in Nat /\ k \in Nat /\ l < k
    <3>1. l \in Nat /\ k \in Nat  BY PolicyTypes
    <3>2. ASSUME k < l PROVE FALSE
      <4>1. k \in 1 .. l - 1 /\ k \in DOMAIN Policies  BY <3>1, <3>2, PolicyTypes
      <4>2. Age(s) < Policies[k].age /\ Age(s) >= Policies[k].age /\ Policies[k].age \in Int
        BY <2>1, <2>3, <4>1, PolicyTypes DEF Governs
      <4> QED  BY <2>4, <4>2
    <3>3. ASSUME k = l PROVE FALSE
      <4>1. Settled(s, l)  BY <2>3, <3>3
      <4>2. ASSUME l > 1 PROVE Age(u) < Policies[l - 1].age
        <5>1. l - 1 \in 1 .. l - 1  BY <3>1, <4>2
        <5> QED  BY <2>7, <5>1 DEF Governs
      <4>3. Filter # {} => u.tag \in Filter  BY DEF Kept, Skipped
      <4>4. getDaysBetween(u.start, s.start) >= Policies[l].interval
        BY <2>7, <2>8, <4>1, <4>2, <4>3 DEF Settled
      <4>5. getDaysBetween(u.start, s.start) \in Int  BY <1>1, <2>2, <2>8, Ages
      <4>6. Policies[l].interval \in Int  BY PolicyTypes
      <4> QED  BY <2>7, <4>4, <4>5, <4>6
    <3> QED  BY <3>1, <3>2, <3>3
  <2>10. u.start <= b.start  BY <2>2, <2>3, <2>7, <2>8
  <2>11. getDaysBetween(u.start, b.start) <= Reach - gap[l - 1]
    <3>1. /\ getDaysBetween(u.start, s.start) \in Int /\ getDaysBetween(u.start, b.start) \in Int
          /\ getDaysBetween(u.start, b.start)
                = getDaysBetween(u.start, s.start) + getDaysBetween(s.start, b.start)
      <4>1. /\ u.start \div DayLength \in Int /\ s.start \div DayLength \in Int
            /\ b.start \div DayLength \in Int
        BY <2>2, <2>8, DayOrder, SMTT(60)
      <4> QED  BY <4>1 DEF getDaysBetween
    <3>2. getDaysBetween(u.start, s.start) <= Loss(l) /\ Loss(l) \in Int
      BY <2>6, <2>7, <3>1, PolicyTypes
    <3>3. gap[l] = gap[l - 1] + Loss(l) /\ gap[l] <= gap[k - 1] /\ gap[l] \in Int /\ gap[l - 1] \in Int
      <4>1. l \in 0 .. Len(Policies) /\ l - 1 \in 0 .. Len(Policies) /\ l <= k - 1
        BY <2>9, PolicyTypes
      <4> QED  BY <2>5, <4>1, GapSums
    <3>4. getDaysBetween(s.start, b.start) <= Reach - gap[k - 1]  BY <2>3
    <3>5. getDaysBetween(s.start, b.start) <= Reach - gap[l]  BY <2>4, <2>5, <3>3, <3>4, SMTT(60)
    <3>6. \A x, y, z, c, r, g \in Int : x = y + z /\ y <= c /\ z <= r - (g + c) => x <= r - g
      OBVIOUS
    <3>7. getDaysBetween(s.start, b.start) <= Reach - (gap[l - 1] + Loss(l))  BY <3>3, <3>5
    <3>8. Reach \in Int  BY <2>5
    <3> QED  BY <2>4, <3>1, <3>2, <3>3, <3>6, <3>7, <3>8, SMTT(60)
  <2>12. Age(u)' >= Policies[l].age  BY <1>1, <2>7 DEF Governs, Age
  <2>13. Settled(u, l)'  BY <2>7, KeptSettles
  <2>14. StandsFor(u, b, l)'  BY <2>10, <2>11, <2>12, <2>13 DEF StandsFor, Age, getDaysBetween
  <2>15. l \in 1 .. Len(Policies) + 1  BY PolicyTypes
  <2> QED  BY <2>8, <2>14, <2>15
<1> QED  BY <1>4, <1>5

LEMMA HistoryStep ==
    ASSUME LoopInv, Represented, [Next]_vars
    PROVE  Represented'
<1>1. TypeOK /\ now \in Nat /\ now <= now  BY Started DEF LoopInv
<1>2. ASSUME UNCHANGED <<now, snapshots, taken>> PROVE Represented'
  BY <1>1, <1>2, GrowingHistory DEF Represented
<1>3. ASSUME NEW tag \in Tags, Backup(tag) PROVE Represented'
  <2> DEFINE L == Len(Policies) + 1
  <2>n. PICK n : n = [start |-> now, tag |-> tag]  OBVIOUS
  <2>1. /\ now' = now /\ snapshots' = snapshots \cup {n} /\ taken' = taken \cup {n}
        /\ \A s \in snapshots : s.start < now
    BY <1>3, <2>n DEF Backup
  <2>2. \A s \in snapshots : \A u \in snapshots' : u \in snapshots \/ ~(u.start < s.start)
    BY <1>1, <2>n, <2>1, Started
  <2>3. StandsFor(n, n, L)'
    <3>1. L \notin DOMAIN Policies /\ L - 1 = Len(Policies)  BY PolicyTypes
    <3>2. n.start <= n.start  BY <1>1, <2>n
    <3>3. getDaysBetween(n.start, n.start) = 0
      <4>1. now \div DayLength \in Int  BY <1>1, DayOrder
      <4> QED  BY <2>n, <4>1 DEF getDaysBetween
    <3>4. Reach - gap[L - 1] = 0
      <4>1. gap[Len(Policies)] \in Nat  BY GapSums, PolicyTypes
      <4> QED  BY <3>1, <4>1, GapSums
    <3>5. getDaysBetween(n.start, n.start) <= Reach - gap[L - 1]  BY <3>3, <3>4
    <3> HIDE DEF L
    <3> QED  BY <3>1, <3>2, <3>5 DEF StandsFor, getDaysBetween
  <2>4. L \in 1 .. Len(Policies) + 1  BY PolicyTypes
  <2>5. snapshots \subseteq snapshots' /\ n \in snapshots'  BY <2>1
  <2> HIDE DEF L
  <2>6. ASSUME NEW b \in taken', ~Expiring(b)'
        PROVE  \E s \in snapshots' : \E k \in 1 .. Len(Policies) + 1 : StandsFor(s, b, k)'
    <3>1. CASE b = n  BY <2>3, <2>4, <2>5, <3>1
    <3>2. CASE b \in taken  BY <1>1, <2>1, <2>2, <2>5, <2>6, <3>2, GrowingHistory
    <3> QED  BY <2>1, <3>1, <3>2
  <2> QED  BY <2>6 DEF Represented
<1>4. CASE Tick
  <2>1. now' \in Nat /\ now <= now' /\ UNCHANGED <<snapshots, taken>>  BY <1>1, <1>4 DEF Tick
  <2> QED  BY <1>1, <2>1, GrowingHistory DEF Represented
<1>5. CASE FinishPrune
  <2>1. taken' = taken  BY <1>5 DEF FinishPrune
  <2> QED  BY <1>5, <2>1, FinishHistory DEF Represented
<1>6. ASSUME NEW e \in BOOLEAN, StartPrune(e) PROVE Represented'  BY <1>2, <1>6 DEF StartPrune
<1>7. ASSUME NEW s \in todo, SkipSnapshot(s) \/ NextPolicy(s) \/ Judge(s) PROVE Represented'
  BY <1>2, <1>7 DEF SkipSnapshot, NextPolicy, Judge
<1>8. CASE UNCHANGED vars  BY <1>2, <1>8 DEF vars
<1> QED  BY <1>3, <1>4, <1>5, <1>6, <1>7, <1>8 DEF Next

LEMMA RepresentedCovers ==
    ASSUME TypeOK, Represented
    PROVE  HistoryCovered
<1> SUFFICES ASSUME NEW b \in taken, ~Expiring(b)
             PROVE  \E s \in snapshots : s.start <= b.start
                                         /\ getDaysBetween(s.start, b.start) <= Reach
  BY DEF HistoryCovered
<1>1. PICK s \in snapshots, k \in 1 .. Len(Policies) + 1 : StandsFor(s, b, k)  BY DEF Represented
<1>2. k - 1 \in 0 .. Len(Policies) /\ gap[k - 1] \in Nat /\ Reach \in Nat  BY PolicyTypes, GapSums
<1>3. getDaysBetween(s.start, b.start) \in Int  BY Ages, Started
<1>4. s.start <= b.start /\ getDaysBetween(s.start, b.start) <= Reach - gap[k - 1]
  BY <1>1 DEF StandsFor
<1>5. getDaysBetween(s.start, b.start) <= Reach  BY <1>2, <1>3, <1>4
<1> QED  BY <1>4, <1>5

(* Prunes do not add up, for every sorted list of policies and every       *)
(* history: what one policy deletes is not deleted again by it, so the     *)
(* losses are those of each policy once.                                   *)
THEOREM HistoryStaysCovered == Spec => []HistoryCovered
<1>1. Init => Represented  BY DEF Init, Represented
<1>2. LoopInv /\ LoopInv' /\ Represented /\ [Next]_vars => Represented'  BY HistoryStep
<1>3. LoopInv /\ Represented => HistoryCovered  BY RepresentedCovers DEF LoopInv
<1> QED  BY <1>1, <1>2, <1>3, LoopInvariant, PTL DEF Spec

=============================================================================
