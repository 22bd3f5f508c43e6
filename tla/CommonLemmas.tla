---------------------------- MODULE CommonLemmas ----------------------------
(***************************************************************************)
(* Facts about numbers, recursive functions and sequences that the proofs  *)
(* of several components use.                                              *)
(***************************************************************************)
EXTENDS Integers, Sequences, SequencesExt, WellFoundedInduction, SequenceTheorems, TLAPS

(* A non-empty set of natural numbers has a smallest element. *)
LEMMA SmallestExists ==
    ASSUME NEW T \in SUBSET Nat, T # {}
    PROVE  \E m \in T : \A n \in T : m <= n
<1> DEFINE R == {p \in Nat \X Nat : p[1] < p[2]}
<1>1. R = OpToRel(<, Nat)
  BY DEF OpToRel
<1>2. IsWellFoundedOn(R, Nat)
  BY <1>1, NatLessThanWellFounded
<1>3. \A n, m \in Nat : n < m => <<n, m>> \in R
  OBVIOUS
<1> HIDE DEF R
<1>4. PICK m \in T : \A n \in T : ~(<<n, m>> \in R)
  BY <1>2, WFMin
<1>5. \A n \in T : m \in Nat /\ n \in Nat /\ ~(n < m)
  BY <1>3, <1>4
<1> QED  BY <1>5

(* Induction on the numbers up to n, with a set for the hypothesis. *)
LEMMA UpTo ==
    ASSUME NEW n \in Nat, NEW G, 0 \in G, \A k \in 1 .. n : k - 1 \in G => k \in G
    PROVE  \A k \in 0 .. n : k \in G
<1> DEFINE Bad == {k \in 0 .. n : k \notin G}
<1>1. SUFFICES ASSUME Bad # {} PROVE FALSE  OBVIOUS
<1>2. PICK k \in Bad : \A m \in Bad : k <= m
  <2>1. Bad \in SUBSET Nat  OBVIOUS
  <2> HIDE DEF Bad
  <2> QED  BY <1>1, <2>1, SmallestExists
<1>3. k \in 1 .. n /\ k \notin G  BY <1>2
<1>4. k - 1 \in 0 .. n /\ ~(k <= k - 1)  BY <1>3
<1>5. k - 1 \in G  BY <1>2, <1>4
<1> QED  BY <1>3, <1>5

\* F gives the next value from the number of a step and the value before it.
StepFunction(F, n, T) == F \in [(1 .. n) \X T -> T]
\* The values of a, one from the other.
Computed(a, n, T, b, F) == a \in [0 .. n -> T] /\ a[0] = b /\ \A i \in 1 .. n : a[i] = F[<<i, a[i - 1]>>]

(* A function whose values are computed one from the other exists. *)
LEMMA RecursionExists ==
    ASSUME NEW n \in Nat, NEW T, NEW b \in T, NEW F, StepFunction(F, n, T)
    PROVE  \E a : Computed(a, n, T, b, F)
<1>0. F \in [(1 .. n) \X T -> T]  BY DEF StepFunction
<1> DEFINE Made(a, k) == a[0] = b /\ \A i \in 1 .. k : a[i] = F[<<i, a[i - 1]>>]
           G == {k \in 0 .. n : \E a \in [0 .. k -> T] : Made(a, k)}
<1>1. 0 \in G
  <2> DEFINE a == [i \in 0 .. 0 |-> b]
  <2>1. a \in [0 .. 0 -> T] /\ Made(a, 0)  OBVIOUS
  <2> HIDE DEF a, Made
  <2>2. 0 \in 0 .. n /\ \E c \in [0 .. 0 -> T] : Made(c, 0)  BY <2>1
  <2> QED  BY <2>2
<1>2. ASSUME NEW k \in 1 .. n, k - 1 \in G PROVE k \in G
  <2>1. PICK a \in [0 .. k - 1 -> T] : Made(a, k - 1)  BY <1>2
  <2>2. a[k - 1] \in T  BY <1>2, <2>1
  <2>3. F[<<k, a[k - 1]>>] \in T  BY <1>0, <2>2
  <2> DEFINE c == [i \in 0 .. k |-> IF i = k THEN F[<<k, a[k - 1]>>] ELSE a[i]]
  <2>4. c \in [0 .. k -> T]  BY <2>1, <2>3
  <2>5. c[0] = b  BY <1>2, <2>1
  <2>6. ASSUME NEW i \in 1 .. k PROVE c[i] = F[<<i, c[i - 1]>>]
    <3>1. CASE i = k
      <4>1. c[i] = F[<<k, a[k - 1]>>] /\ c[k - 1] = a[k - 1]  BY <1>2, <3>1
      <4> HIDE DEF c
      <4> QED  BY <3>1, <4>1
    <3>2. CASE i # k
      <4>1. i \in 1 .. k - 1 /\ c[i] = a[i] /\ c[i - 1] = a[i - 1]  BY <1>2, <3>2
      <4> HIDE DEF c
      <4> QED  BY <2>1, <4>1
    <3> QED  BY <3>1, <3>2
  <2> HIDE DEF c
  <2> QED  BY <2>4, <2>5, <2>6
<1>3. n \in 0 .. n  OBVIOUS
<1> HIDE DEF G
<1>4. \A k \in 0 .. n : k \in G  BY <1>1, <1>2, UpTo
<1>5. n \in G  BY <1>3, <1>4
<1> QED  BY <1>5, Zenon DEF G, Computed

-----------------------------------------------------------------------------
(* Joining is associative, and an element joins at the end. *)
LEMMA Associative ==
    ASSUME NEW S, NEW a \in Seq(S), NEW b \in Seq(S), NEW c \in Seq(S)
    PROVE  a \o b \in Seq(S) /\ (a \o b) \o c = a \o (b \o c)
<1>1. a \o b \in Seq(S)  BY ConcatProperties
<1>2. (a \o b) \o c = a \o (b \o c)  BY ConcatAssociative, SMTT(60)
<1> QED  BY <1>1, <1>2

LEMMA Joined ==
    \A a, b, c \in Seq(Nat) : a \o b \in Seq(Nat) /\ (a \o b) \o c = a \o (b \o c)
BY Associative, SMTT(30)

LEMMA AppendJoins ==
    ASSUME NEW S, NEW a \in Seq(S), NEW b \in Seq(S), NEW c \in S
    PROVE  a \o b \in Seq(S) /\ a \o Append(b, c) = Append(a \o b, c)
<1> DEFINE e == <<c>>
<1>1. Append(b, c) = b \o e /\ e \in Seq(S)  BY AppendIsConcat
<1>2. a \o b \in Seq(S)  BY ConcatProperties
<1>3. Append(a \o b, c) = (a \o b) \o e  BY <1>2, AppendIsConcat
<1> HIDE DEF e
<1>4. (a \o b) \o e = a \o (b \o e)  BY <1>1, Associative, SMTT(30)
<1> QED  BY <1>1, <1>2, <1>3, <1>4

(* The first k elements are the first k - 1 and one more. *)
LEMMA LastOfFirst ==
    ASSUME NEW S, NEW q \in Seq(S), NEW k \in 1 .. Len(q)
    PROVE  /\ SubSeq(q, 1, k - 1) \in Seq(S) /\ q[k] \in S
           /\ SubSeq(q, 1, k) = Append(SubSeq(q, 1, k - 1), q[k])
<1> DEFINE a == SubSeq(q, 1, k)
           b == Append(SubSeq(q, 1, k - 1), q[k])
<1>1. /\ SubSeq(q, 1, k - 1) \in Seq(S) /\ q[k] \in S /\ Len(SubSeq(q, 1, k - 1)) = k - 1
      /\ \A i \in 1 .. k - 1 : SubSeq(q, 1, k - 1)[i] = q[i]
  OBVIOUS
<1>2. a \in Seq(S) /\ Len(a) = k /\ \A i \in 1 .. k : a[i] = q[i]  OBVIOUS
<1>3. b \in Seq(S) /\ Len(b) = k /\ \A i \in 1 .. k : b[i] = q[i]  BY <1>1
<1> HIDE DEF a, b
<1>4. a = b  BY <1>2, <1>3, SeqEqual
<1> QED  BY <1>1, <1>4 DEF a, b

(* The elements of a sequence of sequences put one after the other.        *)

\* f[i] holds the first i elements of q one after the other.
Joins(f, q, n) == f = [i \in 1 .. n |-> IF i = 1 THEN q[i] ELSE f[i - 1] \o q[i]]

(* The function FlattenSeq is defined by exists, and gives sequences. *)
LEMMA JoinsExists ==
    ASSUME NEW S, NEW q \in Seq(Seq(S)), NEW n \in 0 .. Len(q)
    PROVE  \E f \in [1 .. n -> Seq(S)] : Joins(f, q, n)
<1> DEFINE Bad == {k \in 0 .. Len(q) : ~ \E f \in [1 .. k -> Seq(S)] : Joins(f, q, k)}
<1>1. Len(q) \in Nat /\ \A i \in 1 .. Len(q) : q[i] \in Seq(S)  OBVIOUS
<1>2. Bad = {}
  <2>1. SUFFICES ASSUME Bad # {} PROVE FALSE  OBVIOUS
  <2>2. PICK k \in Bad : \A m \in Bad : k <= m
    <3>1. Bad \in SUBSET Nat  BY <1>1
    <3> HIDE DEF Bad
    <3> QED  BY <2>1, <3>1, SmallestExists
  <2>3. k \in 0 .. Len(q) /\ k \in Nat  BY <1>1, <2>2
  <2>4. CASE k = 0
    <3> DEFINE f == [i \in 1 .. 0 |-> q[i]]
    <3>1. f \in [1 .. 0 -> Seq(S)]  OBVIOUS
    <3>2. Joins(f, q, 0)  BY DEF Joins
    <3> HIDE DEF f
    <3>3. \E g \in [1 .. 0 -> Seq(S)] : Joins(g, q, 0)  BY <3>1, <3>2
    <3> QED  BY <2>2, <2>4, <3>3, ZenonT(60)
  <2>5. CASE k # 0
    <3>1. k - 1 \in 0 .. Len(q) /\ k - 1 \notin Bad
      <4>1. k - 1 \in 0 .. Len(q) /\ ~(k <= k - 1)  BY <1>1, <2>3, <2>5
      <4> HIDE DEF Bad
      <4> QED  BY <2>2, <4>1
    <3>2. PICK f \in [1 .. k - 1 -> Seq(S)] : Joins(f, q, k - 1)  BY <3>1
    <3> DEFINE last == IF k = 1 THEN q[k] ELSE f[k - 1] \o q[k]
               h == [i \in 1 .. k |-> IF i = k THEN last ELSE f[i]]
    <3>3. last \in Seq(S)
      <4>1. q[k] \in Seq(S)  BY <1>1, <2>3, <2>5
      <4>2. k # 1 => f[k - 1] \in Seq(S)  BY <2>3, <2>5, <3>2
      <4> QED  BY <4>1, <4>2
    <3>4. h \in [1 .. k -> Seq(S)]  BY <2>3, <3>2, <3>3
    <3>5. ASSUME NEW i \in 1 .. k
          PROVE  h[i] = IF i = 1 THEN q[i] ELSE h[i - 1] \o q[i]
      <4>1. CASE i = k  BY <2>3, <4>1
      <4>2. CASE i # k
        <5>1. i \in 1 .. k - 1 /\ (i # 1 => i - 1 \in 1 .. k - 1)  BY <2>3, <4>2
        <5>2. f[i] = IF i = 1 THEN q[i] ELSE f[i - 1] \o q[i]  BY <3>2, <5>1, ZenonT(60) DEF Joins
        <5>3. h[i] = f[i] /\ (i # 1 => h[i - 1] = f[i - 1])  BY <2>3, <4>2, <5>1
        <5> QED  BY <5>2, <5>3
      <4> QED  BY <4>1, <4>2
    <3>6. Joins(h, q, k)
      <4> DEFINE r == [i \in 1 .. k |-> IF i = 1 THEN q[i] ELSE h[i - 1] \o q[i]]
      <4>1. \A i \in 1 .. k : h[i] = r[i]  BY <3>5
      <4>2. h = [i \in 1 .. k |-> h[i]]  OBVIOUS
      <4> HIDE DEF h
      <4>3. r = [i \in 1 .. k |-> r[i]]  OBVIOUS
      <4>4. h = r
        <5> HIDE DEF r
        <5> QED  BY <4>1, <4>2, <4>3
      <4> QED  BY <4>4 DEF Joins
    <3> QED  BY <2>2, <3>4, <3>6
  <2> QED  BY <2>4, <2>5
<1> QED  BY <1>1, <1>2

(* Two such functions agree. *)
LEMMA JoinsUnique ==
    ASSUME NEW S, NEW q \in Seq(Seq(S)), NEW n \in 0 .. Len(q), NEW m \in 0 .. Len(q),
           NEW f, Joins(f, q, n), NEW g, Joins(g, q, m), NEW k \in 1 .. n, k <= m
    PROVE  f[k] = g[k]
<1> DEFINE Bad == {i \in 1 .. n : i <= m /\ f[i] # g[i]}
<1>1. Bad = {}
  <2>1. SUFFICES ASSUME Bad # {} PROVE FALSE  OBVIOUS
  <2>2. PICK i \in Bad : \A j \in Bad : i <= j
    <3>1. Bad \in SUBSET Nat  OBVIOUS
    <3> HIDE DEF Bad
    <3> QED  BY <2>1, <3>1, SmallestExists
  <2>3. i \in 1 .. n /\ i \in 1 .. m /\ f[i] # g[i]  BY <2>2
  <2>4. f[i] = IF i = 1 THEN q[i] ELSE f[i - 1] \o q[i]  BY <2>3, ZenonT(60) DEF Joins
  <2>5. g[i] = IF i = 1 THEN q[i] ELSE g[i - 1] \o q[i]  BY <2>3, ZenonT(60) DEF Joins
  <2>6. i # 1 => i - 1 \in 1 .. n /\ i - 1 <= m /\ ~(i <= i - 1)  BY <2>3
  <2>7. i # 1 => f[i - 1] = g[i - 1]  BY <2>2, <2>6
  <2> QED  BY <2>3, <2>4, <2>5, <2>7
<1> QED  BY <1>1

(* What such a function ends in is what FlattenSeq gives. *)
LEMMA FlattenIs ==
    ASSUME NEW S, NEW q \in Seq(Seq(S)), Len(q) # 0, NEW f, Joins(f, q, Len(q))
    PROVE  FlattenSeq(q) = f[Len(q)]
<1> DEFINE c == CHOOSE g : Joins(g, q, Len(q))
<1>1. Joins(c, q, Len(q))  BY ZenonT(60)
<1>2. FlattenSeq(q) = c[Len(q)]  BY ZenonT(60) DEF FlattenSeq, Joins
<1>3. Len(q) \in 0 .. Len(q) /\ Len(q) \in 1 .. Len(q) /\ Len(q) <= Len(q)  OBVIOUS
<1> HIDE DEF c
<1>4. c[Len(q)] = f[Len(q)]  BY <1>1, <1>3, JoinsUnique
<1> QED  BY <1>2, <1>4

(* FlattenSeq gives a sequence, and one more element comes at its end. *)
LEMMA FlattenAppend ==
    ASSUME NEW S, NEW q \in Seq(Seq(S)), NEW c \in Seq(S)
    PROVE  /\ FlattenSeq(q) \in Seq(S)
           /\ FlattenSeq(Append(q, c)) = FlattenSeq(q) \o c
           /\ q = <<>> => FlattenSeq(q) = <<>>
<1> DEFINE n == Len(q)
           p == Append(q, c)
<1>1. n \in Nat /\ p \in Seq(Seq(S)) /\ Len(p) = n + 1 /\ p[n + 1] = c /\ \A i \in 1 .. n : p[i] = q[i]
  OBVIOUS
<1>2. PICK f \in [1 .. n -> Seq(S)] : Joins(f, q, n)
  <2>1. n \in 0 .. Len(q)  BY <1>1
  <2> QED  BY <2>1, JoinsExists
<1>3. PICK g \in [1 .. n + 1 -> Seq(S)] : Joins(g, p, n + 1)
  <2>1. n + 1 \in 0 .. Len(p)  BY <1>1
  <2> HIDE DEF p, n
  <2> QED  BY <1>1, <2>1, JoinsExists
<1>4. FlattenSeq(p) = g[n + 1]
  <2> HIDE DEF p
  <2>1. Len(p) # 0 /\ Joins(g, p, Len(p))  BY <1>1, <1>3
  <2> QED  BY <1>1, <2>1, FlattenIs
<1>5. g[n + 1] = IF n = 0 THEN c ELSE g[n] \o c
  <2> SUFFICES ASSUME NEW j, j = n + 1 PROVE g[j] = IF n = 0 THEN c ELSE g[n] \o c  OBVIOUS
  <2>1. j \in 1 .. n + 1 /\ (j = 1 <=> n = 0) /\ j - 1 = n /\ p[j] = c  BY <1>1
  <2> HIDE DEF n, p
  <2>2. g[j] = IF j = 1 THEN p[j] ELSE g[j - 1] \o p[j]  BY <1>3, <2>1, ZenonT(60) DEF Joins
  <2> QED  BY <2>1, <2>2, ZenonT(60)
<1>6. CASE n = 0
  <2>1. q = <<>>  BY <1>6
  <2>2. FlattenSeq(q) = q  BY <1>6, ZenonT(60) DEF FlattenSeq
  <2>3. q \o c = c /\ q \in Seq(S)  BY <2>1
  <2>4. FlattenSeq(p) = c
    <3> HIDE DEF n, p
    <3> QED  BY <1>4, <1>5, <1>6
  <2>5. FlattenSeq(p) = FlattenSeq(q) \o c  BY <2>2, <2>3, <2>4, ZenonT(60)
  <2> QED  BY <2>1, <2>2, <2>3, <2>5, ZenonT(60)
<1>7. CASE n # 0
  <2>1. FlattenSeq(q) = f[n]  BY <1>2, <1>7, FlattenIs
  <2>2. n \in 1 .. n  BY <1>1, <1>7
  <2>3. f[n] \in Seq(S)  BY <1>2, <2>2
  <2> DEFINE h == [i \in 1 .. n |-> g[i]]
  <2>4. ASSUME NEW i \in 1 .. n
        PROVE  h[i] = IF i = 1 THEN q[i] ELSE h[i - 1] \o q[i]
    <3>1. i \in 1 .. n + 1 /\ p[i] = q[i] /\ (i # 1 => i - 1 \in 1 .. n)  BY <1>1
    <3>2. g[i] = IF i = 1 THEN p[i] ELSE g[i - 1] \o p[i]  BY <1>3, <3>1, ZenonT(60) DEF Joins
    <3>3. h[i] = g[i] /\ (i # 1 => h[i - 1] = g[i - 1])  BY <3>1
    <3> QED  BY <3>1, <3>2, <3>3
  <2>5. Joins(h, q, n)
    <3> DEFINE r == [i \in 1 .. n |-> IF i = 1 THEN q[i] ELSE h[i - 1] \o q[i]]
    <3>1. \A i \in 1 .. n : h[i] = r[i]  BY <2>4
    <3>2. h = [i \in 1 .. n |-> h[i]]  OBVIOUS
    <3> HIDE DEF h
    <3>3. r = [i \in 1 .. n |-> r[i]]  OBVIOUS
    <3>4. h = r
      <4> HIDE DEF r
      <4> QED  BY <3>1, <3>2, <3>3
    <3> QED  BY <3>4 DEF Joins
  <2>6. FlattenSeq(q) = h[n]
    <3> HIDE DEF h
    <3> QED  BY <1>7, <2>5, FlattenIs
  <2>7. h[n] = g[n]  BY <2>2
  <2>8. FlattenSeq(p) = g[n] \o c
    <3> HIDE DEF n, p
    <3> QED  BY <1>4, <1>5, <1>7
  <2>9. q # <<>>  BY <1>7
  <2>10. FlattenSeq(p) = FlattenSeq(q) \o c  BY <2>6, <2>7, <2>8, ZenonT(60)
  <2> QED  BY <2>1, <2>3, <2>9, <2>10, ZenonT(60)
<1> QED  BY <1>6, <1>7

(* Sequences put one after the other: all of two lists of them. *)
LEMMA FlattenJoin ==
    ASSUME NEW S, NEW p \in Seq(Seq(S)), NEW q \in Seq(Seq(S))
    PROVE  FlattenSeq(p \o q) = FlattenSeq(p) \o FlattenSeq(q)
<1> DEFINE n == Len(q)
           First(k) == SubSeq(q, 1, k)
           G == {k \in 0 .. n : FlattenSeq(p \o First(k)) = FlattenSeq(p) \o FlattenSeq(First(k))}
<1>1. n \in Nat /\ FlattenSeq(p) \in Seq(S) /\ <<>> \in Seq(Seq(S))
  <2>1. <<>> \in Seq(S)  OBVIOUS
  <2> QED  BY <2>1, FlattenAppend
<1>2. 0 \in G
  <2>1. First(0) = <<>> /\ p \o <<>> = p  BY <1>1
  <2>2. FlattenSeq(<<>>) = <<>>
    <3>1. <<>> \in Seq(S)  OBVIOUS
    <3> QED  BY <1>1, <3>1, FlattenAppend
  <2>3. FlattenSeq(p) \o <<>> = FlattenSeq(p)  BY <1>1, ConcatEmptySeq
  <2>4. 0 \in 0 .. n  BY <1>1
  <2> HIDE DEF First
  <2>5. FlattenSeq(p \o First(0)) = FlattenSeq(p) \o FlattenSeq(First(0))  BY <2>1, <2>2, <2>3, Zenon
  <2> QED  BY <2>4, <2>5
<1>3. ASSUME NEW k \in 1 .. n, k - 1 \in G PROVE k \in G
  <2> DEFINE c == q[k]
             r == First(k - 1)
             x == FlattenSeq(p)
             y == FlattenSeq(r)
  <2>1. c \in Seq(S) /\ r \in Seq(Seq(S)) /\ First(k) = Append(r, c)  BY LastOfFirst
  <2>2. FlattenSeq(p \o r) = x \o y  BY <1>3
  <2> HIDE DEF G, First
  <2>3. FlattenSeq(First(k)) = y \o c /\ y \in Seq(S) /\ x \in Seq(S)
    <3> HIDE DEF r, c
    <3> QED  BY <1>1, <2>1, FlattenAppend
  <2>4. FlattenSeq(p \o First(k)) = FlattenSeq(p \o r) \o c
    <3> HIDE DEF r, c
    <3> DEFINE T == Seq(S)
    <3>1. p \in Seq(T) /\ r \in Seq(T) /\ c \in T  BY <2>1
    <3> HIDE DEF T
    <3>2. p \o r \in Seq(T) /\ p \o Append(r, c) = Append(p \o r, c)  BY <3>1, AppendJoins, SMTT(30)
    <3>3. p \o r \in Seq(Seq(S)) /\ p \o First(k) = Append(p \o r, c)  BY <2>1, <3>2 DEF T
    <3> DEFINE z == p \o r
    <3>4. z \in Seq(Seq(S)) /\ p \o First(k) = Append(z, c) /\ c \in Seq(S)  BY <2>1, <3>3
    <3> HIDE DEF z
    <3>5. FlattenSeq(Append(z, c)) = FlattenSeq(z) \o c  BY <3>4, FlattenAppend
    <3> QED  BY <3>4, <3>5 DEF z
  <2>5. (x \o y) \o c = x \o (y \o c)
    <3> HIDE DEF r, c, x, y
    <3>1. x \in Seq(S) /\ y \in Seq(S) /\ c \in Seq(S)  BY <2>1, <2>3, Zenon
    <3> QED  BY <3>1, Associative, SMTT(60)
  <2>6. FlattenSeq(p \o First(k)) = x \o FlattenSeq(First(k))  BY <2>2, <2>3, <2>4, <2>5, Zenon
  <2> QED  BY <2>6 DEF G
<1>4. First(n) = q /\ n \in 0 .. n  BY <1>1
<1> HIDE DEF G, n
<1>5. n \in G  BY <1>1, <1>2, <1>3, <1>4, UpTo
<1> HIDE DEF First
<1> QED  BY <1>4, <1>5 DEF G

=============================================================================
