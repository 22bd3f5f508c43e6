---------------------------- MODULE BackupProofs ----------------------------
(***************************************************************************)
(* Proofs about the entry list and about backups one after the other, for  *)
(* any number of files, links, chunks, changes and uploads under way.      *)
(***************************************************************************)
EXTENDS Backup, CommonLemmas, FiniteSetTheorems

-----------------------------------------------------------------------------
(* Entries and where they lead.                                            *)

Data == Seq(Nat)

EntryType == [path : Paths, size : Int, time : Int, link : Int, hash : Data,
              startChunk : Int, startOffset : Int, endChunk : Int, endOffset : Int]

\* An entry that leads to its content in the chunks; one without content takes no place.
Placed(chunks, e) == RightEntry(chunks, e) /\ (e.size <= 0 => e.startChunk = 0 /\ e.endChunk = 0)

(* Equal stretches of two sequences. *)
LEMMA SameStretch ==
    ASSUME NEW S, NEW s, NEW t, NEW m \in Int, NEW n \in Int, NEW d \in Int,
           \A i \in m .. n : s[i] \in S /\ t[i + d] = s[i]
    PROVE  SubSeq(s, m, n) \in Seq(S) /\ SubSeq(t, m + d, n + d) = SubSeq(s, m, n)
<1> DEFINE a == SubSeq(s, m, n)
           b == SubSeq(t, m + d, n + d)
           l == IF m <= n THEN n - m + 1 ELSE 0
<1>1. a \in Seq(S) /\ Len(a) = l /\ \A i \in 1 .. n - m + 1 : a[i] = s[m + i - 1]  BY SubSeqProperties
<1>2. \A i \in m + d .. n + d : t[i] \in S
  <2>1. ASSUME NEW i \in m + d .. n + d PROVE t[i] \in S
    <3>1. i - d \in m .. n /\ (i - d) + d = i  OBVIOUS
    <3> QED  BY <3>1
  <2> QED  BY <2>1
<1>3. /\ b \in Seq(S) /\ Len(b) = l
      /\ \A i \in 1 .. (n + d) - (m + d) + 1 : b[i] = t[(m + d) + i - 1]
  <2>1. m + d \in Int /\ n + d \in Int /\ (m + d <= n + d <=> m <= n) /\ (n + d) - (m + d) + 1 = n - m + 1  OBVIOUS
  <2>2. \A u, v \in Int : (\A i \in u .. v : t[i] \in S) =>
           /\ SubSeq(t, u, v) \in Seq(S) /\ Len(SubSeq(t, u, v)) = IF u <= v THEN v - u + 1 ELSE 0
           /\ \A i \in 1 .. v - u + 1 : SubSeq(t, u, v)[i] = t[u + i - 1]
    BY SubSeqProperties
  <2> QED  BY <1>2, <2>1, <2>2
<1>4. ASSUME NEW i \in 1 .. l PROVE a[i] = b[i]
  <2>1. i \in 1 .. n - m + 1 /\ i \in 1 .. (n + d) - (m + d) + 1 /\ m + i - 1 \in m .. n
        /\ (m + d) + i - 1 = (m + i - 1) + d
    OBVIOUS
  <2>2. a[i] = s[m + i - 1] /\ b[i] = t[(m + i - 1) + d]
    <3> HIDE DEF a, b, l
    <3> QED  BY <1>1, <1>3, <2>1
  <2> HIDE DEF a, b, l
  <2> QED  BY <2>1, <2>2
<1> HIDE DEF a, b, l
<1>5. a = b  BY <1>1, <1>3, <1>4, SeqEqual
<1> QED  BY <1>1, <1>5 DEF a, b

(* The bytes of s from m to n stand in t as well, d places further on. *)
StandsIn(s, t, m, n, d) == /\ m \in Int /\ n \in Int /\ d \in Int
                           /\ \A i \in m .. n : s[i] \in Nat /\ t[i + d] = s[i]
SameIn(s, t, m, n, d) == SubSeq(t, m + d, n + d) = SubSeq(s, m, n)

(* Bytes that stand elsewhere as well are the same stretch there. *)
LEMMA StandsInSame ==
    ASSUME NEW s, NEW t, NEW m, NEW n, NEW d, StandsIn(s, t, m, n, d)
    PROVE  SameIn(s, t, m, n, d)
BY SameStretch DEF StandsIn, SameIn

(* An entry that is moved along with its chunks leads to the same content. *)
LEMMA RightMoves ==
    ASSUME NEW c, NEW d, NEW e, NEW f, NEW n \in Int,
           e.size \in Int, e.startChunk \in Int, e.endChunk \in Int, Len(c) \in Nat, Len(d) \in Nat,
           \A i \in 1 .. Len(c) : c[i] \in Data,
           RightEntry(c, e),
           f.size = e.size, f.hash = e.hash, f.startOffset = e.startOffset, f.endOffset = e.endOffset,
           e.size > 0 => /\ f.startChunk = e.startChunk + n /\ f.endChunk = e.endChunk + n
                         /\ 0 <= f.startChunk /\ f.endChunk < Len(d)
                         /\ \A i \in e.startChunk + 1 .. e.endChunk + 1 : d[i + n] = c[i]
    PROVE  RightEntry(d, f)
<1>1. CASE ~(e.size > 0)
  <2>1. checkEntry(d, f)  BY <1>1 DEF RightEntry, checkEntry
  <2>2. Content(d, f) = <<>> /\ Content(c, e) = <<>>  BY <1>1 DEF Content
  <2> QED  BY <2>1, <2>2 DEF RightEntry
<1>2. CASE e.size > 0
  <2> DEFINE s == e.startChunk
             t == e.endChunk
  <2>1. /\ e.size >= 0 /\ 0 <= s /\ s <= t /\ t < Len(c)
        /\ e.startOffset < Length(c, s, s) /\ e.endOffset <= Length(c, t, t)
        /\ e.size = Length(c, s, t - 1) - e.startOffset + e.endOffset
    BY <1>2 DEF RightEntry, checkEntry
  <2>2. s \in Int /\ t \in Int /\ f.startChunk = s + n /\ f.endChunk = t + n /\ 0 <= s + n /\ t + n < Len(d)
    BY <1>2
  <2>3. \A i \in s + 1 .. t + 1 : c[i] \in Data /\ d[i + n] = c[i]  BY <1>2, <2>1, SMTT(60)
  <2> HIDE DEF s, t
  <2>4. ASSUME NEW x \in Int, NEW y \in Int, s <= x, y <= t
        PROVE  SubSeq(d, (x + n) + 1, (y + n) + 1) = SubSeq(c, x + 1, y + 1)
    <3>1. x + 1 \in Int /\ y + 1 \in Int /\ (x + n) + 1 = (x + 1) + n /\ (y + n) + 1 = (y + 1) + n  OBVIOUS
    <3>2. \A i \in x + 1 .. y + 1 : c[i] \in Data /\ d[i + n] = c[i]  BY <2>2, <2>3, <2>4
    <3>3. SubSeq(d, (x + 1) + n, (y + 1) + n) = SubSeq(c, x + 1, y + 1)  BY <3>1, <3>2, SameStretch
    <3> QED  BY <3>1, <3>3
  <2>5. /\ Length(d, s + n, s + n) = Length(c, s, s) /\ Length(d, t + n, t + n) = Length(c, t, t)
        /\ Length(d, s + n, (t - 1) + n) = Length(c, s, t - 1)
    <3>1. s <= s /\ s <= t /\ t <= t /\ t - 1 \in Int /\ t - 1 <= t  BY <2>1, <2>2
    <3>2. SubSeq(d, (s + n) + 1, (s + n) + 1) = SubSeq(c, s + 1, s + 1)  BY <2>2, <2>4, <3>1
    <3>3. SubSeq(d, (t + n) + 1, (t + n) + 1) = SubSeq(c, t + 1, t + 1)  BY <2>2, <2>4, <3>1
    <3>4. SubSeq(d, (s + n) + 1, ((t - 1) + n) + 1) = SubSeq(c, s + 1, (t - 1) + 1)  BY <2>2, <2>4, <3>1
    <3> QED  BY <3>2, <3>3, <3>4, Zenon DEF Length
  <2>6. (t - 1) + n = (t + n) - 1  BY <2>2
  <2>7. /\ f.size >= 0 /\ 0 <= f.startChunk /\ f.startChunk <= f.endChunk /\ f.endChunk < Len(d)
        /\ f.startOffset < Length(d, f.startChunk, f.startChunk) /\ f.endOffset <= Length(d, f.endChunk, f.endChunk)
        /\ f.size = Length(d, f.startChunk, f.endChunk - 1) - f.startOffset + f.endOffset /\ f.size > 0
    <3>1. s + n <= t + n  BY <2>1, <2>2
    <3>2. Length(d, s + n, (t + n) - 1) = Length(c, s, t - 1)  BY <2>5, <2>6
    <3> QED  BY <1>2, <2>1, <2>2, <2>5, <3>1, <3>2
  <2>8. checkEntry(d, f)  BY <2>7, Zenon DEF checkEntry
  <2>9. SubSeq(d, f.startChunk + 1, f.endChunk + 1) = SubSeq(c, s + 1, t + 1)
    <3>1. s <= s /\ t <= t  BY <2>2
    <3>2. SubSeq(d, (s + n) + 1, (t + n) + 1) = SubSeq(c, s + 1, t + 1)  BY <2>2, <2>4, <3>1
    <3> QED  BY <2>2, <3>2
  <2>10. Content(d, f) = Content(c, e)  BY <1>2, <2>9 DEF Content, s, t
  <2> QED  BY <2>8, <2>10 DEF RightEntry
<1> QED  BY <1>1, <1>2

-----------------------------------------------------------------------------
(* Reading the entries of a snapshot.                                      *)

Located == [end : Int, out : Seq(EntryType)]

\* An entry of a snapshot, counted from where the one before it ends.
Moved(e, from) == [e EXCEPT !.startChunk = e.startChunk + from, !.endChunk = e.endChunk + (e.startChunk + from)]

(* One more entry decoded: its chunks moved by where the entry before it ended. *)
LEMMA DecodeEntryTyped ==
    ASSUME NEW st \in Located, NEW e \in EntryType
    PROVE  /\ DecodeEntry(st, e) \in Located /\ Len(DecodeEntry(st, e).out) = Len(st.out) + 1
           /\ \A i \in 1 .. Len(st.out) : DecodeEntry(st, e).out[i] = st.out[i]
           /\ DecodeEntry(st, e).end = e.endChunk + (e.startChunk + st.end)
           /\ DecodeEntry(st, e).out[Len(st.out) + 1] = Moved(e, st.end)
<1> DEFINE s == e.startChunk + st.end
           t == e.endChunk + s
           d == [e EXCEPT !.startChunk = s, !.endChunk = t]
           q == st.out
<1>1. e.startChunk \in Int /\ e.endChunk \in Int /\ st.end \in Int /\ q \in Seq(EntryType)
  BY DEF EntryType, Located
<1>2. s \in Int /\ t \in Int  BY <1>1
<1>3. d \in EntryType
  <2> HIDE DEF s, t
  <2> QED  BY <1>2 DEF EntryType
<1>4. DecodeEntry(st, e) = [end |-> t, out |-> Append(q, d)]  BY DEF DecodeEntry
<1> HIDE DEF s, t, d, q
<1>5. /\ Append(q, d) \in Seq(EntryType) /\ Len(Append(q, d)) = Len(q) + 1 /\ Append(q, d)[Len(q) + 1] = d
      /\ \A i \in 1 .. Len(q) : Append(q, d)[i] = q[i]
  BY <1>1, <1>3
<1>6. DecodeEntry(st, e) \in Located  BY <1>2, <1>4, <1>5 DEF Located
<1>7. Moved(e, st.end) = d  BY Zenon DEF Moved, s, t, d
<1> QED  BY <1>4, <1>5, <1>6, <1>7 DEF s, t, q

(* The states of the reading come one from the other. *)
LEMMA DecodeSteps ==
    ASSUME NEW coded \in Seq(EntryType)
    PROVE  /\ DecodeStates(coded) \in [0 .. Len(coded) -> Located]
           /\ DecodeStates(coded)[0] = [end |-> 0, out |-> <<>>]
           /\ \A k \in 1 .. Len(coded) :
                 DecodeStates(coded)[k] = DecodeEntry(DecodeStates(coded)[k - 1], coded[k])
<1> DEFINE n == Len(coded)
           b == [end |-> 0, out |-> <<>>]
           T == Located
           F == [p \in (1 .. n) \X T |-> DecodeEntry(p[2], coded[p[1]])]
           Is(st) == st = [k \in 0 .. n |-> IF k = 0 THEN b ELSE DecodeEntry(st[k - 1], coded[k])]
<1>1. n \in Nat /\ \A k \in 1 .. n : coded[k] \in EntryType  OBVIOUS
<1>2. b \in T  BY DEF Located
<1>3. \A k \in 1 .. n : \A x \in T : DecodeEntry(x, coded[k]) \in T  BY <1>1, DecodeEntryTyped
<1> HIDE DEF T, b, n
<1>4. StepFunction(F, n, T)
  <2>1. \A p \in (1 .. n) \X T : DecodeEntry(p[2], coded[p[1]]) \in T  BY <1>3
  <2>2. F \in [(1 .. n) \X T -> T]  BY <2>1
  <2> QED  BY <2>2, Zenon DEF StepFunction
<1>5. \A k \in 1 .. n : \A x \in T : F[<<k, x>>] = DecodeEntry(x, coded[k])  OBVIOUS
<1> HIDE DEF F
<1>6. PICK a : Computed(a, n, T, b, F)  BY <1>1, <1>2, <1>4, RecursionExists
<1>7. a \in [0 .. n -> T] /\ a[0] = b /\ \A k \in 1 .. n : a[k] = F[<<k, a[k - 1]>>]
  BY <1>6, Zenon DEF Computed
<1>8. Is(a)
  <2>1. ASSUME NEW k \in 0 .. n PROVE a[k] = IF k = 0 THEN b ELSE DecodeEntry(a[k - 1], coded[k])
    <3>1. CASE k = 0  BY <1>7, <3>1
    <3>2. CASE k # 0
      <4>1. k \in 1 .. n /\ k - 1 \in 0 .. n  BY <1>1, <3>2
      <4>2. a[k - 1] \in T /\ a[k] = F[<<k, a[k - 1]>>]  BY <1>7, <4>1
      <4>3. F[<<k, a[k - 1]>>] = DecodeEntry(a[k - 1], coded[k])  BY <1>5, <4>1, <4>2
      <4> QED  BY <3>2, <4>2, <4>3
    <3> QED  BY <3>1, <3>2
  <2>2. a = [k \in 0 .. n |-> a[k]]  BY <1>7
  <2> QED  BY <2>1, <2>2, Zenon
<1> DEFINE c == CHOOSE st : Is(st)
<1>9. Is(c)  BY <1>8, Zenon
<1>10. DecodeStates(coded) = c  BY Zenon DEF DecodeStates, n, b
<1> HIDE DEF c
<1>11. DOMAIN c = 0 .. n /\ c = [k \in 0 .. n |-> c[k]]  BY <1>9
<1>12. \A k \in 0 .. n : c[k] = IF k = 0 THEN b ELSE DecodeEntry(c[k - 1], coded[k])  BY <1>9, Zenon
<1>13. c[0] = b  BY <1>1, <1>12
<1>14. ASSUME NEW k \in 1 .. n PROVE c[k] = DecodeEntry(c[k - 1], coded[k])
  <2>1. k \in 0 .. n /\ k # 0  BY <1>1
  <2> QED  BY <1>12, <2>1, Zenon
<1> DEFINE G == {k \in 0 .. n : c[k] \in T}
<1>15. 0 \in G  BY <1>1, <1>2, <1>13
<1>16. ASSUME NEW k \in 1 .. n, k - 1 \in G PROVE k \in G
  <2>1. k \in 0 .. n /\ c[k - 1] \in T  BY <1>1, <1>16
  <2>2. c[k] \in T  BY <1>3, <1>14, <2>1
  <2> QED  BY <2>1, <2>2
<1> HIDE DEF G
<1>17. \A k \in 0 .. n : k \in G  BY <1>1, <1>15, <1>16, UpTo
<1>18. c \in [0 .. n -> T]
  <2>1. \A k \in 0 .. n : c[k] \in T  BY <1>17 DEF G
  <2> QED  BY <1>11, <2>1
<1>19. /\ c \in [0 .. n -> T] /\ c[0] = b
       /\ \A k \in 1 .. n : c[k] = DecodeEntry(c[k - 1], coded[k])
  BY <1>13, <1>14, <1>18
<1> QED  BY <1>10, <1>19, Zenon DEF n, b, T

(* Entry by entry, when it is known where each ends. *)
LEMMA Decoded ==
    ASSUME NEW coded \in Seq(EntryType), NEW ends, ends[0] = 0,
           \A k \in 1 .. Len(coded) : ends[k] = coded[k].endChunk + (coded[k].startChunk + ends[k - 1])
    PROVE  /\ ListRemoteFiles(coded) \in Seq(EntryType) /\ Len(ListRemoteFiles(coded)) = Len(coded)
           /\ \A k \in 1 .. Len(coded) : ListRemoteFiles(coded)[k] = Moved(coded[k], ends[k - 1])
<1> DEFINE D == DecodeStates(coded)
           n == Len(coded)
           Good(k) == /\ D[k].end = ends[k] /\ Len(D[k].out) = k
                      /\ \A i \in 1 .. k : D[k].out[i] = Moved(coded[i], ends[i - 1])
           G == {k \in 0 .. n : Good(k)}
<1>1. n \in Nat /\ \A k \in 1 .. n : coded[k] \in EntryType  OBVIOUS
<1>2. D \in [0 .. n -> Located] /\ D[0] = [end |-> 0, out |-> <<>>]
      /\ \A k \in 1 .. n : D[k] = DecodeEntry(D[k - 1], coded[k])
  BY DecodeSteps
<1> HIDE DEF D, n
<1>3. 0 \in G
  <2>1. D[0].end = 0 /\ D[0].out = <<>> /\ 0 \in 0 .. n  BY <1>1, <1>2
  <2>2. D[0].end = ends[0] /\ Len(D[0].out) = 0  BY <2>1
  <2> QED  BY <2>1, <2>2
<1>4. ASSUME NEW k \in 1 .. n, k - 1 \in G PROVE k \in G
  <2> DEFINE st == D[k - 1]
             e == coded[k]
  <2>1. k - 1 \in 0 .. n /\ k \in 0 .. n /\ Good(k - 1) /\ k - 1 \in Nat
    <3>1. Good(k - 1)  BY <1>4
    <3> HIDE DEF Good, G
    <3> QED  BY <1>1, <3>1
  <2>2. st \in Located /\ e \in EntryType /\ D[k] = DecodeEntry(st, e)  BY <1>1, <1>2, <2>1
  <2>3. st.end = ends[k - 1] /\ Len(st.out) = k - 1 /\ (k - 1) + 1 = k  BY <2>1
  <2> HIDE DEF st
  <2>4. /\ Len(D[k].out) = (k - 1) + 1
        /\ \A i \in 1 .. k - 1 : D[k].out[i] = st.out[i]
        /\ D[k].end = e.endChunk + (e.startChunk + ends[k - 1])
        /\ D[k].out[(k - 1) + 1] = Moved(e, ends[k - 1])
    <3> HIDE DEF e
    <3> QED  BY <2>2, <2>3, DecodeEntryTyped, SMTT(60)
  <2>5. D[k].end = ends[k]  BY <2>4 DEF n
  <2>6. ASSUME NEW i \in 1 .. k PROVE D[k].out[i] = Moved(coded[i], ends[i - 1])
    <3>1. CASE i = k  BY <2>3, <2>4, <3>1
    <3>2. CASE i # k
      <4>1. i \in 1 .. k - 1  BY <1>1, <3>2
      <4>2. st.out[i] = Moved(coded[i], ends[i - 1])  BY <2>1, <4>1 DEF st
      <4> QED  BY <2>4, <4>1, <4>2
    <3> QED  BY <3>1, <3>2
  <2>7. Len(D[k].out) = k  BY <2>3, <2>4
  <2> QED  BY <2>1, <2>5, <2>6, <2>7
<1> HIDE DEF G
<1>5. n \in 0 .. n /\ n \in G
  <2>1. \A k \in 0 .. n : k \in G  BY <1>1, <1>3, <1>4, UpTo
  <2> QED  BY <1>1, <2>1
<1>6. Good(n) /\ D[n] \in Located  BY <1>2, <1>5 DEF G
<1>7. ListRemoteFiles(coded) = D[n].out  BY Zenon DEF ListRemoteFiles, D, n
<1>8. D[n].out \in Seq(EntryType)  BY <1>6 DEF Located
<1> QED  BY <1>6, <1>7, <1>8 DEF n

-----------------------------------------------------------------------------
(* Where the data of a file is in the chunks.                              *)

\* How many bytes are in the first k chunks.
Before(up, k) == Len(FlattenSeq(SubSeq(up, 1, k)))

(* The bytes of the first j chunks are those of the first i and of the others. *)
LEMMA Parts ==
    ASSUME NEW up \in Seq(Data), NEW i \in 0 .. Len(up), NEW j \in i .. Len(up)
    PROVE  /\ FlattenSeq(SubSeq(up, 1, i)) \in Data /\ FlattenSeq(SubSeq(up, i + 1, j)) \in Data
           /\ FlattenSeq(SubSeq(up, 1, j)) = FlattenSeq(SubSeq(up, 1, i)) \o FlattenSeq(SubSeq(up, i + 1, j))
           /\ Before(up, i) \in Nat /\ Before(up, j) \in Nat
           /\ Length(up, i, j - 1) = Before(up, j) - Before(up, i) /\ Before(up, i) <= Before(up, j)
<1> DEFINE p == SubSeq(up, 1, i)
           q == SubSeq(up, i + 1, j)
<1>1. p \in Seq(Data) /\ q \in Seq(Data)
  <2>1. \A k \in 1 .. i : up[k] \in Data  OBVIOUS
  <2>2. \A k \in i + 1 .. j : up[k] \in Data  OBVIOUS
  <2>3. i \in Int /\ j \in Int /\ i + 1 \in Int  OBVIOUS
  <2> HIDE DEF Data
  <2> QED  BY <2>1, <2>2, <2>3, SubSeqProperties
<1>2. p \o q = SubSeq(up, 1, j)
  <2>1. 1 \in 1 .. Len(up) + 1 /\ i \in 1 - 1 .. Len(up) /\ j \in i .. Len(up)  OBVIOUS
  <2> HIDE DEF Data
  <2> QED  BY <2>1, ConcatAdjacentSubSeq
<1> HIDE DEF p, q
<1>3. FlattenSeq(p \o q) = FlattenSeq(p) \o FlattenSeq(q)  BY <1>1, FlattenJoin DEF Data
<1>4. FlattenSeq(p) \in Data /\ FlattenSeq(q) \in Data
  <2>1. <<>> \in Seq(Nat)  OBVIOUS
  <2> QED  BY <1>1, <2>1, FlattenAppend DEF Data
<1>5. Len(FlattenSeq(p) \o FlattenSeq(q)) = Len(FlattenSeq(p)) + Len(FlattenSeq(q))
      /\ Len(FlattenSeq(p)) \in Nat /\ Len(FlattenSeq(q)) \in Nat
  <2> DEFINE a == FlattenSeq(p)
             b == FlattenSeq(q)
  <2>1. a \in Seq(Nat) /\ b \in Seq(Nat)  BY <1>4 DEF Data
  <2> HIDE DEF a, b
  <2>2. Len(a \o b) = Len(a) + Len(b) /\ Len(a) \in Nat /\ Len(b) \in Nat  BY <2>1
  <2> QED  BY <2>2 DEF a, b
<1>6. (j - 1) + 1 = j  OBVIOUS
<1>7. Length(up, i, j - 1) = Len(FlattenSeq(q))  BY <1>6 DEF Length, q
<1>8. Before(up, i) = Len(FlattenSeq(p)) /\ Before(up, j) = Len(FlattenSeq(p) \o FlattenSeq(q))
  BY <1>2, <1>3 DEF Before, p
<1>9. /\ Before(up, i) \in Nat /\ Before(up, j) \in Nat
      /\ Length(up, i, j - 1) = Before(up, j) - Before(up, i) /\ Before(up, i) <= Before(up, j)
  BY <1>5, <1>7, <1>8
<1> QED  BY <1>2, <1>3, <1>4, <1>9, Zenon DEF p, q

(* A stretch of the bytes of some chunks is one of all the bytes. *)
LEMMA Within ==
    ASSUME NEW up \in Seq(Data), NEW i \in 0 .. Len(up), NEW j \in i .. Len(up), NEW m \in Nat, NEW n \in Nat,
           1 <= m, Before(up, i) + n <= Before(up, j)
    PROVE  SubSeq(FlattenSeq(SubSeq(up, i + 1, j)), m, n)
              = SubSeq(FlattenSeq(up), Before(up, i) + m, Before(up, i) + n)
<1> DEFINE a == FlattenSeq(SubSeq(up, 1, i))
           b == FlattenSeq(SubSeq(up, i + 1, j))
           c == FlattenSeq(SubSeq(up, j + 1, Len(up)))
           l == Before(up, i)
<1>1. a \in Data /\ b \in Data /\ FlattenSeq(SubSeq(up, 1, j)) = a \o b /\ l = Len(a) /\ l \in Nat
  BY Parts DEF Before
<1>2. Before(up, j) = Len(a \o b)  BY <1>1 DEF Before
<1>3. c \in Data /\ FlattenSeq(up) = (a \o b) \o c
  <2>1. j \in 0 .. Len(up) /\ Len(up) \in j .. Len(up) /\ SubSeq(up, 1, Len(up)) = up  BY SubSeqFull
  <2>2. c \in Data /\ FlattenSeq(SubSeq(up, 1, Len(up))) = FlattenSeq(SubSeq(up, 1, j)) \o c
    <3> HIDE DEF a, b, l
    <3> QED  BY <2>1, Parts
  <2> QED  BY <1>1, <2>1, <2>2
<1> HIDE DEF a, b, c, l
<1>4. a \in Seq(Nat) /\ b \in Seq(Nat) /\ c \in Seq(Nat)  BY <1>1, <1>3 DEF Data
<1>5. Len(a \o b) = l + Len(b) /\ Len(b) \in Nat  BY <1>1, <1>4
<1>6. n <= Len(b)  BY <1>1, <1>2, <1>5 DEF l
<1>7. ASSUME NEW x \in m .. n PROVE b[x] \in Nat /\ ((a \o b) \o c)[x + l] = b[x]
  <2>1. x \in 1 .. Len(b) /\ x + l \in 1 .. Len(a \o b) /\ x + l > Len(a) /\ (x + l) - Len(a) = x
    BY <1>1, <1>5, <1>6
  <2>2. b[x] \in Nat  BY <1>4, <2>1, SMTT(60)
  <2>3. a \o b \in Seq(Nat)  BY <1>4
  <2>4. (a \o b)[x + l] = b[x]  BY <1>1, <1>4, <1>5, <2>1
  <2> DEFINE ab == a \o b
             y == x + l
  <2>5. ab \in Seq(Nat) /\ y \in 1 .. Len(ab)  BY <2>1, <2>3
  <2> HIDE DEF ab, y
  <2>6. (ab \o c)[y] = ab[y]  BY <1>4, <2>5
  <2> QED  BY <2>2, <2>4, <2>6 DEF ab, y
<1>8. SubSeq((a \o b) \o c, m + l, n + l) = SubSeq(b, m, n)
  <2> DEFINE w == (a \o b) \o c
  <2>1. m \in Int /\ n \in Int /\ l \in Int  BY <1>1
  <2>2. \A x \in m .. n : b[x] \in Nat /\ w[x + l] = b[x]  BY <1>7
  <2> HIDE DEF w
  <2>3. SubSeq(w, m + l, n + l) = SubSeq(b, m, n)
    <3>1. StandsIn(b, w, m, n, l)  BY <2>1, <2>2, Zenon DEF StandsIn
    <3>2. SameIn(b, w, m, n, l)  BY <3>1, StandsInSame
    <3> QED  BY <3>2, Zenon DEF SameIn
  <2> QED  BY <2>3 DEF w
<1>9. m + l = l + m /\ n + l = l + n  BY <1>1
<1> QED  BY <1>3, <1>8, <1>9 DEF b, l

(* The bytes of one more chunk. *)
LEMMA BeforeNext ==
    ASSUME NEW up \in Seq(Data), NEW k \in Nat, k < Len(up)
    PROVE  Before(up, k + 1) = Before(up, k) + Len(up[k + 1]) /\ Before(up, k) \in Nat /\ Len(up[k + 1]) \in Nat
<1> DEFINE p == SubSeq(up, 1, k)
           c == up[k + 1]
<1>1. p \in Seq(Data) /\ c \in Data /\ SubSeq(up, 1, k + 1) = Append(p, c)
  <2>1. k + 1 \in 1 .. Len(up) /\ (k + 1) - 1 = k  BY LenProperties
  <2> HIDE DEF Data
  <2> QED  BY <2>1, LastOfFirst
<1> HIDE DEF p, c
<1>2. FlattenSeq(Append(p, c)) = FlattenSeq(p) \o c /\ FlattenSeq(p) \in Seq(Nat)
  BY <1>1, FlattenAppend DEF Data
<1>3. c \in Seq(Nat)  BY <1>1 DEF Data
<1> DEFINE a == FlattenSeq(p)
<1>4. a \in Seq(Nat)  BY <1>2
<1>5. Before(up, k + 1) = Len(a \o c) /\ Before(up, k) = Len(a)  BY <1>1, <1>2 DEF Before, p
<1> HIDE DEF a
<1>6. Len(a \o c) = Len(a) + Len(c) /\ Len(a) \in Nat /\ Len(c) \in Nat  BY <1>3, <1>4
<1> QED  BY <1>5, <1>6 DEF c

-----------------------------------------------------------------------------
(* Reading a list.                                                         *)

ModifiedType == [path : Paths, size : Int, hash : Data]

Lists == [token : Nat, entries : Seq(EntryType), modified : Seq(ModifiedType), preserved : Seq(Data), uploaded : Seq(Data)]

\* pos[j] is the place of the j-th modified file in what was uploaded.
LaidIn(modified, uploaded, pos) ==
    /\ pos \in [1 .. Len(modified) + 1 -> Nat] /\ pos[1] = 0
    /\ \A j \in 1 .. Len(modified) :
          /\ pos[j + 1] = pos[j] + (IF modified[j].size > 0 THEN modified[j].size ELSE 0)
          /\ modified[j].size > 0 /\ modified[j].hash # NoHash /\ pos[j + 1] <= Len(FlattenSeq(uploaded)) =>
                SubSeq(FlattenSeq(uploaded), pos[j] + 1, pos[j + 1]) = modified[j].hash

LaidOut(l, pos) == LaidIn(l.modified, l.uploaded, pos)

ReadType == [next : Nat, chunk : Int, offset : Int, out : Seq(EntryType), error : BOOLEAN]

\* What was sent is right, and it is known where the next modified file is.
Reading(l, pos) ==
    {st \in ReadType :
        /\ \A k \in DOMAIN st.out : Placed(Chunks(l), st.out[k])
        /\ ~st.error => /\ st.next \in 1 .. Len(l.modified) + 1 /\ st.chunk \in 0 .. Len(l.uploaded) /\ st.offset \in Nat
                        /\ Before(l.uploaded, st.chunk) + st.offset = pos[st.next]}

(* Sending an entry that is right if it passes the check. *)
LEMMA Sending ==
    ASSUME NEW l, NEW pos, NEW st \in Reading(l, pos), NEW e \in EntryType, checkEntry(Chunks(l), e) => Placed(Chunks(l), e)
    PROVE  Send(l, st, e) \in Reading(l, pos)
<1>1. st \in ReadType /\ st.out \in Seq(EntryType) /\ \A k \in DOMAIN st.out : Placed(Chunks(l), st.out[k])
  BY DEF Reading, ReadType
<1>2. CASE checkEntry(Chunks(l), e)
  <2> DEFINE q == Append(st.out, e)
             r == [st EXCEPT !.out = q]
  <2>1. Send(l, st, e) = r  BY <1>2, Zenon DEF Send
  <2>2. q \in Seq(EntryType) /\ \A k \in DOMAIN q : Placed(Chunks(l), q[k])
    <3>1. q \in Seq(EntryType) /\ DOMAIN q = 1 .. Len(st.out) + 1 /\ DOMAIN st.out = 1 .. Len(st.out)
          /\ Len(st.out) \in Nat /\ q[Len(st.out) + 1] = e /\ \A k \in 1 .. Len(st.out) : q[k] = st.out[k]
      BY <1>1
    <3> HIDE DEF q
    <3>2. ASSUME NEW k \in DOMAIN q PROVE Placed(Chunks(l), q[k])
      <4>1. CASE k \in 1 .. Len(st.out)  BY <1>1, <3>1, <4>1
      <4>2. CASE k = Len(st.out) + 1  BY <1>2, <3>1, <4>2
      <4> QED  BY <3>1, <4>1, <4>2
    <3> QED  BY <3>1, <3>2
  <2> HIDE DEF q
  <2>3. r \in ReadType  BY <1>1, <2>2 DEF ReadType
  <2>4. /\ r.out = q /\ r.error = st.error /\ r.next = st.next /\ r.chunk = st.chunk /\ r.offset = st.offset
    BY <1>1 DEF ReadType
  <2> HIDE DEF r
  <2> QED  BY <2>1, <2>2, <2>3, <2>4 DEF Reading
<1>3. CASE ~checkEntry(Chunks(l), e)
  <2> DEFINE r == [st EXCEPT !.error = TRUE]
  <2>1. Send(l, st, e) = r  BY <1>3, Zenon DEF Send
  <2>2. r \in ReadType /\ r.out = st.out /\ r.error = TRUE  BY <1>1 DEF ReadType
  <2> HIDE DEF r
  <2> QED  BY <1>1, <2>1, <2>2 DEF Reading
<1> QED  BY <1>2, <1>3

(* The smallest element of a set of natural numbers. *)
LEMMA MinIs ==
    ASSUME NEW T \in SUBSET Nat, T # {}
    PROVE  Min(T) \in T /\ \A n \in T : Min(T) <= n
<1> DEFINE Smallest(x) == x \in T /\ \A n \in T : x <= n
<1>1. PICK m \in T : \A n \in T : m <= n  BY SmallestExists
<1>2. Smallest(m)  BY <1>1
<1>3. Min(T) = CHOOSE x : Smallest(x)  BY Zenon DEF Min
<1>4. Smallest(CHOOSE x : Smallest(x))
  <2> HIDE DEF Smallest
  <2> QED  BY <1>2, Zenon
<1> QED  BY <1>3, <1>4

(* The chunk a file ends in, when it is found as in fillEntry. *)
LEMMA EndsIn ==
    ASSUME NEW up \in Seq(Data), NEW c \in 0 .. Len(up), NEW end \in Nat, end > 0,
           NEW holds \in SUBSET (c .. (Len(up) - 1)), holds # {},
           \A j \in c .. (Len(up) - 1) : j \in holds <=> end <= Length(up, c, j),
           NEW k, k = Min(holds)
    PROVE  /\ k \in c .. (Len(up) - 1) /\ Length(up, c, k - 1) = Before(up, k) - Before(up, c)
           /\ Before(up, c) \in Nat /\ Before(up, k) \in Nat /\ Before(up, k + 1) \in Nat
           /\ Before(up, k) < Before(up, c) + end /\ Before(up, c) + end <= Before(up, k + 1)
<1> DEFINE n == Len(up)
           B(i) == Before(up, i)
<1>1. n \in Nat /\ c \in 0 .. n  OBVIOUS
<1>2. ASSUME NEW j \in c .. n - 1
      PROVE  Length(up, c, j) = B(j + 1) - B(c) /\ B(j + 1) \in Nat /\ B(c) \in Nat
  <2>1. j + 1 \in c .. Len(up) /\ (j + 1) - 1 = j  BY <1>1
  <2> QED  BY <2>1, Parts
<1>3. holds \in SUBSET Nat
  <2>1. c .. n - 1 \in SUBSET Nat  BY <1>1
  <2> QED  BY <2>1
<1>4. k \in holds /\ \A j \in holds : k <= j  BY <1>3, MinIs
<1>5. k \in c .. n - 1 /\ k \in Nat /\ end <= Length(up, c, k)  BY <1>1, <1>4
<1>6. Length(up, c, k - 1) = B(k) - B(c) /\ B(k) \in Nat /\ B(c) \in Nat
  <2>1. k \in c .. Len(up)  BY <1>1, <1>5
  <2> QED  BY <2>1, Parts
<1>7. B(k) < B(c) + end
  <2>1. CASE k = c  BY <1>6, <2>1
  <2>2. CASE k # c
    <3>1. k - 1 \in c .. n - 1 /\ ~(k <= k - 1) /\ (k - 1) + 1 = k  BY <1>1, <1>5, <2>2
    <3>2. ~(end <= Length(up, c, k - 1))
      <4>1. k - 1 \notin holds  BY <1>4, <3>1
      <4> QED  BY <3>1, <4>1
    <3>3. Length(up, c, k - 1) \in Int  BY <1>6
    <3> HIDE DEF B
    <3> QED  BY <1>6, <3>2, <3>3
  <2> QED  BY <2>1, <2>2
<1>8. B(c) + end <= B(k + 1) /\ B(k + 1) \in Nat
  <2>1. Length(up, c, k) = B(k + 1) - B(c) /\ B(k + 1) \in Nat  BY <1>2, <1>5
  <2> HIDE DEF B
  <2> QED  BY <1>5, <1>6, <2>1, SMTT(60)
<1> QED  BY <1>5, <1>6, <1>7, <1>8

(* The new chunks among all chunks of a list. *)
LEMMA NewChunks ==
    ASSUME NEW l \in Lists
    PROVE  /\ Chunks(l) \in Seq(Data) /\ Len(Chunks(l)) = Len(l.preserved) + Len(l.uploaded)
           /\ Len(l.preserved) \in Nat /\ Len(l.uploaded) \in Nat /\ Len(l.preserved) <= Len(Chunks(l))
           /\ \A i \in 1 .. Len(l.preserved) : Chunks(l)[i] = l.preserved[i]
           /\ \A i \in 1 .. Len(l.uploaded) : Chunks(l)[i + Len(l.preserved)] = l.uploaded[i]
<1> DEFINE p == l.preserved
           u == l.uploaded
<1>1. p \in Seq(Data) /\ u \in Seq(Data)  BY DEF Lists
<1> HIDE DEF p, u
<1>2. /\ p \o u \in Seq(Data) /\ Len(p \o u) = Len(p) + Len(u) /\ Len(p) \in Nat /\ Len(u) \in Nat
      /\ Len(p) <= Len(p \o u)
  BY <1>1
<1>3. \A i \in 1 .. Len(p) : (p \o u)[i] = p[i]  BY <1>1
<1>4. ASSUME NEW i \in 1 .. Len(u) PROVE (p \o u)[i + Len(p)] = u[i]
  <2>1. i + Len(p) \in 1 .. Len(p) + Len(u) /\ i + Len(p) > Len(p) /\ (i + Len(p)) - Len(p) = i  BY <1>2
  <2> QED  BY <1>1, <2>1
<1>5. Chunks(l) = p \o u  BY DEF Chunks, p, u
<1> QED  BY <1>2, <1>3, <1>4, <1>5 DEF p, u

(* A packed file gets the stretch of the new chunks that is its own. *)
LEMMA FilledIn ==
    ASSUME NEW l \in Lists, NEW c \in 0 .. Len(l.uploaded), NEW k \in c .. (Len(l.uploaded) - 1),
           NEW from \in Nat, NEW size \in Nat, size > 0,
           Before(l.uploaded, c) + (from + size) <= Before(l.uploaded, k + 1),
           NEW e, e.size = size, e.startChunk = c + Len(l.preserved), e.endChunk = k + Len(l.preserved),
           e.startOffset = from,
           e.hash # NoHash => SubSeq(FlattenSeq(l.uploaded), Before(l.uploaded, c) + from + 1,
                                     Before(l.uploaded, c) + from + size) = e.hash,
           checkEntry(Chunks(l), e)
    PROVE  Placed(Chunks(l), e)
<1> DEFINE up == l.uploaded
           n == Len(l.preserved)
           all == Chunks(l)
           B == Before(up, c)
<1>1. up \in Seq(Data) /\ n \in Nat /\ \A i \in 1 .. Len(up) : all[i + n] = up[i] /\ up[i] \in Data
  <2>1. up \in Seq(Data)  BY DEF Lists
  <2>2. \A i \in 1 .. Len(up) : up[i] \in Data  BY <2>1
  <2> QED  BY <2>1, <2>2, NewChunks
<1>2. c \in Nat /\ k \in Nat /\ k + 1 \in c .. Len(up) /\ c \in 0 .. Len(up)  BY <1>1
<1>3. SubSeq(all, e.startChunk + 1, e.endChunk + 1) = SubSeq(up, c + 1, k + 1)
  <2>1. /\ e.startChunk + 1 = (c + 1) + n /\ e.endChunk + 1 = (k + 1) + n
        /\ c + 1 \in Int /\ k + 1 \in Int /\ n \in Int
    <3>1. e.startChunk = c + n /\ e.endChunk = k + n /\ n \in Nat  BY <1>1
    <3> HIDE DEF n, up, all
    <3> QED  BY <1>2, <3>1, SMTT(60)
  <2>2. \A i \in c + 1 .. k + 1 : up[i] \in Data /\ all[i + n] = up[i]  BY <1>1, <1>2, SMTT(60)
  <2> HIDE DEF up, n, all
  <2>3. SubSeq(all, (c + 1) + n, (k + 1) + n) = SubSeq(up, c + 1, k + 1)  BY <2>1, <2>2, SameStretch
  <2> QED  BY <2>1, <2>3
<1>4. Content(all, e) = SubSeq(FlattenSeq(SubSeq(up, c + 1, k + 1)), from + 1, from + size)
  <2>1. ~(e.size <= 0)  OBVIOUS
  <2> HIDE DEF up, all
  <2> QED  BY <1>3, <2>1, Zenon DEF Content
<1>5. B \in Nat
  <2> HIDE DEF up
  <2> QED  BY <1>1, <1>2, Parts DEF B
<1>6. SubSeq(FlattenSeq(SubSeq(up, c + 1, k + 1)), from + 1, from + size)
         = SubSeq(FlattenSeq(up), B + (from + 1), B + (from + size))
  <2>1. from + 1 \in Nat /\ from + size \in Nat /\ 1 <= from + 1 /\ B + (from + size) <= Before(up, k + 1)
    OBVIOUS
  <2> DEFINE x == from + 1
             y == from + size
  <2>2. x \in Nat /\ y \in Nat /\ 1 <= x /\ B + y <= Before(up, k + 1) /\ up \in Seq(Data)  BY <1>1, <2>1
  <2> HIDE DEF up, x, y
  <2>3. SubSeq(FlattenSeq(SubSeq(up, c + 1, k + 1)), x, y) = SubSeq(FlattenSeq(up), B + x, B + y)
    <3> DEFINE j == k + 1
    <3>1. j \in c .. Len(up) /\ c \in 0 .. Len(up) /\ B + y <= Before(up, j)  BY <1>2, <2>2
    <3> HIDE DEF j
    <3>2. SubSeq(FlattenSeq(SubSeq(up, c + 1, j)), x, y) = SubSeq(FlattenSeq(up), B + x, B + y)
      BY <2>2, <3>1, Within, ZenonT(60) DEF B
    <3> QED  BY <3>2 DEF j
  <2> QED  BY <2>3 DEF x, y
<1>7. B + (from + 1) = B + from + 1 /\ B + (from + size) = B + from + size
  <2> HIDE DEF B
  <2> QED  BY <1>5
<1>8. e.hash # NoHash => Content(all, e) = e.hash  BY <1>4, <1>6, <1>7, Zenon
<1> QED  BY <1>8 DEF Placed, RightEntry

(* Reading may end with an error, which sends nothing. *)
LEMMA Failing ==
    ASSUME NEW l, NEW pos, NEW st \in Reading(l, pos), NEW next \in Nat
    PROVE  /\ [st EXCEPT !.error = TRUE] \in Reading(l, pos)
           /\ [st EXCEPT !.next = next, !.error = TRUE] \in Reading(l, pos)
<1> DEFINE r == [st EXCEPT !.error = TRUE]
           s == [st EXCEPT !.next = next, !.error = TRUE]
<1>1. st \in ReadType /\ \A k \in DOMAIN st.out : Placed(Chunks(l), st.out[k])  BY DEF Reading
<1>2. r \in ReadType /\ s \in ReadType /\ r.out = st.out /\ r.error = TRUE /\ s.out = st.out /\ s.error = TRUE
  BY <1>1 DEF ReadType
<1> HIDE DEF r, s
<1>3. r \in Reading(l, pos)  BY <1>1, <1>2 DEF Reading
<1>4. s \in Reading(l, pos)  BY <1>1, <1>2 DEF Reading
<1> QED  BY <1>3, <1>4 DEF r, s

(* A file that was packed. *)
LEMMA FillStep ==
    ASSUME NEW l \in Lists, NEW pos, LaidOut(l, pos), NEW st \in Reading(l, pos), ~st.error, NEW e \in EntryType,
           st.next \in 1 .. Len(l.modified), l.modified[st.next].size > 0
    PROVE  fillEntry(l, st, e) \in Reading(l, pos)
<1> DEFINE j == st.next
           c == st.chunk
           from == st.offset
           m == l.modified[j]
           size == m.size
           end == from + size
           up == l.uploaded
           n == Len(l.preserved)
           holds == {i \in c .. (Len(up) - 1) : end <= Length(up, c, i)}
           kk == IF holds = {} THEN Len(up) ELSE Min(holds)
           endOffset == end - Length(up, c, kk - 1)
           filled == [e EXCEPT !.size = size, !.hash = m.hash, !.startChunk = c + n, !.startOffset = from,
                               !.endChunk = kk + n, !.endOffset = endOffset]
           after == AfterEntry(up, kk, endOffset)
           moved == [st EXCEPT !.next = j + 1, !.chunk = after.chunk, !.offset = after.offset]
<1>1. fillEntry(l, st, e) = IF holds = {} THEN [st EXCEPT !.error = TRUE] ELSE Send(l, moved, filled)
  BY Zenon DEF fillEntry
<1>2. CASE holds = {}
  <2>1. fillEntry(l, st, e) = [st EXCEPT !.error = TRUE]  BY <1>1, <1>2, Zenon
  <2> QED  BY <2>1, Failing, ZenonT(60)
<1>3. CASE holds # {}
  <2> DEFINE k == Min(holds)
             B(i) == Before(up, i)
  <2>1. up \in Seq(Data) /\ n \in Nat /\ l.modified \in Seq(ModifiedType) /\ Len(l.modified) \in Nat
    BY NewChunks DEF Lists
  <2>2. /\ st \in ReadType /\ c \in 0 .. Len(up) /\ from \in Nat /\ B(c) + from = pos[j]
        /\ \A i \in DOMAIN st.out : Placed(Chunks(l), st.out[i])
    BY DEF Reading
  <2>3. m \in ModifiedType /\ size \in Nat /\ size > 0 /\ m.hash \in Data
    <3>1. m \in ModifiedType  BY <2>1
    <3> QED  BY <3>1 DEF ModifiedType
  <2>4. /\ pos[j + 1] = pos[j] + size
        /\ m.hash # NoHash /\ pos[j + 1] <= Len(FlattenSeq(up)) => SubSeq(FlattenSeq(up), pos[j] + 1, pos[j + 1]) = m.hash
    BY <2>3 DEF LaidOut, LaidIn
  <2>5. kk = k  BY <1>3
  <2> HIDE DEF kk
  <2>6. end \in Nat /\ end > 0  BY <2>2, <2>3, SMTT(60)
  <2> HIDE DEF m, size, up, n, c, from, j
  <2>7. /\ k \in c .. (Len(up) - 1) /\ Length(up, c, k - 1) = B(k) - B(c)
        /\ B(c) \in Nat /\ B(k) \in Nat /\ B(k + 1) \in Nat
        /\ B(k) < B(c) + end /\ B(c) + end <= B(k + 1)
    <3> HIDE DEF end, k
    <3>1. k = Min(holds)  BY DEF k
    <3>2. /\ holds \in SUBSET (c .. (Len(up) - 1))
          /\ \A i \in c .. (Len(up) - 1) : i \in holds <=> end <= Length(up, c, i)
      OBVIOUS
    <3>3. up \in Seq(Data) /\ c \in 0 .. Len(up) /\ end \in Nat /\ end > 0 /\ holds # {}  BY <1>3, <2>1, <2>2, <2>6
    <3> HIDE DEF holds
    <3> QED  BY <3>1, <3>2, <3>3, EndsIn, SMTT(120)
  <2> HIDE DEF k, holds
  <2>8. c \in Nat /\ k \in Nat /\ k < Len(up) /\ Len(up) \in Nat /\ k + 1 \in 0 .. Len(up)  BY <2>1, <2>2, <2>7
  <2>9. B(k + 1) = B(k) + Len(up[k + 1]) /\ Len(up[k + 1]) \in Nat  BY <2>1, <2>8, BeforeNext
  <2>10. endOffset = (B(c) + end) - B(k) /\ endOffset \in Nat
    <3>1. endOffset = end - (B(k) - B(c))
      <4>1. Length(up, c, kk - 1) = B(k) - B(c)  BY <2>5, <2>7, Zenon
      <4> QED  BY <4>1, Zenon
    <3> HIDE DEF endOffset, B, end, moved, filled, after
    <3>2. \A x, y, z \in Nat : x < y + z => z - (x - y) = (y + z) - x /\ (y + z) - x \in Nat  OBVIOUS
    <3>3. end - (B(k) - B(c)) = (B(c) + end) - B(k) /\ (B(c) + end) - B(k) \in Nat  BY <2>6, <2>7, <3>2
    <3> QED  BY <3>1, <3>3
  <2>11. B(c) + end = pos[j + 1]  BY <2>2, <2>3, <2>4, <2>7
  <2>12. /\ after.chunk \in 0 .. Len(up) /\ after.offset \in Nat
         /\ B(after.chunk) + after.offset = B(c) + end
    <3>1. CASE endOffset = Len(up[k + 1])
      <4>1. after = [chunk |-> k + 1, offset |-> 0]  BY <2>5, <3>1, Zenon DEF AfterEntry
      <4> HIDE DEF after, endOffset, end
      <4>2. after.chunk = k + 1 /\ after.offset = 0  BY <4>1
      <4> HIDE DEF B
      <4> QED  BY <2>6, <2>7, <2>8, <2>9, <2>10, <3>1, <4>2, SMTT(60)
    <3>2. CASE endOffset # Len(up[k + 1])
      <4>1. after = [chunk |-> k, offset |-> endOffset]  BY <2>5, <3>2, Zenon DEF AfterEntry
      <4> HIDE DEF after, endOffset, end
      <4>2. after.chunk = k /\ after.offset = endOffset  BY <4>1
      <4> HIDE DEF B
      <4> QED  BY <2>6, <2>7, <2>8, <2>10, <4>2, SMTT(60)
    <3> QED  BY <3>1, <3>2
  <2>13. filled \in EntryType /\ filled.size = size /\ filled.hash = m.hash /\ filled.startChunk = c + n
         /\ filled.startOffset = from /\ filled.endChunk = k + n
    <3>1. size \in Int /\ m.hash \in Data /\ c + n \in Int /\ from \in Int /\ k + n \in Int /\ endOffset \in Int
      BY <2>1, <2>2, <2>3, <2>8, <2>10
    <3> HIDE DEF endOffset
    <3> QED  BY <2>5, <3>1 DEF EntryType
  <2>14. checkEntry(Chunks(l), filled) => Placed(Chunks(l), filled)
    <3> HIDE DEF filled, after, endOffset
    <3>1. SUFFICES ASSUME checkEntry(Chunks(l), filled) PROVE Placed(Chunks(l), filled)  OBVIOUS
    <3>2. filled.hash # NoHash => SubSeq(FlattenSeq(up), B(c) + from + 1, B(c) + from + size) = filled.hash
      <4>1. B(k + 1) <= Len(FlattenSeq(up))
        <5>1. k + 1 \in 0 .. Len(up) /\ Len(up) \in (k + 1) .. Len(up) /\ SubSeq(up, 1, Len(up)) = up
          BY <2>1, <2>8, SubSeqFull
        <5>2. B(k + 1) <= B(Len(up))
          <6> DEFINE x == k + 1
                     y == Len(up)
          <6>1. x \in 0 .. Len(up) /\ y \in x .. Len(up)  BY <5>1
          <6> HIDE DEF x, y
          <6>2. B(x) <= B(y)  BY <2>1, <6>1, Parts
          <6> QED  BY <6>2 DEF x, y
        <5> QED  BY <5>1, <5>2 DEF Before
      <4>2. pos[j + 1] <= Len(FlattenSeq(up))
        <5>1. Len(FlattenSeq(up)) \in Int
          <6>1. Len(up) \in 0 .. Len(up) /\ SubSeq(up, 1, Len(up)) = up /\ Len(up) \in Len(up) .. Len(up)
            BY <2>1, <2>8, SubSeqFull
          <6>2. B(Len(up)) \in Nat
            <7> DEFINE y == Len(up)
            <7>1. y \in 0 .. Len(up) /\ y \in y .. Len(up)  BY <6>1
            <7> HIDE DEF y
            <7>2. B(y) \in Nat  BY <2>1, <7>1, Parts
            <7> QED  BY <7>2 DEF y
          <6> QED  BY <6>1, <6>2 DEF Before
        <5> HIDE DEF B, end
        <5> QED  BY <2>6, <2>7, <2>11, <4>1, <5>1
      <4>3. pos[j] + 1 = B(c) + from + 1 /\ pos[j + 1] = B(c) + from + size  BY <2>2, <2>4
      <4> QED  BY <2>4, <2>13, <4>2, <4>3
    <3>3. B(c) + (from + size) <= B(k + 1)  BY <2>7
    <3> QED  BY <2>2, <2>3, <2>7, <2>13, <3>1, <3>2, <3>3, FilledIn DEF up, n
  <2> HIDE DEF filled, endOffset
  <2>15. moved \in Reading(l, pos)
    <3>1. j + 1 \in 1 .. Len(l.modified) + 1 /\ j + 1 \in Nat  BY <2>1 DEF j
    <3> HIDE DEF after
    <3>2. /\ moved \in ReadType /\ moved.next = j + 1 /\ moved.chunk = after.chunk /\ moved.offset = after.offset
          /\ moved.out = st.out
      <4>1. after.chunk \in Int /\ after.offset \in Int  BY <2>12
      <4> QED  BY <2>2, <3>1, <4>1 DEF ReadType
    <3> HIDE DEF moved, end
    <3>3. Before(l.uploaded, moved.chunk) + moved.offset = pos[moved.next]  BY <2>11, <2>12, <3>2 DEF up
    <3> QED  BY <2>2, <2>12, <3>1, <3>2, <3>3 DEF Reading, up
  <2>16. fillEntry(l, st, e) = Send(l, moved, filled)
    <3> HIDE DEF moved
    <3> QED  BY <1>1, <1>3 DEF holds, filled, moved, endOffset, kk, after
  <2> HIDE DEF moved
  <2> QED  BY <2>13, <2>14, <2>15, <2>16, Sending
<1> QED  BY <1>2, <1>3

(* An entry stays where it is when chunks are added at the end. *)
LEMMA StillRight ==
    ASSUME NEW c \in Seq(Data), NEW d \in Seq(Data), Len(c) <= Len(d), \A i \in 1 .. Len(c) : d[i] = c[i],
           NEW e \in EntryType, RightEntry(c, e)
    PROVE  RightEntry(d, e)
<1>1. /\ Len(c) \in Nat /\ Len(d) \in Nat /\ \A i \in 1 .. Len(c) : c[i] \in Data
      /\ e.size \in Int /\ e.startChunk \in Int /\ e.endChunk \in Int /\ 0 \in Int
  BY DEF EntryType
<1>2. e.size > 0 => 0 <= e.startChunk /\ e.startChunk <= e.endChunk /\ e.endChunk < Len(c)
  BY Zenon DEF RightEntry, checkEntry
<1>3. e.size > 0 => /\ e.startChunk = e.startChunk + 0 /\ e.endChunk = e.endChunk + 0
                    /\ 0 <= e.startChunk /\ e.endChunk < Len(d)
                    /\ \A i \in e.startChunk + 1 .. e.endChunk + 1 : d[i + 0] = c[i]
  BY <1>1, <1>2
<1> QED  BY <1>1, <1>3, RightMoves

(* Chunks added at the end leave the place of an entry. *)
LEMMA StillPlaced ==
    ASSUME NEW c \in Seq(Data), NEW d \in Seq(Data), Len(c) <= Len(d), \A i \in 1 .. Len(c) : d[i] = c[i],
           NEW e \in EntryType, Placed(c, e)
    PROVE  Placed(d, e)
<1>1. RightEntry(c, e)  BY DEF Placed
<1>2. RightEntry(d, e)  BY <1>1, StillRight
<1> QED  BY <1>2 DEF Placed

\* The complete entries of a list are right in the chunks it was made with.
KeptRight(l) == \A k \in DOMAIN l.entries : IsComplete(l.entries[k]) => Placed(l.preserved, l.entries[k])

(* One more entry is read. *)
LEMMA ReadStep ==
    ASSUME NEW l \in Lists, NEW pos, LaidOut(l, pos), NEW st \in Reading(l, pos), NEW e \in EntryType,
           IsComplete(e) => Placed(l.preserved, e)
    PROVE  fillAndSendEntry(l, st, e) \in Reading(l, pos)
<1> DEFINE j == st.next
           m == l.modified[j]
<1>1. st \in ReadType /\ st.error \in BOOLEAN /\ j \in Nat  BY DEF Reading, ReadType
<1>2. CASE st.error
  <2>1. fillAndSendEntry(l, st, e) = st  BY <1>2, Zenon DEF fillAndSendEntry
  <2> QED  BY <2>1
<1>3. CASE ~st.error /\ IsComplete(e)
  <2>1. fillAndSendEntry(l, st, e) = Send(l, st, e)  BY <1>3, Zenon DEF fillAndSendEntry
  <2>2. Placed(Chunks(l), e)
    <3>1. Placed(l.preserved, e) /\ l.preserved \in Seq(Data)  BY <1>3 DEF Lists
    <3>2. /\ Chunks(l) \in Seq(Data) /\ Len(l.preserved) <= Len(Chunks(l))
          /\ \A i \in 1 .. Len(l.preserved) : Chunks(l)[i] = l.preserved[i]
      <4>1. Chunks(l) \in Seq(Data) /\ \A i \in 1 .. Len(l.preserved) : Chunks(l)[i] = l.preserved[i]  BY NewChunks
      <4>2. Len(l.preserved) <= Len(Chunks(l))  BY NewChunks
      <4> QED  BY <4>1, <4>2
    <3> QED  BY <3>1, <3>2, StillPlaced
  <2> QED  BY <2>1, <2>2, Sending
<1>4. CASE ~st.error /\ ~IsComplete(e)
  <2>1. fillAndSendEntry(l, st, e) =
            IF j > Len(l.modified) THEN [st EXCEPT !.error = TRUE]
            ELSE IF m.path # e.path THEN [st EXCEPT !.next = @ + 1, !.error = TRUE]
            ELSE IF m.size <= 0 THEN [st EXCEPT !.next = @ + 1]
            ELSE fillEntry(l, st, e)
    BY <1>4, Zenon DEF fillAndSendEntry
  <2>2. CASE j > Len(l.modified)
    <3>1. fillAndSendEntry(l, st, e) = [st EXCEPT !.error = TRUE]  BY <2>1, <2>2, Zenon
    <3>2. [st EXCEPT !.error = TRUE] \in Reading(l, pos)  BY <1>1, Failing, Zenon
    <3> QED  BY <3>1, <3>2, Zenon
  <2>3. CASE ~(j > Len(l.modified)) /\ m.path # e.path
    <3>1. fillAndSendEntry(l, st, e) = [st EXCEPT !.next = j + 1, !.error = TRUE]  BY <2>1, <2>3, Zenon
    <3>2. j + 1 \in Nat  BY <1>1
    <3>3. [st EXCEPT !.next = j + 1, !.error = TRUE] \in Reading(l, pos)  BY <3>2, Failing, Zenon
    <3> QED  BY <3>1, <3>3, Zenon
  <2>4. CASE ~(j > Len(l.modified)) /\ ~(m.path # e.path)
    <3>1. /\ j \in 1 .. Len(l.modified) /\ m \in ModifiedType /\ Len(l.modified) \in Nat /\ m.size \in Int
          /\ st.chunk \in 0 .. Len(l.uploaded) /\ st.offset \in Nat
          /\ Before(l.uploaded, st.chunk) + st.offset = pos[j]
          /\ \A k \in DOMAIN st.out : Placed(Chunks(l), st.out[k])
      <4>1. l.modified \in Seq(ModifiedType)  BY DEF Lists
      <4>2. /\ j \in 1 .. Len(l.modified) + 1 /\ st.chunk \in 0 .. Len(l.uploaded) /\ st.offset \in Nat
            /\ Before(l.uploaded, st.chunk) + st.offset = pos[j]
            /\ \A k \in DOMAIN st.out : Placed(Chunks(l), st.out[k])
        BY <1>4 DEF Reading
      <4>3. j \in 1 .. Len(l.modified) /\ Len(l.modified) \in Nat  BY <2>4, <4>1, <4>2
      <4>4. m \in ModifiedType  BY <4>1, <4>3
      <4>5. m.size \in Int  BY <4>4 DEF ModifiedType
      <4> QED  BY <4>2, <4>3, <4>4, <4>5
    <3>2. CASE m.size <= 0
      <4> DEFINE r == [st EXCEPT !.next = j + 1]
      <4>1. fillAndSendEntry(l, st, e) = r  BY <2>1, <2>4, <3>2, Zenon
      <4>2. r \in ReadType /\ r.next = j + 1 /\ r.out = st.out /\ r.chunk = st.chunk /\ r.offset = st.offset
        BY <1>1 DEF ReadType
      <4>3. ~(m.size > 0)  BY <3>1, <3>2
      <4>4. pos[j + 1] = pos[j]
        <5>1. pos[j + 1] = pos[j] + 0  BY <3>1, <4>3 DEF LaidOut, LaidIn
        <5>2. pos[j] \in Nat  BY <3>1 DEF LaidOut, LaidIn
        <5> QED  BY <5>1, <5>2
      <4>5. j + 1 \in 1 .. Len(l.modified) + 1  BY <3>1
      <4> HIDE DEF r, m
      <4> QED  BY <3>1, <4>1, <4>2, <4>4, <4>5 DEF Reading
    <3>3. CASE ~(m.size <= 0)
      <4>1. fillAndSendEntry(l, st, e) = fillEntry(l, st, e)  BY <2>1, <2>4, <3>3, Zenon
      <4>2. l.modified[st.next].size > 0  BY <3>1, <3>3
      <4> QED  BY <1>4, <3>1, <4>1, <4>2, FillStep
    <3> QED  BY <3>2, <3>3
  <2> QED  BY <2>2, <2>3, <2>4
<1> QED  BY <1>1, <1>2, <1>3, <1>4

(* The states of the reading come one from the other. *)
LEMMA ReadSteps ==
    ASSUME NEW l \in Lists, NEW pos, LaidOut(l, pos), KeptRight(l)
    PROVE  /\ ReadStates(l) \in [0 .. Len(l.entries) -> Reading(l, pos)]
           /\ ReadStates(l)[0] = [next |-> 1, chunk |-> 0, offset |-> 0, out |-> <<>>, error |-> FALSE]
           /\ \A k \in 1 .. Len(l.entries) :
                 ReadStates(l)[k] = fillAndSendEntry(l, ReadStates(l)[k - 1], l.entries[k])
<1> DEFINE n == Len(l.entries)
           b == [next |-> 1, chunk |-> 0, offset |-> 0, out |-> <<>>, error |-> FALSE]
           T == Reading(l, pos)
           F == [p \in (1 .. n) \X T |-> fillAndSendEntry(l, p[2], l.entries[p[1]])]
           Is(st) == st = [k \in 0 .. n |-> IF k = 0 THEN b ELSE fillAndSendEntry(l, st[k - 1], l.entries[k])]
<1>1. /\ n \in Nat
      /\ \A k \in 1 .. n : l.entries[k] \in EntryType /\ (IsComplete(l.entries[k]) => Placed(l.preserved, l.entries[k]))
  <2>1. l.entries \in Seq(EntryType)  BY DEF Lists
  <2>2. n \in Nat /\ \A k \in 1 .. n : k \in DOMAIN l.entries /\ l.entries[k] \in EntryType  BY <2>1
  <2> QED  BY <2>2 DEF KeptRight
<1>2. b \in T
  <2>1. b \in ReadType /\ DOMAIN b.out = {} /\ b.next = 1 /\ b.chunk = 0 /\ b.offset = 0  BY DEF ReadType
  <2>2. Before(l.uploaded, 0) = 0
    <3>1. SubSeq(l.uploaded, 1, 0) = <<>>  BY DEF Lists
    <3>2. FlattenSeq(<<>>) = <<>>
      <4>1. <<>> \in Seq(Seq(Nat)) /\ <<>> \in Seq(Nat)  OBVIOUS
      <4> QED  BY <4>1, FlattenAppend
    <3>3. Len(<<>>) = 0  OBVIOUS
    <3> QED  BY <3>1, <3>2, <3>3, Zenon DEF Before
  <2>3. pos[1] = 0 /\ 1 \in 1 .. Len(l.modified) + 1 /\ 0 \in 0 .. Len(l.uploaded) /\ 0 + 0 = 0
    BY DEF LaidOut, LaidIn, Lists
  <2> HIDE DEF b
  <2>4. Before(l.uploaded, b.chunk) + b.offset = pos[b.next]  BY <2>1, <2>2, <2>3, Zenon
  <2>5. b.next \in 1 .. Len(l.modified) + 1 /\ b.chunk \in 0 .. Len(l.uploaded) /\ b.offset \in Nat  BY <2>1, <2>3
  <2>6. \A k \in DOMAIN b.out : Placed(Chunks(l), b.out[k])  BY <2>1
  <2> QED  BY <2>1, <2>4, <2>5, <2>6, Zenon DEF Reading
<1>3. \A k \in 1 .. n : \A x \in T : fillAndSendEntry(l, x, l.entries[k]) \in T  BY <1>1, ReadStep
<1> HIDE DEF T, b, n
<1>4. StepFunction(F, n, T)
  <2>1. \A p \in (1 .. n) \X T : fillAndSendEntry(l, p[2], l.entries[p[1]]) \in T  BY <1>3
  <2>2. F \in [(1 .. n) \X T -> T]  BY <2>1
  <2> QED  BY <2>2, Zenon DEF StepFunction
<1>5. \A k \in 1 .. n : \A x \in T : F[<<k, x>>] = fillAndSendEntry(l, x, l.entries[k])  OBVIOUS
<1> HIDE DEF F
<1>6. PICK a : Computed(a, n, T, b, F)  BY <1>1, <1>2, <1>4, RecursionExists
<1>7. a \in [0 .. n -> T] /\ a[0] = b /\ \A k \in 1 .. n : a[k] = F[<<k, a[k - 1]>>]
  BY <1>6, Zenon DEF Computed
<1>8. Is(a)
  <2>1. ASSUME NEW k \in 0 .. n PROVE a[k] = IF k = 0 THEN b ELSE fillAndSendEntry(l, a[k - 1], l.entries[k])
    <3>1. CASE k = 0  BY <1>7, <3>1
    <3>2. CASE k # 0
      <4>1. k \in 1 .. n /\ k - 1 \in 0 .. n  BY <1>1, <3>2
      <4>2. a[k - 1] \in T /\ a[k] = F[<<k, a[k - 1]>>]  BY <1>7, <4>1
      <4>3. F[<<k, a[k - 1]>>] = fillAndSendEntry(l, a[k - 1], l.entries[k])  BY <1>5, <4>1, <4>2
      <4> QED  BY <3>2, <4>2, <4>3
    <3> QED  BY <3>1, <3>2
  <2>2. a = [k \in 0 .. n |-> a[k]]  BY <1>7
  <2> QED  BY <2>1, <2>2, Zenon
<1> DEFINE c == CHOOSE st : Is(st)
<1>9. Is(c)  BY <1>8, Zenon
<1>10. ReadStates(l) = c  BY Zenon DEF ReadStates, n, b
<1> HIDE DEF c
<1>11. DOMAIN c = 0 .. n /\ c = [k \in 0 .. n |-> c[k]]  BY <1>9
<1>12. \A k \in 0 .. n : c[k] = IF k = 0 THEN b ELSE fillAndSendEntry(l, c[k - 1], l.entries[k])  BY <1>9, Zenon
<1>13. c[0] = b  BY <1>1, <1>12
<1>14. ASSUME NEW k \in 1 .. n PROVE c[k] = fillAndSendEntry(l, c[k - 1], l.entries[k])
  <2>1. k \in 0 .. n /\ k # 0  BY <1>1
  <2> QED  BY <1>12, <2>1, Zenon
<1> DEFINE G == {k \in 0 .. n : c[k] \in T}
<1>15. 0 \in G  BY <1>1, <1>2, <1>13
<1>16. ASSUME NEW k \in 1 .. n, k - 1 \in G PROVE k \in G
  <2>1. k \in 0 .. n /\ c[k - 1] \in T  BY <1>1, <1>16
  <2>2. c[k] \in T  BY <1>3, <1>14, <2>1
  <2> QED  BY <2>1, <2>2
<1> HIDE DEF G
<1>17. \A k \in 0 .. n : k \in G  BY <1>1, <1>15, <1>16, UpTo
<1>18. c \in [0 .. n -> T]
  <2>1. \A k \in 0 .. n : c[k] \in T  BY <1>17 DEF G
  <2> QED  BY <1>11, <2>1
<1>19. /\ c \in [0 .. n -> T] /\ c[0] = b
       /\ \A k \in 1 .. n : c[k] = fillAndSendEntry(l, c[k - 1], l.entries[k])
  BY <1>13, <1>14, <1>18
<1> QED  BY <1>10, <1>19, Zenon DEF n, b, T

(* ReadEntries: every entry it sends, taken over or filled in, has its content in the chunks *)
(* of the list, whatever was uploaded, up to the first error.                                 *)
THEOREM ReadRight ==
    ASSUME NEW l \in Lists, NEW pos, LaidOut(l, pos), KeptRight(l)
    PROVE  /\ ReadEntries(l).out \in Seq(EntryType)
           /\ \A k \in DOMAIN ReadEntries(l).out : Placed(Chunks(l), ReadEntries(l).out[k])
<1>1. Len(l.entries) \in 0 .. Len(l.entries)  BY DEF Lists
<1>2. ReadStates(l)[Len(l.entries)] \in Reading(l, pos)  BY <1>1, ReadSteps
<1>3. ReadEntries(l) \in Reading(l, pos)  BY <1>2 DEF ReadEntries
<1> QED  BY <1>3 DEF Reading, ReadType

-----------------------------------------------------------------------------
(* Taking over the chunks of an entry, without the one it shares with the  *)
(* entry before it.                                                        *)

\* acc ends with the chunk that has the index last in the chunks it was taken from.
Follows(chunks, acc, last) ==
    last \in Int /\ (last = -1 \/ (last \in 0 .. Len(chunks) - 1 /\ Len(acc) > 0 /\ acc[Len(acc)] = chunks[last + 1]))

\* The chunks from s to t, of which the first is shared if one is 1, come after those of acc.
Takes(S, chunks, acc, s, t, last, one) ==
    /\ chunks \in Seq(S) /\ acc \in Seq(S) /\ s \in Nat /\ t \in Nat /\ s <= t /\ t < Len(chunks)
    /\ Follows(chunks, acc, last) /\ one = IF s = last THEN 1 ELSE 0

\* d begins with acc.
Extends(S, acc, d) ==
    d \in Seq(S) /\ Len(d) \in Nat /\ Len(acc) <= Len(d) /\ \A i \in 1 .. Len(acc) : d[i] = acc[i]

\* In d the chunks from s to t are found from start on.
Took(S, chunks, acc, d, s, t, start) ==
    /\ chunks \in Seq(S) /\ Extends(S, acc, d) /\ start \in Nat /\ Len(d) = start + (t - s) + 1
    /\ \A i \in s + 1 .. t + 1 : d[i + (start - s)] = chunks[i]
    /\ Follows(chunks, d, t)

(* Taking over the chunks s + 1 to t + 1 of a snapshot, all or all but the first, which is there already. *)
LEMMA TakeOver ==
    ASSUME NEW S, NEW chunks, NEW acc, NEW s, NEW t, NEW last, NEW one, Takes(S, chunks, acc, s, t, last, one)
    PROVE  Took(S, chunks, acc, acc \o SubSeq(chunks, s + 1 + one, t + 1), s, t, Len(acc) - one)
<1> DEFINE x == s + 1 + one
           used == SubSeq(chunks, x, t + 1)
           d == acc \o used
           n == Len(acc)
           start == n - one
<1>0. /\ chunks \in Seq(S) /\ acc \in Seq(S) /\ s \in Nat /\ t \in Nat /\ s <= t /\ t < Len(chunks)
      /\ Follows(chunks, acc, last) /\ one = IF s = last THEN 1 ELSE 0
  BY DEF Takes
<1>1. one \in {0, 1} /\ n \in Nat /\ Len(chunks) \in Nat /\ last \in Int  BY <1>0 DEF Follows
<1>2. one = 1 => s = last /\ n > 0 /\ acc[n] = chunks[s + 1]
  <2>1. CASE s = last
    <3>1. ~(last = -1)  BY <1>0, <2>1
    <3> QED  BY <1>0, <2>1, <3>1 DEF Follows
  <2>2. CASE s # last  BY <1>0, <2>2
  <2> QED  BY <2>1, <2>2
<1>3. /\ used \in Seq(S) /\ Len(used) = (t - s) + 1 - one
      /\ \A i \in 1 .. (t + 1) - x + 1 : used[i] = chunks[x + i - 1]
  <2>1. x \in Int /\ t + 1 \in Int /\ \A i \in x .. t + 1 : chunks[i] \in S  BY <1>0, <1>1
  <2>2. (IF x <= t + 1 THEN (t + 1) - x + 1 ELSE 0) = (t - s) + 1 - one  BY <1>0, <1>1
  <2> HIDE DEF x
  <2>3. /\ used \in Seq(S) /\ Len(used) = IF x <= t + 1 THEN (t + 1) - x + 1 ELSE 0
        /\ \A i \in 1 .. (t + 1) - x + 1 : used[i] = chunks[x + i - 1]
    BY <2>1, SubSeqProperties
  <2> HIDE DEF used
  <2> QED  BY <2>2, <2>3
<1>4. (t + 1) - x + 1 = (t - s) + 1 - one  BY <1>0, <1>1
<1> HIDE DEF used
<1>5. /\ d \in Seq(S) /\ Len(d) = n + Len(used) /\ Len(used) \in Nat
      /\ \A i \in 1 .. n : d[i] = acc[i]
      /\ \A i \in n + 1 .. n + Len(used) : d[i] = used[i - n]
  BY <1>0, <1>3
<1> HIDE DEF d, n
<1>6. Len(d) = start + (t - s) + 1 /\ n <= Len(d) /\ start \in Nat
  BY <1>0, <1>1, <1>2, <1>3, <1>5
<1>7. ASSUME NEW i \in s + 1 .. t + 1 PROVE d[i + (start - s)] = chunks[i]
  <2> DEFINE y == i + (start - s)
  <2>1. CASE one = 1 /\ i = s + 1
    <3>1. y = n /\ n \in 1 .. n  BY <1>0, <1>1, <1>2, <2>1
    <3> HIDE DEF y
    <3>2. d[y] = chunks[i]  BY <1>2, <1>5, <2>1, <3>1 DEF n
    <3> QED  BY <3>2 DEF y
  <2>2. CASE ~(one = 1 /\ i = s + 1)
    <3>1. y \in n + 1 .. n + Len(used)  BY <1>0, <1>1, <1>3, <2>2
    <3>2. y - n \in 1 .. (t + 1) - x + 1 /\ x + (y - n) - 1 = i  BY <1>0, <1>1, <1>3, <1>4, <2>2
    <3> DEFINE z == y - n
    <3>3. used[z] = chunks[x + z - 1] /\ x + z - 1 = i  BY <1>3, <3>2
    <3> HIDE DEF y, z
    <3>4. d[y] = used[y - n]  BY <1>5, <3>1
    <3>5. d[y] = chunks[i]  BY <3>3, <3>4, Zenon DEF z
    <3> QED  BY <3>5 DEF y
  <2> QED  BY <2>1, <2>2
<1>8. Follows(chunks, d, t)
  <2>1. t + 1 \in s + 1 .. t + 1 /\ (t + 1) + (start - s) = Len(d)  BY <1>0, <1>1, <1>6
  <2>2. d[Len(d)] = chunks[t + 1]
    <3> DEFINE i == t + 1
    <3>1. i \in s + 1 .. t + 1 /\ i + (start - s) = Len(d)  BY <2>1
    <3> HIDE DEF i, start
    <3>2. d[i + (start - s)] = chunks[i]  BY <1>7, <3>1
    <3> QED  BY <3>1, <3>2, Zenon DEF i
  <2>3. t \in 0 .. Len(chunks) - 1 /\ Len(d) > 0 /\ t \in Int  BY <1>0, <1>1, <1>6
  <2> QED  BY <2>2, <2>3 DEF Follows
<1>9. Len(d) \in Nat  BY <1>6
<1>10. Took(S, chunks, acc, d, s, t, start)  BY <1>0, <1>5, <1>6, <1>7, <1>8, <1>9 DEF Took, Extends, n
<1> QED  BY <1>10 DEF d, used, n, start, x

\* f is e, with its chunks found from start on.
Relocated(e, f, start) ==
    /\ f.size = e.size /\ f.hash = e.hash /\ f.startOffset = e.startOffset /\ f.endOffset = e.endOffset
    /\ f.startChunk = start /\ f.endChunk = start + (e.endChunk - e.startChunk)

(* An entry whose chunks were taken over is right in them. *)
LEMMA TakenRight ==
    ASSUME NEW S \in SUBSET Data, NEW chunks, NEW acc, NEW d, NEW e \in EntryType, RightEntry(chunks, e), e.size > 0,
           NEW start, Took(S, chunks, acc, d, e.startChunk, e.endChunk, start), NEW f, Relocated(e, f, start)
    PROVE  Placed(d, f)
<1> DEFINE n == start - e.startChunk
<1>0. /\ chunks \in Seq(S) /\ Len(d) \in Nat /\ start \in Nat /\ Len(d) = start + (e.endChunk - e.startChunk) + 1
      /\ \A i \in e.startChunk + 1 .. e.endChunk + 1 : d[i + (start - e.startChunk)] = chunks[i]
      /\ f.size = e.size /\ f.hash = e.hash /\ f.startOffset = e.startOffset /\ f.endOffset = e.endOffset
      /\ f.startChunk = start /\ f.endChunk = start + (e.endChunk - e.startChunk)
  BY DEF Took, Extends, Relocated
<1>1. /\ Len(chunks) \in Nat /\ \A i \in 1 .. Len(chunks) : chunks[i] \in Data
      /\ e.size \in Int /\ e.startChunk \in Int /\ e.endChunk \in Int
  BY <1>0, SMTT(60) DEF EntryType
<1>2. n \in Int /\ f.startChunk = e.startChunk + n /\ f.endChunk = e.endChunk + n /\ 0 <= f.startChunk
      /\ f.endChunk < Len(d)
  BY <1>0, <1>1
<1>3. \A i \in e.startChunk + 1 .. e.endChunk + 1 : d[i + n] = chunks[i]  BY <1>0
<1> HIDE DEF n
<1>4. RightEntry(d, f)  BY <1>0, <1>1, <1>2, <1>3, RightMoves
<1>5. ~(f.size <= 0)  BY <1>0, <1>1
<1> QED  BY <1>4, <1>5 DEF Placed

-----------------------------------------------------------------------------
(* The listing.                                                            *)

(* Every place of the listing has its path. *)
LEMMA NthIn ==
    ASSUME NEW paths \in SUBSET Nat, IsFiniteSet(paths), NEW k \in 1 .. Cardinality(paths)
    PROVE  Nth(paths, k) \in paths /\ Cardinality({q \in paths : q <= Nth(paths, k)}) = k
<1> DEFINE n == Cardinality(paths)
           To(p) == {q \in paths : q <= p}
           Is(p, i) == p \in paths /\ Cardinality(To(p)) = i
           G == {i \in 0 .. n : i = 0 \/ \E p : Is(p, i)}
<1>1. n \in Nat  BY FS_CardinalityType
<1>2. 0 \in G  BY <1>1
<1>3. ASSUME NEW i \in 1 .. n, i - 1 \in G PROVE i \in G
  <2>1. PICK D \in SUBSET paths : /\ Cardinality(D) = i - 1
                                  /\ \A x \in D : \A y \in paths \ D : x < y
    <3>1. CASE i = 1
      <4>1. Cardinality({}) = i - 1  BY <3>1, FS_EmptySet
      <4>2. {} \in SUBSET paths  OBVIOUS
      <4> QED  BY <4>1, <4>2
    <3>2. CASE i # 1
      <4>1. PICK p : Is(p, i - 1)  BY <1>3, <3>2
      <4>2. To(p) \in SUBSET paths /\ Cardinality(To(p)) = i - 1  BY <4>1
      <4>3. \A x \in To(p) : \A y \in paths \ To(p) : x < y  BY <4>1
      <4> QED  BY <4>2, <4>3
    <3> QED  BY <3>1, <3>2
  <2>2. IsFiniteSet(D)  BY FS_Subset
  <2>3. paths \ D # {}
    <3>1. D # paths  BY <1>1, <2>1
    <3> QED  BY <3>1
  <2>4. PICK m \in paths \ D : \A y \in paths \ D : m <= y
    <3> DEFINE rest == paths \ D
    <3>1. rest \in SUBSET Nat /\ rest # {}  BY <2>3
    <3> HIDE DEF rest
    <3>2. \E m \in rest : \A y \in rest : m <= y  BY <3>1, SmallestExists
    <3> QED  BY <3>2 DEF rest
  <2>5. To(m) = D \cup {m}
    <3>1. ASSUME NEW q \in paths, q <= m, q \notin D PROVE q = m
      <4>1. m <= q /\ q \in Nat /\ m \in Nat  BY <2>4, <3>1
      <4> QED  BY <3>1, <4>1
    <3>2. ASSUME NEW q \in D PROVE q <= m
      <4>1. q < m /\ q \in Nat /\ m \in Nat  BY <2>1, <2>4
      <4> QED  BY <4>1
    <3>3. m <= m /\ m \in paths  BY <2>4
    <3> QED  BY <3>1, <3>2, <3>3
  <2>6. Cardinality(D \cup {m}) = (i - 1) + 1
    <3>1. m \notin D  BY <2>4
    <3> QED  BY <2>1, <2>2, <3>1, FS_AddElement
  <2>7. (i - 1) + 1 = i  BY <1>1
  <2>8. Is(m, i)  BY <2>4, <2>5, <2>6, <2>7
  <2> HIDE DEF Is
  <2> QED  BY <1>1, <2>8
<1> HIDE DEF G
<1>4. k \in 0 .. n /\ k # 0  BY <1>1
<1>5. \A i \in 0 .. n : i \in G  BY <1>1, <1>2, <1>3, UpTo
<1>6. PICK p : Is(p, k)  BY <1>4, <1>5 DEF G
<1>7. Nth(paths, k) = CHOOSE q \in paths : Cardinality(To(q)) = k  BY Zenon DEF Nth
<1>8. \E q \in paths : Cardinality(To(q)) = k  BY <1>6
<1> HIDE DEF To
<1> DEFINE c == CHOOSE q \in paths : Cardinality(To(q)) = k
<1>9. c \in paths /\ Cardinality(To(c)) = k  BY <1>8, Zenon
<1> QED  BY <1>7, <1>9, Zenon DEF To

\* An entry as the listing makes it.
FreshEntry == {e \in EntryType : e.size >= 0 /\ e.hash = NoHash /\ e.startChunk = 0 /\ e.endChunk = 0}

ListType == [out : Seq(FreshEntry), roots : Seq(Inodes)]

(* One more path is listed. *)
LEMMA ListStep ==
    ASSUME NEW st \in ListType, NEW p \in Paths, NEW i \in Inodes, NEW size \in Nat, NEW t \in Int, NEW nlink \in Int
    PROVE  ListHardLink(st, p, i, size, t, nlink) \in ListType
<1> DEFINE seen == {r \in DOMAIN st.roots : st.roots[r] = i}
<1>1. st.out \in Seq(FreshEntry) /\ st.roots \in Seq(Inodes)  BY DEF ListType
<1>2. ASSUME NEW s \in Nat, NEW link \in Int PROVE CreateEntry(p, s, t, link) \in FreshEntry
  <2>1. NoHash \in Data  BY DEF NoHash, Data
  <2> QED  BY <2>1 DEF FreshEntry, EntryType, CreateEntry
<1>3. ASSUME NEW e \in FreshEntry
      PROVE  /\ [st EXCEPT !.out = Append(@, e)] \in ListType
             /\ [out |-> Append(st.out, e), roots |-> Append(st.roots, i)] \in ListType
  <2>1. Append(st.out, e) \in Seq(FreshEntry) /\ Append(st.roots, i) \in Seq(Inodes)  BY <1>1
  <2> QED  BY <2>1 DEF ListType
<1>4. CASE nlink <= 1
  <2>1. ListHardLink(st, p, i, size, t, nlink) = [st EXCEPT !.out = Append(@, CreateEntry(p, size, t, NotLinked))]
    <3>1. ~(nlink > 1)  BY <1>4
    <3> QED  BY <1>4, <3>1, Zenon DEF ListHardLink
  <2>2. CreateEntry(p, size, t, NotLinked) \in FreshEntry  BY <1>2 DEF NotLinked
  <2> QED  BY <1>3, <2>1, <2>2, Zenon
<1>5. CASE nlink > 1 /\ seen = {}
  <2>1. ListHardLink(st, p, i, size, t, nlink)
           = [out |-> Append(st.out, CreateEntry(p, size, t, Root)), roots |-> Append(st.roots, i)]
    <3>1. ~(nlink <= 1)  BY <1>5
    <3> QED  BY <1>5, <3>1, Zenon DEF ListHardLink
  <2>2. CreateEntry(p, size, t, Root) \in FreshEntry  BY <1>2 DEF Root
  <2> QED  BY <1>3, <2>1, <2>2, Zenon
<1>6. CASE nlink > 1 /\ seen # {}
  <2> DEFINE link == Min(seen) - 1
  <2>1. ListHardLink(st, p, i, size, t, nlink) = [st EXCEPT !.out = Append(@, CreateEntry(p, 0, t, link))]
    <3>1. ~(nlink <= 1)  BY <1>6
    <3> QED  BY <1>6, <3>1, Zenon DEF ListHardLink
  <2>2. link \in Int
    <3>1. seen \in SUBSET Nat  BY <1>1
    <3> HIDE DEF seen
    <3>2. Min(seen) \in seen  BY <1>6, <3>1, MinIs
    <3>3. Min(seen) \in Nat  BY <3>1, <3>2
    <3> HIDE DEF seen
    <3> QED  BY <3>3
  <2> HIDE DEF link
  <2>3. CreateEntry(p, 0, t, link) \in FreshEntry  BY <1>2, <2>2
  <2> QED  BY <1>3, <2>1, <2>3, Zenon
<1> QED  BY <1>4, <1>5, <1>6

\* The files as the model has them.
FilesOK == present \subseteq Paths /\ data \in [Inodes -> Contents] /\ time \in [Inodes -> Int]

(* What is listed at each path. *)
LEMMA PathFacts ==
    ASSUME FilesOK, NEW k \in 1 .. Cardinality(present)
    PROVE  LET p == Nth(present, k)
           IN  p \in Paths /\ Inode[p] \in Inodes /\ Len(data[Inode[p]]) \in Nat /\ time[Inode[p]] \in Int
               /\ Links[Inode[p]] \in Int
<1> DEFINE p == Nth(present, k)
           i == Inode[p]
<1>1. present \in SUBSET Nat /\ IsFiniteSet(present) /\ present \in SUBSET Paths /\ IsFiniteSet(Paths)
  <2>1. present \in SUBSET Paths /\ IsFiniteSet(Paths) /\ Paths \in SUBSET Nat  BY BackupAssumption DEF FilesOK
  <2> QED  BY <2>1, FS_Subset
<1>2. p \in present  BY <1>1, NthIn, Zenon
<1> HIDE DEF p
<1>3. p \in Paths /\ i \in Inodes  BY <1>1, <1>2 DEF Inodes
<1> HIDE DEF i
<1>4. Len(data[i]) \in Nat
  <2>1. data[i] \in Contents /\ Contents \subseteq Seq(Nat \ {0})  BY <1>3, BackupAssumption DEF FilesOK
  <2>2. data[i] \in Seq(Nat \ {0})  BY <2>1
  <2> QED  BY <2>2
<1>5. time[i] \in Int  BY <1>3 DEF FilesOK
<1>6. Links[i] \in Int
  <2> DEFINE S == {q \in present : Inode[q] = i}
  <2>1. Links[i] = Cardinality(S) + (IF i \in Outside THEN 1 ELSE 0)  BY <1>3 DEF Links
  <2>2. S \in SUBSET present  OBVIOUS
  <2> HIDE DEF S
  <2>3. Cardinality(S) \in Nat  BY <1>1, <2>2, FS_Subset, FS_CardinalityType
  <2> QED  BY <2>1, <2>3
<1> QED  BY <1>3, <1>4, <1>5, <1>6 DEF i, p

Listed(st, k) ==
    ListHardLink(st, Nth(present, k), Inode[Nth(present, k)], Len(data[Inode[Nth(present, k)]]),
                 time[Inode[Nth(present, k)]], Links[Inode[Nth(present, k)]])

(* One more path, by its number. *)
LEMMA ListedStep ==
    ASSUME FilesOK, NEW k \in 1 .. Cardinality(present), NEW st \in ListType
    PROVE  Listed(st, k) \in ListType
<1> DEFINE p == Nth(present, k)
           i == Inode[p]
           size == Len(data[i])
           t == time[i]
           nlink == Links[i]
<1>1. p \in Paths /\ i \in Inodes /\ size \in Nat /\ t \in Int /\ nlink \in Int  BY PathFacts
<1>2. Listed(st, k) = ListHardLink(st, p, i, size, t, nlink)  BY Zenon DEF Listed
<1> HIDE DEF p, i, size, t, nlink
<1>3. ListHardLink(st, p, i, size, t, nlink) \in ListType  BY <1>1, ListStep
<1> QED  BY <1>2, <1>3, Zenon

(* The states of the listing come one from the other. *)
LEMMA ListSteps ==
    ASSUME FilesOK
    PROVE  /\ ListingStates(present, Inode, data, time, Links) \in [0 .. Cardinality(present) -> ListType]
           /\ ListingStates(present, Inode, data, time, Links)[0] = [out |-> <<>>, roots |-> <<>>]
           /\ \A k \in 1 .. Cardinality(present) :
                 ListingStates(present, Inode, data, time, Links)[k] = Listed(ListingStates(present, Inode, data, time, Links)[k - 1], k)
<1> DEFINE n == Cardinality(present)
           b == [out |-> <<>>, roots |-> <<>>]
           T == ListType
           F == [p \in (1 .. n) \X T |-> Listed(p[2], p[1])]
           Is(st) == st = [k \in 0 .. n |-> IF k = 0 THEN b ELSE Listed(st[k - 1], k)]
<1>1. n \in Nat
  <2>1. present \in SUBSET Paths /\ IsFiniteSet(Paths)  BY BackupAssumption DEF FilesOK
  <2> QED  BY <2>1, FS_Subset, FS_CardinalityType
<1>2. b \in T  BY DEF ListType
<1>3. \A k \in 1 .. n : \A x \in T : Listed(x, k) \in T  BY <1>1, ListedStep DEF n, T
<1> HIDE DEF T, b, n
<1>4. StepFunction(F, n, T)
  <2>1. \A p \in (1 .. n) \X T : Listed(p[2], p[1]) \in T  BY <1>3
  <2>2. F \in [(1 .. n) \X T -> T]  BY <2>1
  <2> QED  BY <2>2, Zenon DEF StepFunction
<1>5. \A k \in 1 .. n : \A x \in T : F[<<k, x>>] = Listed(x, k)  OBVIOUS
<1> HIDE DEF F
<1>6. PICK a : Computed(a, n, T, b, F)  BY <1>1, <1>2, <1>4, RecursionExists
<1>7. a \in [0 .. n -> T] /\ a[0] = b /\ \A k \in 1 .. n : a[k] = F[<<k, a[k - 1]>>]
  BY <1>6, Zenon DEF Computed
<1>8. Is(a)
  <2>1. ASSUME NEW k \in 0 .. n PROVE a[k] = IF k = 0 THEN b ELSE Listed(a[k - 1], k)
    <3>1. CASE k = 0  BY <1>7, <3>1
    <3>2. CASE k # 0
      <4>1. k \in 1 .. n /\ k - 1 \in 0 .. n  BY <1>1, <3>2
      <4>2. a[k - 1] \in T /\ a[k] = F[<<k, a[k - 1]>>]  BY <1>7, <4>1
      <4>3. F[<<k, a[k - 1]>>] = Listed(a[k - 1], k)  BY <1>5, <4>1, <4>2
      <4> QED  BY <3>2, <4>2, <4>3
    <3> QED  BY <3>1, <3>2
  <2>2. a = [k \in 0 .. n |-> a[k]]  BY <1>7
  <2> QED  BY <2>1, <2>2, Zenon
<1> DEFINE c == CHOOSE st : Is(st)
<1>9. Is(c)  BY <1>8, Zenon
<1>10. ListingStates(present, Inode, data, time, Links) = c  BY Zenon DEF ListingStates, Listed, n, b
<1> HIDE DEF c
<1>11. DOMAIN c = 0 .. n /\ c = [k \in 0 .. n |-> c[k]]  BY <1>9
<1>12. \A k \in 0 .. n : c[k] = IF k = 0 THEN b ELSE Listed(c[k - 1], k)  BY <1>9, Zenon
<1>13. c[0] = b  BY <1>1, <1>12
<1>14. ASSUME NEW k \in 1 .. n PROVE c[k] = Listed(c[k - 1], k)
  <2>1. k \in 0 .. n /\ k # 0  BY <1>1
  <2> QED  BY <1>12, <2>1, Zenon
<1> DEFINE G == {k \in 0 .. n : c[k] \in T}
<1>15. 0 \in G  BY <1>1, <1>2, <1>13
<1>16. ASSUME NEW k \in 1 .. n, k - 1 \in G PROVE k \in G
  <2>1. k \in 0 .. n /\ c[k - 1] \in T  BY <1>1, <1>16
  <2>2. c[k] \in T  BY <1>3, <1>14, <2>1
  <2> QED  BY <2>1, <2>2
<1> HIDE DEF G
<1>17. \A k \in 0 .. n : k \in G  BY <1>1, <1>15, <1>16, UpTo
<1>18. c \in [0 .. n -> T]
  <2>1. \A k \in 0 .. n : c[k] \in T  BY <1>17 DEF G
  <2> QED  BY <1>11, <2>1
<1>19. /\ c \in [0 .. n -> T] /\ c[0] = b
       /\ \A k \in 1 .. n : c[k] = Listed(c[k - 1], k)
  BY <1>13, <1>14, <1>18
<1> QED  BY <1>10, <1>19, Zenon DEF n, b, T

(* The listing. *)
LEMMA Listing ==
    ASSUME FilesOK
    PROVE  ListHardLinks(present, Inode, data, time, Links) \in Seq(FreshEntry)
<1> DEFINE n == Cardinality(present)
           D == ListingStates(present, Inode, data, time, Links)
<1>1. n \in 0 .. n
  <2>1. present \in SUBSET Paths /\ IsFiniteSet(Paths)  BY BackupAssumption DEF FilesOK
  <2>2. n \in Nat  BY <2>1, FS_Subset, FS_CardinalityType
  <2> HIDE DEF n
  <2> QED  BY <2>2
<1>2. D \in [0 .. n -> ListType]  BY ListSteps
<1> HIDE DEF D, n
<1>3. D[n].out \in Seq(FreshEntry)  BY <1>1, <1>2 DEF ListType
<1>4. ListHardLinks(present, Inode, data, time, Links) = D[n].out  BY Zenon DEF ListHardLinks, D, n
<1> QED  BY <1>3, <1>4

-----------------------------------------------------------------------------
(* The merge.                                                              *)

\* No file is packed yet.
NonePacked(l) == l.uploaded = <<>> /\ \A j \in 1 .. Len(l.modified) : l.modified[j].size = -1 /\ l.modified[j].hash = NoHash

\* The lists a merge makes, with the chunks it keeps from S.
Merged(S, token) == {l \in Lists : l.token = token /\ l.preserved \in Seq(S) /\ KeptRight(l) /\ NonePacked(l)}

(* An entry is added to the list. *)
LEMMA AddOne ==
    ASSUME NEW S, NEW token, NEW l \in Merged(S, token), NEW e \in EntryType, IsComplete(e) => Placed(l.preserved, e)
    PROVE  AddEntry(l, e) \in Merged(S, token) /\ AddEntry(l, e).preserved = l.preserved
<1> DEFINE new == [path |-> e.path, size |-> -1, hash |-> NoHash]
           entries == Append(l.entries, e)
           modified == IF IsComplete(e) THEN l.modified ELSE Append(l.modified, new)
           r == [l EXCEPT !.entries = entries, !.modified = modified]
<1>1. r = AddEntry(l, e)  BY Zenon DEF AddEntry
<1>2. /\ l \in Lists /\ l.entries \in Seq(EntryType) /\ l.modified \in Seq(ModifiedType)
      /\ l.token = token /\ l.preserved \in Seq(S) /\ KeptRight(l) /\ NonePacked(l)
  BY DEF Merged, Lists
<1>3. new \in ModifiedType /\ new.size = -1 /\ new.hash = NoHash
  <2>1. e.path \in Paths /\ NoHash \in Data /\ -1 \in Int  BY DEF EntryType, NoHash, Data
  <2> QED  BY <2>1 DEF ModifiedType
<1> HIDE DEF new
<1>4. /\ entries \in Seq(EntryType) /\ DOMAIN entries = 1 .. Len(l.entries) + 1 /\ DOMAIN l.entries = 1 .. Len(l.entries)
      /\ entries[Len(l.entries) + 1] = e /\ \A k \in 1 .. Len(l.entries) : entries[k] = l.entries[k]
      /\ Len(l.entries) \in Nat
  BY <1>2
<1>5. /\ modified \in Seq(ModifiedType)
      /\ \A j \in 1 .. Len(modified) : modified[j].size = -1 /\ modified[j].hash = NoHash
  <2>1. CASE IsComplete(e)  BY <1>2, <2>1 DEF NonePacked
  <2>2. CASE ~IsComplete(e)
    <3> DEFINE q == Append(l.modified, new)
    <3>1. q \in Seq(ModifiedType) /\ Len(q) = Len(l.modified) + 1 /\ q[Len(l.modified) + 1] = new
          /\ \A j \in 1 .. Len(l.modified) : q[j] = l.modified[j]
      BY <1>2, <1>3
    <3>2. Len(l.modified) \in Nat  BY <1>2
    <3>3. modified = q  BY <2>2
    <3> HIDE DEF q, modified
    <3>4. ASSUME NEW j \in 1 .. Len(q) PROVE q[j].size = -1 /\ q[j].hash = NoHash
      <4>1. CASE j = Len(l.modified) + 1  BY <1>3, <3>1, <4>1
      <4>2. CASE j # Len(l.modified) + 1
        <5>1. j \in 1 .. Len(l.modified)  BY <3>1, <3>2, <4>2
        <5> QED  BY <1>2, <3>1, <5>1 DEF NonePacked
      <4> QED  BY <4>1, <4>2
    <3> QED  BY <3>1, <3>3, <3>4
  <2> QED  BY <2>1, <2>2
<1> HIDE DEF entries, modified
<1>6. r \in Lists /\ r.token = l.token /\ r.preserved = l.preserved /\ r.uploaded = l.uploaded
      /\ r.entries = entries /\ r.modified = modified
  BY <1>2, <1>4, <1>5 DEF Lists
<1> HIDE DEF r
<1>7. KeptRight(r)
  <2>1. ASSUME NEW k \in DOMAIN entries, IsComplete(entries[k]) PROVE Placed(l.preserved, entries[k])
    <3>1. CASE k = Len(l.entries) + 1  BY <1>4, <2>1, <3>1
    <3>2. CASE k # Len(l.entries) + 1
      <4>1. k \in DOMAIN l.entries /\ entries[k] = l.entries[k]  BY <1>4, <3>2
      <4> QED  BY <1>2, <2>1, <4>1 DEF KeptRight
    <3> QED  BY <3>1, <3>2
  <2> QED  BY <1>6, <2>1, Zenon DEF KeptRight
<1>8. NonePacked(r)  BY <1>2, <1>5, <1>6 DEF NonePacked
<1> QED  BY <1>1, <1>2, <1>6, <1>7, <1>8 DEF Merged

(* Chunks are added to those that are kept. *)
LEMMA AddChunks ==
    ASSUME NEW S \in SUBSET Data, NEW token, NEW l \in Merged(S, token), NEW new, NEW d, d = l.preserved \o new,
           Extends(S, l.preserved, d)
    PROVE  AddPreservedChunks(l, new) \in Merged(S, token) /\ AddPreservedChunks(l, new).preserved = d
<1> DEFINE r == [l EXCEPT !.preserved = d]
<1>1. AddPreservedChunks(l, new) = r  BY Zenon DEF AddPreservedChunks
<1>2. /\ l \in Lists /\ l.preserved \in Seq(S) /\ l.entries \in Seq(EntryType)
      /\ l.token = token /\ KeptRight(l) /\ NonePacked(l)
      /\ d \in Seq(S) /\ Len(d) \in Nat /\ Len(l.preserved) <= Len(d)
      /\ \A i \in 1 .. Len(l.preserved) : d[i] = l.preserved[i]
  BY DEF Merged, Lists, Extends
<1>3. d \in Seq(Data) /\ l.preserved \in Seq(Data)
  <2> HIDE DEF Data
  <2> QED  BY <1>2
<1>4. r \in Lists /\ r.preserved = d /\ r.entries = l.entries /\ r.modified = l.modified /\ r.uploaded = l.uploaded
      /\ r.token = l.token
  BY <1>2, <1>3 DEF Lists
<1> HIDE DEF r
<1>5. KeptRight(r)
  <2>1. ASSUME NEW k \in DOMAIN l.entries, IsComplete(l.entries[k]) PROVE Placed(d, l.entries[k])
    <3>1. Placed(l.preserved, l.entries[k]) /\ l.entries[k] \in EntryType  BY <1>2, <2>1 DEF KeptRight
    <3> QED  BY <1>2, <1>3, <3>1, StillPlaced
  <2> QED  BY <1>4, <2>1, Zenon DEF KeptRight
<1>6. NonePacked(r)  BY <1>2, <1>4 DEF NonePacked
<1> QED  BY <1>1, <1>2, <1>4, <1>5, <1>6 DEF Merged

\* The states of a merge.
MergeType(S, token, remote, chunks) ==
    {st \in [list : Merged(S, token), at : Nat, last : Int] :
        st.at \in 1 .. Len(remote) + 1 /\ Follows(chunks, st.list.preserved, st.last)}

(* One more file of the listing is merged. *)
LEMMA MergeStep ==
    ASSUME NEW S \in SUBSET Data, NEW token, NEW chunks \in Seq(S), NEW remote \in Seq(EntryType),
           \A i \in DOMAIN remote : RightEntry(chunks, remote[i]),
           NEW st \in MergeType(S, token, remote, chunks), NEW local \in FreshEntry
    PROVE  MergeEntry(remote, chunks, st, local) \in MergeType(S, token, remote, chunks)
<1> DEFINE T == MergeType(S, token, remote, chunks)
           l == st.list
           n == Len(remote)
           rest == {i \in st.at .. n : remote[i].path >= local.path}
           at1 == IF rest = {} THEN n + 1 ELSE Min(rest)
           found == rest # {} /\ remote[at1].path = local.path
           r == remote[at1]
           s == r.startChunk
           t == r.endChunk
           shared == st.last = s
           added == SubSeq(chunks, s + (IF shared THEN 2 ELSE 1), t + 1)
           delta == s - Len(l.preserved) + (IF shared THEN 1 ELSE 0)
           kept == [local EXCEPT !.hash = r.hash, !.startOffset = r.startOffset, !.endOffset = r.endOffset,
                                 !.startChunk = s - delta, !.endChunk = t - delta]
           next == IF found THEN at1 + 1 ELSE at1
           taken == found /\ IsSameAs(local, r) /\ local.size > 0
<1>1. MergeEntry(remote, chunks, st, local) =
        CASE taken -> [list |-> AddEntry(AddPreservedChunks(l, added), kept), at |-> next, last |-> t]
          [] local.size = 0 -> [st EXCEPT !.list = AddEntry(l, local), !.at = next]
          [] OTHER -> [st EXCEPT !.list = AddEntry(l, [local EXCEPT !.size = -1]), !.at = next]
  BY Zenon DEF MergeEntry, Delta
<1>2. /\ l \in Merged(S, token) /\ st.at \in 1 .. n + 1 /\ Follows(chunks, l.preserved, st.last) /\ st.last \in Int
      /\ l.preserved \in Seq(S) /\ n \in Nat
      /\ st \in [list : Merged(S, token), at : Nat, last : Int]
  BY DEF MergeType, Merged
<1>3. /\ local \in EntryType /\ local.size \in Int /\ local.size >= 0 /\ local.hash = NoHash
      /\ local.startChunk = 0 /\ local.endChunk = 0
  BY DEF FreshEntry, EntryType
<1>4. at1 \in 1 .. n + 1 /\ (found => at1 \in 1 .. n)
  <2>1. CASE rest = {}  BY <1>2, <2>1
  <2>2. CASE rest # {}
    <3>1. rest \in SUBSET Nat /\ rest \in SUBSET (1 .. n)  BY <1>2
    <3>2. at1 = Min(rest)  BY <2>2
    <3> HIDE DEF rest, at1
    <3>3. at1 \in rest  BY <2>2, <3>1, <3>2, MinIs
    <3>4. at1 \in 1 .. n  BY <3>1, <3>3
    <3> QED  BY <1>2, <3>4
  <2> QED  BY <2>1, <2>2
<1>5. next \in 1 .. n + 1
  <2> HIDE DEF at1, found
  <2> QED  BY <1>2, <1>4
<1> HIDE DEF next
<1>6. CASE taken
  <2> DEFINE one == IF s = st.last THEN 1 ELSE 0
             p == l.preserved
             d == p \o SubSeq(chunks, s + 1 + one, t + 1)
             start == Len(p) - one
  <2>1. r \in EntryType /\ RightEntry(chunks, r) /\ local.size = r.size /\ r.size > 0
    <3>0. at1 \in 1 .. n  BY <1>4, <1>6
    <3> HIDE DEF at1
    <3>1. at1 \in DOMAIN remote /\ r \in EntryType  BY <3>0
    <3> HIDE DEF r
    <3>2. local.size = r.size  BY <1>6, Zenon DEF IsSameAs
    <3>3. RightEntry(chunks, r)  BY <3>1 DEF r
    <3> QED  BY <1>6, <3>1, <3>2, <3>3
  <2> HIDE DEF r
  <2>2. s \in Nat /\ t \in Nat /\ s <= t /\ t < Len(chunks)
    <3>1. 0 <= s /\ s <= t /\ t < Len(chunks)  BY <2>1, Zenon DEF RightEntry, checkEntry
    <3>2. s \in Int /\ t \in Int  BY <2>1 DEF EntryType
    <3> QED  BY <3>1, <3>2
  <2>3. added = SubSeq(chunks, s + 1 + one, t + 1)
    <3>1. s + (IF shared THEN 2 ELSE 1) = s + 1 + one  BY <2>2
    <3> QED  BY <3>1, Zenon
  <2>4. one = IF s = st.last THEN 1 ELSE 0  OBVIOUS
  <2> HIDE DEF s, t, one
  <2>5. Took(S, chunks, p, d, s, t, start) /\ Extends(S, p, d) /\ start \in Nat /\ Follows(chunks, d, t)
    <3>1. Takes(S, chunks, p, s, t, st.last, one)  BY <1>2, <2>2, <2>4 DEF Takes
    <3>2. Took(S, chunks, p, d, s, t, start)
      <4> HIDE DEF p
      <4> QED  BY <3>1, TakeOver
    <3> HIDE DEF p, d, start
    <3> QED  BY <3>2 DEF Took
  <2>6. one \in {0, 1} /\ delta = s - start
    <3>1. Len(p) \in Nat  BY <1>2
    <3>2. (IF shared THEN 1 ELSE 0) = one  BY <2>4
    <3> HIDE DEF p
    <3> QED  BY <2>2, <2>4, <3>1, <3>2 DEF p
  <2> HIDE DEF added, d, p
  <2>7. AddPreservedChunks(l, added) \in Merged(S, token) /\ AddPreservedChunks(l, added).preserved = d
    <3>1. d = l.preserved \o added  BY <2>3 DEF d, p
    <3>2. Extends(S, l.preserved, d)  BY <2>5 DEF p
    <3>3. l \in Merged(S, token)  BY <1>2
    <3> HIDE DEF l
    <3> QED  BY <3>1, <3>2, <3>3, AddChunks
  <2>8. /\ kept \in EntryType /\ kept.size = r.size /\ kept.hash = r.hash /\ kept.startOffset = r.startOffset
        /\ kept.endOffset = r.endOffset /\ kept.startChunk = start /\ kept.endChunk = start + (t - s)
    <3>1. s - delta = start /\ t - delta = start + (t - s) /\ start \in Int
      <4> HIDE DEF delta, start
      <4> QED  BY <2>2, <2>5, <2>6
    <3>2. r.hash \in Data /\ r.startOffset \in Int /\ r.endOffset \in Int  BY <2>1 DEF EntryType
    <3> DEFINE x == s - delta
               y == t - delta
    <3> HIDE DEF delta, start
    <3>3. x = start /\ y = start + (t - s) /\ x \in Int /\ y \in Int  BY <2>2, <3>1
    <3> HIDE DEF x, y
    <3> DEFINE k == [local EXCEPT !.hash = r.hash, !.startOffset = r.startOffset, !.endOffset = r.endOffset,
                                  !.startChunk = x, !.endChunk = y]
    <3>4. /\ k \in EntryType /\ k.size = local.size /\ k.hash = r.hash /\ k.startOffset = r.startOffset
          /\ k.endOffset = r.endOffset /\ k.startChunk = x /\ k.endChunk = y
      BY <1>3, <3>2, <3>3 DEF EntryType
    <3>5. k = kept  BY Zenon DEF x, y
    <3> HIDE DEF k
    <3> QED  BY <2>1, <3>3, <3>4, <3>5
  <2> HIDE DEF kept, delta, start
  <2>9. Placed(d, kept)
    <3>1. Took(S, chunks, p, d, r.startChunk, r.endChunk, start)  BY <2>5 DEF s, t
    <3>2. Relocated(r, kept, start)  BY <2>8 DEF Relocated, s, t
    <3> QED  BY <2>1, <3>1, <3>2, TakenRight
  <2> DEFINE l2 == AddPreservedChunks(l, added)
             l3 == AddEntry(l2, kept)
  <2>10. l3 \in Merged(S, token) /\ l3.preserved = d
    <3>1. l2 \in Merged(S, token) /\ l2.preserved = d  BY <2>7
    <3> HIDE DEF l2
    <3> QED  BY <2>8, <2>9, <3>1, AddOne
  <2>11. MergeEntry(remote, chunks, st, local) = [list |-> l3, at |-> next, last |-> t]
    <3> HIDE DEF taken, l3
    <3>1. MergeEntry(remote, chunks, st, local) =
            CASE taken -> [list |-> l3, at |-> next, last |-> t]
              [] local.size = 0 -> [st EXCEPT !.list = AddEntry(l, local), !.at = next]
              [] OTHER -> [st EXCEPT !.list = AddEntry(l, [local EXCEPT !.size = -1]), !.at = next]
      BY <1>1, Zenon DEF l3
    <3>2. ~(local.size = 0)
      <4>1. local.size > 0  BY <1>6 DEF taken
      <4> QED  BY <1>3, <4>1
    <3> QED  BY <1>6, <3>1, <3>2, Zenon
  <2> HIDE DEF l3
  <2>12. t \in Int /\ next \in Nat  BY <1>2, <1>5, <2>2
  <2> QED  BY <1>5, <2>5, <2>10, <2>11, <2>12 DEF MergeType
<1>7. CASE ~taken
  <2> HIDE DEF taken
  <2>1. PICK e \in EntryType : /\ IsComplete(e) => Placed(l.preserved, e)
                               /\ MergeEntry(remote, chunks, st, local) = [st EXCEPT !.list = AddEntry(l, e), !.at = next]
    <3>1. CASE local.size = 0
      <4>1. MergeEntry(remote, chunks, st, local) = [st EXCEPT !.list = AddEntry(l, local), !.at = next]
        BY <1>1, <1>7, <3>1, Zenon
      <4>2. Placed(l.preserved, local)
        <5>1. checkEntry(l.preserved, local)  BY <1>3, <3>1 DEF checkEntry
        <5> QED  BY <1>3, <5>1 DEF Placed, RightEntry
      <4> QED  BY <1>3, <4>1, <4>2
    <3>2. CASE ~(local.size = 0)
      <4> DEFINE e == [local EXCEPT !.size = -1]
      <4>1. MergeEntry(remote, chunks, st, local) = [st EXCEPT !.list = AddEntry(l, e), !.at = next]
        BY <1>1, <1>7, <3>2, Zenon
      <4>2. e \in EntryType /\ ~IsComplete(e)
        <5>1. e \in EntryType /\ e.size = -1
          <6>1. -1 \in Int /\ local \in EntryType  BY <1>3
          <6> QED  BY <6>1 DEF EntryType
        <5> HIDE DEF e
        <5>2. ~(e.size >= 0)  BY <5>1
        <5> QED  BY <5>1, <5>2 DEF IsComplete
      <4> HIDE DEF e
      <4> QED  BY <4>1, <4>2
    <3> QED  BY <3>1, <3>2
  <2> DEFINE l2 == AddEntry(l, e)
             r2 == [st EXCEPT !.list = l2, !.at = next]
  <2>2. l2 \in Merged(S, token) /\ l2.preserved = l.preserved  BY <1>2, <2>1, AddOne
  <2> HIDE DEF l2
  <2>3. next \in Nat  BY <1>2, <1>5
  <2>4. /\ r2 \in [list : Merged(S, token), at : Nat, last : Int]
        /\ r2.list = l2 /\ r2.at = next /\ r2.last = st.last
    BY <1>2, <2>2, <2>3
  <2>5. MergeEntry(remote, chunks, st, local) = r2  BY <2>1, Zenon DEF l2
  <2> HIDE DEF r2
  <2>6. Follows(chunks, r2.list.preserved, r2.last)  BY <1>2, <2>2, <2>4, Zenon
  <2> QED  BY <1>5, <2>4, <2>5, <2>6 DEF MergeType
<1> QED  BY <1>6, <1>7

(* The states of the merge come one from the other. *)
LEMMA MergeSteps ==
    ASSUME NEW S \in SUBSET Data, NEW token \in Nat, NEW chunks \in Seq(S), NEW remote \in Seq(EntryType),
           \A i \in DOMAIN remote : RightEntry(chunks, remote[i]), NEW listing \in Seq(FreshEntry)
    PROVE  /\ MergeStates(token, listing, remote, chunks) \in [0 .. Len(listing) -> MergeType(S, token, remote, chunks)]
           /\ MergeStates(token, listing, remote, chunks)[0] = [list |-> CreateEntryList(token), at |-> 1, last |-> -1]
           /\ \A k \in 1 .. Len(listing) :
                 MergeStates(token, listing, remote, chunks)[k] = MergeEntry(remote, chunks, MergeStates(token, listing, remote, chunks)[k - 1], listing[k])
<1> DEFINE n == Len(listing)
           b == [list |-> CreateEntryList(token), at |-> 1, last |-> -1]
           T == MergeType(S, token, remote, chunks)
           F == [p \in (1 .. n) \X T |-> MergeEntry(remote, chunks, p[2], listing[p[1]])]
           Is(st) == st = [k \in 0 .. n |-> IF k = 0 THEN b ELSE MergeEntry(remote, chunks, st[k - 1], listing[k])]
<1>1. n \in Nat /\ \A k \in 1 .. n : listing[k] \in FreshEntry  OBVIOUS
<1>2. b \in T
  <2> DEFINE l == CreateEntryList(token)
  <2>1. l \in Lists /\ l.token = token /\ l.preserved = <<>> /\ l.uploaded = <<>> /\ l.entries = <<>> /\ l.modified = <<>>
    BY DEF CreateEntryList, Lists
  <2> HIDE DEF l
  <2>2. l \in Merged(S, token)
    <3>1. KeptRight(l) /\ NonePacked(l)  BY <2>1 DEF KeptRight, NonePacked
    <3>2. l.preserved \in Seq(S)  BY <2>1
    <3> QED  BY <2>1, <3>1, <3>2 DEF Merged
  <2>3. Follows(chunks, l.preserved, -1)  BY DEF Follows
  <2>4. 1 \in 1 .. Len(remote) + 1 /\ 1 \in Nat /\ -1 \in Int  OBVIOUS
  <2>5. b = [list |-> l, at |-> 1, last |-> -1]  BY DEF l
  <2> HIDE DEF b
  <2> QED  BY <2>2, <2>3, <2>4, <2>5 DEF MergeType
<1>3. \A k \in 1 .. n : \A x \in T : MergeEntry(remote, chunks, x, listing[k]) \in T  BY <1>1, MergeStep
<1> HIDE DEF T, b, n
<1>4. StepFunction(F, n, T)
  <2>1. \A p \in (1 .. n) \X T : MergeEntry(remote, chunks, p[2], listing[p[1]]) \in T  BY <1>3
  <2>2. F \in [(1 .. n) \X T -> T]  BY <2>1
  <2> QED  BY <2>2, Zenon DEF StepFunction
<1>5. \A k \in 1 .. n : \A x \in T : F[<<k, x>>] = MergeEntry(remote, chunks, x, listing[k])  OBVIOUS
<1> HIDE DEF F
<1>6. PICK a : Computed(a, n, T, b, F)  BY <1>1, <1>2, <1>4, RecursionExists
<1>7. a \in [0 .. n -> T] /\ a[0] = b /\ \A k \in 1 .. n : a[k] = F[<<k, a[k - 1]>>]
  BY <1>6, Zenon DEF Computed
<1>8. Is(a)
  <2>1. ASSUME NEW k \in 0 .. n PROVE a[k] = IF k = 0 THEN b ELSE MergeEntry(remote, chunks, a[k - 1], listing[k])
    <3>1. CASE k = 0  BY <1>7, <3>1
    <3>2. CASE k # 0
      <4>1. k \in 1 .. n /\ k - 1 \in 0 .. n  BY <1>1, <3>2
      <4>2. a[k - 1] \in T /\ a[k] = F[<<k, a[k - 1]>>]  BY <1>7, <4>1
      <4>3. F[<<k, a[k - 1]>>] = MergeEntry(remote, chunks, a[k - 1], listing[k])  BY <1>5, <4>1, <4>2
      <4> QED  BY <3>2, <4>2, <4>3
    <3> QED  BY <3>1, <3>2
  <2>2. a = [k \in 0 .. n |-> a[k]]  BY <1>7
  <2> QED  BY <2>1, <2>2, Zenon
<1> DEFINE c == CHOOSE st : Is(st)
<1>9. Is(c)  BY <1>8, Zenon
<1>10. MergeStates(token, listing, remote, chunks) = c  BY Zenon DEF MergeStates, n, b
<1> HIDE DEF c
<1>11. DOMAIN c = 0 .. n /\ c = [k \in 0 .. n |-> c[k]]  BY <1>9
<1>12. \A k \in 0 .. n : c[k] = IF k = 0 THEN b ELSE MergeEntry(remote, chunks, c[k - 1], listing[k])  BY <1>9, Zenon
<1>13. c[0] = b  BY <1>1, <1>12
<1>14. ASSUME NEW k \in 1 .. n PROVE c[k] = MergeEntry(remote, chunks, c[k - 1], listing[k])
  <2>1. k \in 0 .. n /\ k # 0  BY <1>1
  <2> QED  BY <1>12, <2>1, Zenon
<1> DEFINE G == {k \in 0 .. n : c[k] \in T}
<1>15. 0 \in G  BY <1>1, <1>2, <1>13
<1>16. ASSUME NEW k \in 1 .. n, k - 1 \in G PROVE k \in G
  <2>1. k \in 0 .. n /\ c[k - 1] \in T  BY <1>1, <1>16
  <2>2. c[k] \in T  BY <1>3, <1>14, <2>1
  <2> QED  BY <2>1, <2>2
<1> HIDE DEF G
<1>17. \A k \in 0 .. n : k \in G  BY <1>1, <1>15, <1>16, UpTo
<1>18. c \in [0 .. n -> T]
  <2>1. \A k \in 0 .. n : c[k] \in T  BY <1>17 DEF G
  <2> QED  BY <1>11, <2>1
<1>19. /\ c \in [0 .. n -> T] /\ c[0] = b
       /\ \A k \in 1 .. n : c[k] = MergeEntry(remote, chunks, c[k - 1], listing[k])
  BY <1>13, <1>14, <1>18
<1> QED  BY <1>10, <1>19, Zenon DEF n, b, T

(* The merge of a listing with the entries of an earlier backup that are right gives a list   *)
(* whose complete entries are right in the chunks taken over, and of which no file is packed. *)
THEOREM MergeMakes ==
    ASSUME NEW S \in SUBSET Data, NEW token \in Nat, NEW chunks \in Seq(S), NEW remote \in Seq(EntryType),
           \A i \in DOMAIN remote : RightEntry(chunks, remote[i]), NEW listing \in Seq(FreshEntry)
    PROVE  Merge(token, listing, remote, chunks) \in Merged(S, token)
<1> DEFINE n == Len(listing)
           D == MergeStates(token, listing, remote, chunks)
<1>1. n \in 0 .. n  OBVIOUS
<1>2. D \in [0 .. n -> MergeType(S, token, remote, chunks)]  BY MergeSteps
<1> HIDE DEF D, n
<1>3. D[n].list \in Merged(S, token)  BY <1>1, <1>2 DEF MergeType
<1>4. Merge(token, listing, remote, chunks) = D[n].list  BY Zenon DEF Merge, D, n
<1> QED  BY <1>3, <1>4

-----------------------------------------------------------------------------
(* The entries of a snapshot, each counted from the end of the one before. *)

\* ends[k] is where the k-th entry ends.
Ends(out, ends) ==
    /\ ends \in [0 .. Len(out) -> Int] /\ ends[0] = 0
    /\ \A k \in 1 .. Len(out) : ends[k] = out[k].endChunk + (out[k].startChunk + ends[k - 1])

CodedWith(c, out, end, ends) ==
    Ends(out, ends) /\ ends[Len(out)] = end /\ \A k \in 1 .. Len(out) : RightEntry(c, Moved(out[k], ends[k - 1]))

\* Every entry leads to its content in c, and the last one ends at end.
Coded(c, out, end) == \E ends : CodedWith(c, out, end, ends)

(* A moved entry. *)
LEMMA MovedTyped ==
    ASSUME NEW e \in EntryType, NEW from \in Int
    PROVE  LET m == Moved(e, from)
           IN  /\ m \in EntryType /\ m.startChunk = e.startChunk + from /\ m.endChunk = e.endChunk + (e.startChunk + from)
               /\ m.size = e.size /\ m.hash = e.hash /\ m.startOffset = e.startOffset /\ m.endOffset = e.endOffset
<1> DEFINE x == e.startChunk + from
           y == e.endChunk + x
           m == [e EXCEPT !.startChunk = x, !.endChunk = y]
<1>1. x \in Int /\ y \in Int  BY DEF EntryType
<1>2. Moved(e, from) = m  BY Zenon DEF Moved
<1>3. x = e.startChunk + from /\ y = e.endChunk + (e.startChunk + from)  OBVIOUS
<1> HIDE DEF x, y
<1>4. /\ m \in EntryType /\ m.startChunk = x /\ m.endChunk = y
      /\ m.size = e.size /\ m.hash = e.hash /\ m.startOffset = e.startOffset /\ m.endOffset = e.endOffset
  BY <1>1 DEF EntryType
<1> HIDE DEF m
<1> QED  BY <1>2, <1>3, <1>4

(* Chunks are added at the end. *)
LEMMA CodedExtends ==
    ASSUME NEW S \in SUBSET Data, NEW c \in Seq(S), NEW d, Extends(S, c, d), NEW out \in Seq(EntryType), NEW end,
           Coded(c, out, end)
    PROVE  Coded(d, out, end)
<1>1. PICK ends : CodedWith(c, out, end, ends)  BY DEF Coded
<1>2. c \in Seq(Data) /\ d \in Seq(Data) /\ Len(c) <= Len(d) /\ \A i \in 1 .. Len(c) : d[i] = c[i]
  <2>1. c \in Seq(S) /\ d \in Seq(S) /\ Len(c) <= Len(d) /\ \A i \in 1 .. Len(c) : d[i] = c[i]  BY DEF Extends
  <2> HIDE DEF Data
  <2> QED  BY <2>1
<1>3. ASSUME NEW k \in 1 .. Len(out) PROVE RightEntry(d, Moved(out[k], ends[k - 1]))
  <2>1. k - 1 \in 0 .. Len(out) /\ out[k] \in EntryType  OBVIOUS
  <2>2. ends[k - 1] \in Int  BY <1>1, <2>1 DEF CodedWith, Ends
  <2>3. RightEntry(c, Moved(out[k], ends[k - 1]))  BY <1>1 DEF CodedWith
  <2> DEFINE m == Moved(out[k], ends[k - 1])
  <2>4. m \in EntryType  BY <2>1, <2>2, MovedTyped
  <2>5. RightEntry(c, m)  BY <2>3
  <2> HIDE DEF m
  <2>6. RightEntry(d, m)  BY <1>2, <2>4, <2>5, StillRight
  <2> QED  BY <2>6 DEF m
<1>4. CodedWith(d, out, end, ends)  BY <1>1, <1>3, Zenon DEF CodedWith
<1> QED  BY <1>4 DEF Coded

(* One more entry. *)
LEMMA CodedAppend ==
    ASSUME NEW c, NEW out \in Seq(EntryType), NEW end, Coded(c, out, end), NEW e \in EntryType, RightEntry(c, Moved(e, end)),
           NEW next \in Int, next = e.endChunk + (e.startChunk + end)
    PROVE  Coded(c, Append(out, e), next)
<1> DEFINE n == Len(out)
           q == Append(out, e)
<1>1. PICK old : CodedWith(c, out, end, old)  BY DEF Coded
<1>2. /\ n \in Nat /\ Len(q) = n + 1 /\ q[n + 1] = e /\ \A k \in 1 .. n : q[k] = out[k]
  OBVIOUS
<1>3. /\ old \in [0 .. n -> Int] /\ old[0] = 0 /\ old[n] = end
      /\ \A k \in 1 .. n : old[k] = out[k].endChunk + (out[k].startChunk + old[k - 1])
      /\ \A k \in 1 .. n : RightEntry(c, Moved(out[k], old[k - 1]))
  BY <1>1 DEF CodedWith, Ends
<1> HIDE DEF q, n
<1> DEFINE ends == [k \in 0 .. n + 1 |-> IF k = n + 1 THEN next ELSE old[k]]
<1>4. ends \in [0 .. n + 1 -> Int] /\ ends[n + 1] = next /\ \A k \in 0 .. n : ends[k] = old[k]  BY <1>2, <1>3
<1> HIDE DEF ends
<1>5. ends[0] = 0 /\ ends[n] = end  BY <1>2, <1>3, <1>4
<1>6. ASSUME NEW k \in 1 .. n + 1
      PROVE  ends[k] = q[k].endChunk + (q[k].startChunk + ends[k - 1]) /\ RightEntry(c, Moved(q[k], ends[k - 1]))
  <2>1. CASE k = n + 1
    <3>1. k - 1 = n  BY <1>2, <2>1
    <3>2. ends[k - 1] = end /\ q[k] = e /\ ends[k] = next  BY <1>2, <1>4, <1>5, <2>1, <3>1
    <3> QED  BY <3>2, Zenon
  <2>2. CASE k # n + 1
    <3>1. k \in 1 .. n /\ k \in 0 .. n /\ k - 1 \in 0 .. n  BY <1>2, <2>2
    <3>2. ends[k - 1] = old[k - 1] /\ q[k] = out[k] /\ ends[k] = old[k]  BY <1>2, <1>4, <3>1
    <3> QED  BY <1>3, <3>1, <3>2
  <2> QED  BY <2>1, <2>2
<1>7. Ends(q, ends)  BY <1>2, <1>4, <1>5, <1>6 DEF Ends
<1>8. CodedWith(c, q, next, ends)  BY <1>2, <1>4, <1>6, <1>7 DEF CodedWith
<1>9. Coded(c, q, next)  BY <1>8 DEF Coded
<1> QED  BY <1>9 DEF q

(* What ListRemoteFiles reads from entries coded as UploadSnapshot codes them is right. *)
THEOREM CodedRead ==
    ASSUME NEW c, NEW out \in Seq(EntryType), NEW end, Coded(c, out, end)
    PROVE  /\ ListRemoteFiles(out) \in Seq(EntryType)
           /\ \A k \in DOMAIN ListRemoteFiles(out) : RightEntry(c, ListRemoteFiles(out)[k])
<1>1. PICK ends : CodedWith(c, out, end, ends)  BY DEF Coded
<1>2. /\ ends[0] = 0 /\ \A k \in 1 .. Len(out) : ends[k] = out[k].endChunk + (out[k].startChunk + ends[k - 1])
      /\ \A k \in 1 .. Len(out) : RightEntry(c, Moved(out[k], ends[k - 1]))
  BY <1>1 DEF CodedWith, Ends
<1>3. /\ ListRemoteFiles(out) \in Seq(EntryType) /\ Len(ListRemoteFiles(out)) = Len(out)
      /\ \A k \in 1 .. Len(out) : ListRemoteFiles(out)[k] = Moved(out[k], ends[k - 1])
  BY <1>2, Decoded
<1>4. DOMAIN ListRemoteFiles(out) = 1 .. Len(out)  BY <1>3
<1> QED  BY <1>2, <1>3, <1>4

RootType == [entry : EntryType, start : Int]

\* The entry of a root, with its chunks where they are.
RootAt(root) == [root.entry EXCEPT !.startChunk = root.start, !.endChunk = root.entry.endChunk + root.start]

CodeType(S) == [chunks : Seq(S), last : Int, end : Int, out : Seq(EntryType), roots : Seq(RootType), panic : BOOLEAN]

\* The states of the encoding.
Coding(S, chunks) ==
    {st \in CodeType(S) :
        /\ Coded(st.chunks, st.out, st.end) /\ Follows(chunks, st.chunks, st.last)
        /\ \A r \in DOMAIN st.roots : RightEntry(st.chunks, RootAt(st.roots[r]))}

(* An entry without content is right wherever it leads; so is one that leads where a right one does. *)
LEMMA SameEntry ==
    ASSUME NEW c \in Seq(Data), NEW d \in Seq(Data), NEW e \in EntryType, RightEntry(c, e), NEW f,
           f.size = e.size, f.hash = e.hash, f.startOffset = e.startOffset, f.endOffset = e.endOffset,
           e.size > 0 => c = d /\ f.startChunk = e.startChunk /\ f.endChunk = e.endChunk
    PROVE  RightEntry(d, f)
<1>1. /\ Len(c) \in Nat /\ Len(d) \in Nat /\ \A i \in 1 .. Len(c) : c[i] \in Data
      /\ e.size \in Int /\ e.startChunk \in Int /\ e.endChunk \in Int /\ 0 \in Int
  BY DEF EntryType
<1>2. e.size > 0 => 0 <= e.startChunk /\ e.startChunk <= e.endChunk /\ e.endChunk < Len(c)
  BY Zenon DEF RightEntry, checkEntry
<1>3. e.size > 0 => /\ f.startChunk = e.startChunk + 0 /\ f.endChunk = e.endChunk + 0
                    /\ 0 <= f.startChunk /\ f.endChunk < Len(d)
                    /\ \A i \in e.startChunk + 1 .. e.endChunk + 1 : d[i + 0] = c[i]
  BY <1>1, <1>2
<1> QED  BY <1>1, <1>3, RightMoves

(* A root's entry with its place. *)
LEMMA RootAtTyped ==
    ASSUME NEW root \in RootType
    PROVE  LET m == RootAt(root)
               e == root.entry
           IN  /\ m \in EntryType /\ m.startChunk = root.start /\ m.endChunk = e.endChunk + root.start
               /\ m.size = e.size /\ m.hash = e.hash /\ m.startOffset = e.startOffset /\ m.endOffset = e.endOffset
<1> DEFINE e == root.entry
           x == root.start
           y == e.endChunk + x
           m == [e EXCEPT !.startChunk = x, !.endChunk = y]
<1>1. e \in EntryType /\ x \in Int  BY DEF RootType
<1>2. y \in Int  BY <1>1 DEF EntryType
<1>3. RootAt(root) = m  BY Zenon DEF RootAt
<1>4. x = root.start /\ y = root.entry.endChunk + root.start /\ e = root.entry  OBVIOUS
<1> HIDE DEF x, y, e
<1>5. /\ m \in EntryType /\ m.startChunk = x /\ m.endChunk = y
      /\ m.size = e.size /\ m.hash = e.hash /\ m.startOffset = e.startOffset /\ m.endOffset = e.endOffset
  BY <1>1, <1>2 DEF EntryType
<1> HIDE DEF m
<1> QED  BY <1>3, <1>4, <1>5

(* An entry with content is put in. *)
LEMMA CodeFile ==
    ASSUME NEW S \in SUBSET Data, NEW chunks \in Seq(S), NEW st \in Coding(S, chunks), ~st.panic,
           NEW e \in EntryType, RightEntry(chunks, e), e.size > 0
    PROVE  uploadEntryInfo(chunks, st, e) \in Coding(S, chunks)
<1> DEFINE s == e.startChunk
           t == e.endChunk
           acc == st.chunks
           shared == s = st.last
           used == SubSeq(chunks, s + (IF shared THEN 2 ELSE 1), t + 1)
           start == Len(acc) - (IF shared THEN 1 ELSE 0)
           end == start + t - s
           coded == [e EXCEPT !.startChunk = start - st.end, !.endChunk = end - start]
           root == [entry |-> coded, start |-> start]
           roots == IF e.link = Root THEN Append(st.roots, root) ELSE st.roots
           d == acc \o used
           r == [st EXCEPT !.chunks = d, !.last = t, !.end = end, !.out = Append(st.out, coded), !.roots = roots]
           one == IF s = st.last THEN 1 ELSE 0
<1>1. uploadEntryInfo(chunks, st, e) = r
  <2>1. ~(e.size <= 0)  BY DEF EntryType
  <2> QED  BY <2>1, Zenon DEF uploadEntryInfo
<1>2. /\ st \in CodeType(S) /\ acc \in Seq(S) /\ st.out \in Seq(EntryType) /\ st.roots \in Seq(RootType)
      /\ st.end \in Int /\ st.last \in Int
      /\ Coded(acc, st.out, st.end) /\ Follows(chunks, acc, st.last)
      /\ \A i \in DOMAIN st.roots : RightEntry(acc, RootAt(st.roots[i]))
  BY DEF Coding, CodeType
<1>3. s \in Nat /\ t \in Nat /\ s <= t /\ t < Len(chunks)
  <2>1. 0 <= s /\ s <= t /\ t < Len(chunks)  BY Zenon DEF RightEntry, checkEntry
  <2>2. s \in Int /\ t \in Int  BY DEF EntryType
  <2> QED  BY <2>1, <2>2
<1>4. s + (IF shared THEN 2 ELSE 1) = s + 1 + one /\ (IF shared THEN 1 ELSE 0) = one  BY <1>3
<1>5. one = IF s = st.last THEN 1 ELSE 0  OBVIOUS
<1> HIDE DEF one
<1>6. start = Len(acc) - one /\ d = acc \o SubSeq(chunks, s + 1 + one, t + 1)
  <2> HIDE DEF s, t, acc, shared
  <2> QED  BY <1>4, Zenon
<1>7. Took(S, chunks, acc, d, s, t, start)
  <2>1. Takes(S, chunks, acc, s, t, st.last, one)
    <3> HIDE DEF s, t, acc
    <3> QED  BY <1>2, <1>3, <1>5 DEF Takes, s
  <2> HIDE DEF d, start, s, t, acc
  <2> QED  BY <1>6, <2>1, TakeOver
<1> HIDE DEF d, start, acc
<1>8. Extends(S, acc, d) /\ start \in Nat /\ Follows(chunks, d, t) /\ d \in Seq(S)
  <2> HIDE DEF s, t
  <2> QED  BY <1>7 DEF Took, Extends
<1>9. end \in Int /\ start - st.end \in Int /\ end - start = t - s /\ end - start \in Int
      /\ (start - st.end) + st.end = start
  <2> DEFINE x == st.end
  <2>1. x \in Int /\ start \in Nat /\ s \in Nat /\ t \in Nat  BY <1>2, <1>3, <1>8
  <2>2. end = start + t - s  OBVIOUS
  <2> HIDE DEF s, t, end, x
  <2>3. end \in Int /\ start - x \in Int /\ end - start = t - s /\ end - start \in Int /\ (start - x) + x = start
    BY <2>1, <2>2
  <2> QED  BY <2>3 DEF x
<1>10. /\ coded \in EntryType /\ coded.startChunk = start - st.end /\ coded.endChunk = end - start
       /\ coded.size = e.size /\ coded.hash = e.hash
       /\ coded.startOffset = e.startOffset /\ coded.endOffset = e.endOffset
  <2> DEFINE x == start - st.end
             y == end - start
  <2>1. x \in Int /\ y \in Int  BY <1>9
  <2> HIDE DEF x, y
  <2> DEFINE k == [e EXCEPT !.startChunk = x, !.endChunk = y]
  <2>2. /\ k \in EntryType /\ k.startChunk = x /\ k.endChunk = y /\ k.size = e.size /\ k.hash = e.hash
        /\ k.startOffset = e.startOffset /\ k.endOffset = e.endOffset
    BY <2>1 DEF EntryType
  <2>3. k = coded  BY Zenon DEF x, y
  <2> HIDE DEF k
  <2> QED  BY <2>2, <2>3 DEF x, y
<1> HIDE DEF coded, end
<1>11. RightEntry(d, Moved(coded, st.end))
  <2> DEFINE m == Moved(coded, st.end)
  <2>1. /\ m.startChunk = coded.startChunk + st.end /\ m.endChunk = coded.endChunk + (coded.startChunk + st.end)
        /\ m.size = coded.size /\ m.hash = coded.hash /\ m.startOffset = coded.startOffset
        /\ m.endOffset = coded.endOffset
    BY <1>2, <1>10, MovedTyped
  <2> HIDE DEF m
  <2>2. m.startChunk = start /\ m.endChunk = start + (t - s)  BY <1>3, <1>8, <1>9, <1>10, <2>1
  <2>3. Relocated(e, m, start)  BY <1>10, <2>1, <2>2 DEF Relocated
  <2>4. Placed(d, m)  BY <1>7, <2>3, TakenRight
  <2> QED  BY <2>4 DEF Placed, m
<1>12. root \in RootType /\ RightEntry(d, RootAt(root))
  <2>1. root \in RootType /\ root.entry = coded /\ root.start = start  BY <1>8, <1>10 DEF RootType
  <2> HIDE DEF root
  <2> DEFINE m == RootAt(root)
  <2>2. /\ m.startChunk = start /\ m.endChunk = coded.endChunk + start /\ m.size = coded.size
        /\ m.hash = coded.hash /\ m.startOffset = coded.startOffset /\ m.endOffset = coded.endOffset
    BY <2>1, RootAtTyped
  <2> HIDE DEF m
  <2>3. m.endChunk = start + (t - s)  BY <1>3, <1>8, <1>9, <1>10, <2>2
  <2>4. Relocated(e, m, start)  BY <1>10, <2>2, <2>3 DEF Relocated
  <2>5. Placed(d, m)  BY <1>7, <2>4, TakenRight
  <2> QED  BY <2>1, <2>5 DEF Placed, m
<1> HIDE DEF root
<1>13. Coded(d, Append(st.out, coded), end)
  <2>1. Coded(d, st.out, st.end)  BY <1>2, <1>8, CodedExtends
  <2>2. end = coded.endChunk + (coded.startChunk + st.end)  BY <1>2, <1>3, <1>8, <1>9, <1>10 DEF end
  <2> QED  BY <1>2, <1>9, <1>10, <1>11, <2>1, <2>2, CodedAppend
<1>14. ASSUME NEW i \in DOMAIN st.roots PROVE RightEntry(d, RootAt(st.roots[i]))
  <2> DEFINE m == RootAt(st.roots[i])
  <2>1. RightEntry(acc, m) /\ st.roots[i] \in RootType  BY <1>2
  <2>2. m \in EntryType  BY <2>1, RootAtTyped
  <2> HIDE DEF m
  <2>3. acc \in Seq(Data) /\ d \in Seq(Data)
    <3> HIDE DEF Data
    <3> QED  BY <1>2, <1>8
  <2>4. Len(acc) <= Len(d) /\ \A j \in 1 .. Len(acc) : d[j] = acc[j]  BY <1>8 DEF Extends
  <2>5. RightEntry(d, m)  BY <2>1, <2>2, <2>3, <2>4, StillRight
  <2> QED  BY <2>5 DEF m
<1>15. roots \in Seq(RootType) /\ \A i \in DOMAIN roots : RightEntry(d, RootAt(roots[i]))
  <2>1. CASE e.link = Root
    <3> DEFINE q == Append(st.roots, root)
    <3>1. roots = q  BY <2>1
    <3>2. q \in Seq(RootType) /\ DOMAIN q = 1 .. Len(st.roots) + 1 /\ DOMAIN st.roots = 1 .. Len(st.roots)
          /\ Len(st.roots) \in Nat /\ q[Len(st.roots) + 1] = root /\ \A i \in 1 .. Len(st.roots) : q[i] = st.roots[i]
      BY <1>2, <1>12
    <3> HIDE DEF q, roots
    <3>3. ASSUME NEW i \in DOMAIN q PROVE RightEntry(d, RootAt(q[i]))
      <4>1. CASE i = Len(st.roots) + 1  BY <1>12, <3>2, <4>1
      <4>2. CASE i # Len(st.roots) + 1
        <5>1. i \in DOMAIN st.roots /\ q[i] = st.roots[i]  BY <3>2, <4>2
        <5> QED  BY <1>14, <5>1
      <4> QED  BY <4>1, <4>2
    <3> QED  BY <3>1, <3>2, <3>3
  <2>2. CASE e.link # Root
    <3>1. roots = st.roots  BY <2>2
    <3> HIDE DEF roots
    <3> QED  BY <1>2, <1>14, <3>1
  <2> QED  BY <2>1, <2>2
<1> HIDE DEF roots
<1>16. /\ r \in CodeType(S) /\ r.chunks = d /\ r.out = Append(st.out, coded) /\ r.end = end /\ r.last = t
       /\ r.roots = roots
  <2>1. Append(st.out, coded) \in Seq(EntryType) /\ t \in Int  BY <1>2, <1>3, <1>10
  <2> DEFINE q == Append(st.out, coded)
  <2> HIDE DEF q, t
  <2>2. q \in Seq(EntryType) /\ t \in Int  BY <2>1 DEF q
  <2> DEFINE u == [st EXCEPT !.chunks = d, !.last = t, !.end = end, !.out = q, !.roots = roots]
  <2>3. /\ u \in CodeType(S) /\ u.chunks = d /\ u.out = q /\ u.end = end /\ u.last = t /\ u.roots = roots
    BY <1>2, <1>8, <1>9, <1>15, <2>2 DEF CodeType
  <2>4. u = r  BY Zenon DEF q
  <2> HIDE DEF u, r
  <2> QED  BY <2>3, <2>4 DEF q
<1> HIDE DEF r
<1>17. r \in Coding(S, chunks)  BY <1>8, <1>13, <1>15, <1>16 DEF Coding
<1> QED  BY <1>1, <1>17

(* An entry without content is put in as it is, or as a hard link. *)
LEMMA PutIn ==
    ASSUME NEW S \in SUBSET Data, NEW chunks, NEW st \in Coding(S, chunks), NEW f \in EntryType,
           RightEntry(st.chunks, Moved(f, st.end)), NEW end \in Int, end = f.endChunk + (f.startChunk + st.end)
    PROVE  [st EXCEPT !.out = Append(@, f), !.end = end] \in Coding(S, chunks)
<1> DEFINE q == Append(st.out, f)
           r == [st EXCEPT !.out = q, !.end = end]
<1>1. /\ st \in CodeType(S) /\ st.out \in Seq(EntryType) /\ Coded(st.chunks, st.out, st.end)
      /\ Follows(chunks, st.chunks, st.last)
      /\ \A i \in DOMAIN st.roots : RightEntry(st.chunks, RootAt(st.roots[i]))
  BY DEF Coding, CodeType
<1>2. q \in Seq(EntryType) /\ Coded(st.chunks, q, end)  BY <1>1, CodedAppend
<1>3. r = [st EXCEPT !.out = Append(@, f), !.end = end]  BY Zenon
<1> HIDE DEF q
<1>4. /\ r \in CodeType(S) /\ r.chunks = st.chunks /\ r.out = q /\ r.end = end /\ r.last = st.last /\ r.roots = st.roots
  BY <1>1, <1>2 DEF CodeType
<1> HIDE DEF r
<1>5. r \in Coding(S, chunks)  BY <1>1, <1>2, <1>4 DEF Coding
<1> QED  BY <1>3, <1>5, Zenon

(* A hard link repeats the entry of its root. *)
LEMMA CodeLink ==
    ASSUME NEW S \in SUBSET Data, NEW chunks, NEW st \in Coding(S, chunks), ~st.panic,
           NEW e \in EntryType, e.size <= 0, e.link >= 0
    PROVE  uploadEntryInfo(chunks, st, e) \in Coding(S, chunks)
<1> DEFINE n == Len(st.roots)
           root == st.roots[e.link + 1]
           g == root.entry
           start == IF g.size > 0 THEN root.start - st.end ELSE 0
           last == IF g.size > 0 THEN g.endChunk ELSE 0
           f == [g EXCEPT !.path = e.path, !.link = e.link, !.startChunk = start, !.endChunk = last]
           end == EndAfterLink(st, root)
           p == [st EXCEPT !.panic = TRUE]
           r == [st EXCEPT !.out = Append(@, f), !.end = end]
<1>1. uploadEntryInfo(chunks, st, e) = IF e.link >= n THEN p ELSE r
  <2>1. ~(e.size > 0)  BY DEF EntryType
  <2> QED  BY <2>1, Zenon DEF uploadEntryInfo
<1>2. /\ st \in CodeType(S) /\ st.chunks \in Seq(S) /\ st.out \in Seq(EntryType) /\ st.roots \in Seq(RootType)
      /\ st.end \in Int /\ n \in Nat
      /\ Coded(st.chunks, st.out, st.end) /\ Follows(chunks, st.chunks, st.last)
      /\ \A i \in DOMAIN st.roots : RightEntry(st.chunks, RootAt(st.roots[i]))
  BY DEF Coding, CodeType
<1>3. CASE e.link >= n
  <2>1. uploadEntryInfo(chunks, st, e) = p  BY <1>1, <1>3, Zenon
  <2>2. p \in CodeType(S) /\ p.chunks = st.chunks /\ p.out = st.out /\ p.end = st.end /\ p.last = st.last
        /\ p.roots = st.roots
    BY <1>2 DEF CodeType
  <2> HIDE DEF p
  <2> QED  BY <1>2, <2>1, <2>2 DEF Coding
<1>4. CASE ~(e.link >= n)
  <2>1. uploadEntryInfo(chunks, st, e) = r  BY <1>1, <1>4, Zenon
  <2>2. e.link + 1 \in 1 .. n /\ e.link \in Int /\ e.path \in Paths  BY <1>2, <1>4, SMTT(60) DEF EntryType
  <2>3. root \in RootType /\ RightEntry(st.chunks, RootAt(root))
    <3> DEFINE k == e.link + 1
    <3>1. k \in 1 .. n /\ k \in DOMAIN st.roots  BY <1>2, <2>2
    <3> HIDE DEF k
    <3>2. st.roots[k] \in RootType /\ RightEntry(st.chunks, RootAt(st.roots[k]))  BY <1>2, <3>1
    <3> QED  BY <3>2 DEF k
  <2> HIDE DEF root
  <2>4. g \in EntryType /\ root.start \in Int /\ g.size \in Int /\ g.endChunk \in Int  BY <2>3 DEF RootType, EntryType
  <2> HIDE DEF g
  <2>5. start \in Int /\ last \in Int  BY <1>2, <2>4
  <2>6. g.size > 0 => start = root.start - st.end /\ last = g.endChunk  OBVIOUS
  <2>7. ~(g.size > 0) => start = 0 /\ last = 0  OBVIOUS
  <2> HIDE DEF start, last
  <2>8. /\ f \in EntryType /\ f.size = g.size /\ f.hash = g.hash /\ f.startOffset = g.startOffset
        /\ f.endOffset = g.endOffset /\ f.startChunk = start /\ f.endChunk = last
    BY <2>2, <2>4, <2>5 DEF EntryType
  <2> HIDE DEF f
  <2>9. end \in Int /\ end = f.endChunk + (f.startChunk + st.end)
    <3>1. CASE g.size > 0
      <4>1. end = root.start + g.endChunk  BY <3>1, Zenon DEF EndAfterLink, g
      <4> HIDE DEF end
      <4>2. f.endChunk = g.endChunk /\ f.startChunk = root.start - st.end  BY <2>6, <2>8, <3>1
      <4> QED  BY <1>2, <2>4, <4>1, <4>2
    <3>2. CASE ~(g.size > 0)
      <4>1. end = st.end  BY <3>2, Zenon DEF EndAfterLink, g
      <4> HIDE DEF end
      <4>2. f.endChunk = 0 /\ f.startChunk = 0  BY <2>7, <2>8, <3>2
      <4> QED  BY <1>2, <4>1, <4>2
    <3> QED  BY <3>1, <3>2
  <2> HIDE DEF end
  <2>10. RightEntry(st.chunks, Moved(f, st.end))
    <3> DEFINE m == Moved(f, st.end)
               w == RootAt(root)
    <3>1. /\ m.startChunk = f.startChunk + st.end /\ m.endChunk = f.endChunk + (f.startChunk + st.end)
          /\ m.size = f.size /\ m.hash = f.hash /\ m.startOffset = f.startOffset /\ m.endOffset = f.endOffset
      BY <1>2, <2>8, MovedTyped
    <3>2. /\ w \in EntryType /\ w.startChunk = root.start /\ w.endChunk = g.endChunk + root.start
          /\ w.size = g.size /\ w.hash = g.hash /\ w.startOffset = g.startOffset /\ w.endOffset = g.endOffset
      BY <2>3, RootAtTyped DEF g
    <3>3. RightEntry(st.chunks, w)  BY <2>3
    <3> HIDE DEF m, w
    <3>4. w.size > 0 => m.startChunk = w.startChunk /\ m.endChunk = w.endChunk
      <4>1. ASSUME w.size > 0 PROVE m.startChunk = w.startChunk /\ m.endChunk = w.endChunk
        <5>1. f.startChunk = root.start - st.end /\ f.endChunk = g.endChunk  BY <2>6, <2>8, <3>2, <4>1
        <5> QED  BY <1>2, <2>4, <3>1, <3>2, <5>1
      <4> QED  BY <4>1
    <3>5. m.size = w.size /\ m.hash = w.hash /\ m.startOffset = w.startOffset /\ m.endOffset = w.endOffset
      BY <2>8, <3>1, <3>2, Zenon
    <3>6. st.chunks \in Seq(Data)
      <4> HIDE DEF Data
      <4> QED  BY <1>2
    <3>7. RightEntry(st.chunks, m)  BY <3>2, <3>3, <3>4, <3>5, <3>6, SameEntry
    <3> QED  BY <3>7 DEF m
  <2>11. r \in Coding(S, chunks)  BY <2>8, <2>9, <2>10, PutIn
  <2> QED  BY <2>1, <2>11, Zenon
<1> QED  BY <1>3, <1>4

(* Any other entry is put in as it is. *)
LEMMA CodeOther ==
    ASSUME NEW S \in SUBSET Data, NEW chunks \in Seq(S), NEW st \in Coding(S, chunks), ~st.panic,
           NEW e \in EntryType, Placed(chunks, e), e.size <= 0, ~(e.link >= 0)
    PROVE  uploadEntryInfo(chunks, st, e) \in Coding(S, chunks)
<1> DEFINE root == [entry |-> e, start |-> 0]
           roots == IF e.link = Root THEN Append(st.roots, root) ELSE st.roots
           q == Append(st.out, e)
           o == [st EXCEPT !.out = Append(@, e), !.end = st.end]
           r == [st EXCEPT !.out = q, !.roots = roots]
<1>1. uploadEntryInfo(chunks, st, e) = r
  <2>1. ~(e.size > 0)  BY DEF EntryType
  <2> QED  BY <2>1, Zenon DEF uploadEntryInfo
<1>2. /\ st \in CodeType(S) /\ st.chunks \in Seq(S) /\ st.out \in Seq(EntryType) /\ st.roots \in Seq(RootType)
      /\ st.end \in Int
      /\ \A i \in DOMAIN st.roots : RightEntry(st.chunks, RootAt(st.roots[i]))
  BY DEF Coding, CodeType
<1>3. chunks \in Seq(Data) /\ st.chunks \in Seq(Data)
  <2> HIDE DEF Data
  <2> QED  BY <1>2
<1>4. /\ RightEntry(chunks, e) /\ e.startChunk = 0 /\ e.endChunk = 0 /\ e.size \in Int /\ ~(e.size > 0)
  <2>1. e.size \in Int  BY DEF EntryType
  <2> QED  BY <2>1 DEF Placed
<1>5. RightEntry(st.chunks, Moved(e, st.end))
  <2> DEFINE m == Moved(e, st.end)
  <2>1. m.size = e.size /\ m.hash = e.hash /\ m.startOffset = e.startOffset /\ m.endOffset = e.endOffset
    BY <1>2, MovedTyped
  <2> HIDE DEF m
  <2>2. RightEntry(st.chunks, m)  BY <1>3, <1>4, <2>1, SameEntry
  <2> QED  BY <2>2 DEF m
<1>6. root \in RootType /\ RightEntry(st.chunks, RootAt(root))
  <2>1. root \in RootType /\ root.entry = e  BY DEF RootType
  <2> HIDE DEF root
  <2> DEFINE m == RootAt(root)
  <2>2. m.size = e.size /\ m.hash = e.hash /\ m.startOffset = e.startOffset /\ m.endOffset = e.endOffset
    BY <2>1, RootAtTyped
  <2> HIDE DEF m
  <2>3. RightEntry(st.chunks, m)  BY <1>3, <1>4, <2>2, SameEntry
  <2> QED  BY <2>1, <2>3 DEF m
<1> HIDE DEF root
<1>7. o \in Coding(S, chunks)
  <2>1. st.end = e.endChunk + (e.startChunk + st.end)  BY <1>2, <1>4
  <2> QED  BY <1>2, <1>5, <2>1, PutIn
<1>8. roots \in Seq(RootType) /\ \A i \in DOMAIN roots : RightEntry(st.chunks, RootAt(roots[i]))
  <2>1. CASE e.link = Root
    <3> DEFINE w == Append(st.roots, root)
    <3>1. roots = w  BY <2>1
    <3>2. w \in Seq(RootType) /\ DOMAIN w = 1 .. Len(st.roots) + 1 /\ DOMAIN st.roots = 1 .. Len(st.roots)
          /\ Len(st.roots) \in Nat /\ w[Len(st.roots) + 1] = root /\ \A i \in 1 .. Len(st.roots) : w[i] = st.roots[i]
      BY <1>2, <1>6
    <3> HIDE DEF w, roots
    <3>3. ASSUME NEW i \in DOMAIN w PROVE RightEntry(st.chunks, RootAt(w[i]))
      <4>1. CASE i = Len(st.roots) + 1  BY <1>6, <3>2, <4>1
      <4>2. CASE i # Len(st.roots) + 1
        <5>1. i \in DOMAIN st.roots /\ w[i] = st.roots[i]  BY <3>2, <4>2
        <5> QED  BY <1>2, <5>1
      <4> QED  BY <4>1, <4>2
    <3> QED  BY <3>1, <3>2, <3>3
  <2>2. CASE e.link # Root
    <3>1. roots = st.roots  BY <2>2
    <3> HIDE DEF roots
    <3> QED  BY <1>2, <3>1
  <2> QED  BY <2>1, <2>2
<1> HIDE DEF roots
<1>9. /\ o.out = q /\ o.end = st.end /\ o.chunks = st.chunks /\ o.last = st.last  BY <1>2 DEF CodeType
<1>10. q \in Seq(EntryType)  BY <1>2
<1> HIDE DEF q
<1>11. /\ r \in CodeType(S) /\ r.chunks = st.chunks /\ r.out = q /\ r.end = st.end /\ r.last = st.last /\ r.roots = roots
  BY <1>2, <1>8, <1>10 DEF CodeType
<1> HIDE DEF r, o
<1>12. Coded(st.chunks, q, st.end) /\ Follows(chunks, st.chunks, st.last)  BY <1>7, <1>9 DEF Coding
<1>13. r \in Coding(S, chunks)  BY <1>8, <1>11, <1>12 DEF Coding
<1> QED  BY <1>1, <1>13

(* One more entry is put in. *)
LEMMA CodeStep ==
    ASSUME NEW S \in SUBSET Data, NEW chunks \in Seq(S), NEW st \in Coding(S, chunks), NEW e \in EntryType, Placed(chunks, e)
    PROVE  uploadEntryInfo(chunks, st, e) \in Coding(S, chunks)
<1>1. e.size \in Int /\ st.panic \in BOOLEAN  BY DEF EntryType, Coding, CodeType
<1>2. CASE st.panic
  <2>1. uploadEntryInfo(chunks, st, e) = st  BY <1>2, Zenon DEF uploadEntryInfo
  <2> QED  BY <2>1
<1>3. CASE ~st.panic /\ e.size > 0  BY <1>3, CodeFile DEF Placed
<1>4. CASE ~st.panic /\ ~(e.size > 0)
  <2>1. e.size <= 0  BY <1>1, <1>4
  <2>2. CASE e.link >= 0  BY <1>4, <2>1, <2>2, CodeLink
  <2>3. CASE ~(e.link >= 0)  BY <1>4, <2>1, <2>3, CodeOther
  <2> QED  BY <2>2, <2>3
<1> QED  BY <1>1, <1>2, <1>3, <1>4

(* The states of the encoding come one from the other. *)
LEMMA EncodeSteps ==
    ASSUME NEW S \in SUBSET Data, NEW chunks \in Seq(S), NEW sent \in Seq(EntryType),
           \A i \in DOMAIN sent : Placed(chunks, sent[i])
    PROVE  /\ EncodeStates(chunks, sent) \in [0 .. Len(sent) -> Coding(S, chunks)]
           /\ EncodeStates(chunks, sent)[0] = [chunks |-> <<>>, last |-> -1, end |-> 0, out |-> <<>>, roots |-> <<>>, panic |-> FALSE]
           /\ \A k \in 1 .. Len(sent) :
                 EncodeStates(chunks, sent)[k] = uploadEntryInfo(chunks, EncodeStates(chunks, sent)[k - 1], sent[k])
<1> DEFINE n == Len(sent)
           b == [chunks |-> <<>>, last |-> -1, end |-> 0, out |-> <<>>, roots |-> <<>>, panic |-> FALSE]
           T == Coding(S, chunks)
           F == [p \in (1 .. n) \X T |-> uploadEntryInfo(chunks, p[2], sent[p[1]])]
           Is(st) == st = [k \in 0 .. n |-> IF k = 0 THEN b ELSE uploadEntryInfo(chunks, st[k - 1], sent[k])]
<1>1. n \in Nat /\ \A k \in 1 .. n : sent[k] \in EntryType /\ Placed(chunks, sent[k])  OBVIOUS
<1>2. b \in T
  <2>1. /\ b \in CodeType(S) /\ b.chunks = <<>> /\ b.out = <<>> /\ b.end = 0 /\ b.last = -1 /\ b.roots = <<>>
    BY DEF CodeType
  <2> HIDE DEF b
  <2>2. Coded(b.chunks, b.out, b.end)
    <3> DEFINE ends == [k \in 0 .. 0 |-> 0]
    <3>1. ends \in [0 .. Len(b.out) -> Int] /\ ends[0] = 0 /\ Len(b.out) = 0  BY <2>1
    <3> HIDE DEF ends
    <3>2. CodedWith(b.chunks, b.out, b.end, ends)  BY <2>1, <3>1 DEF CodedWith, Ends
    <3> QED  BY <3>2 DEF Coded
  <2>3. Follows(chunks, b.chunks, b.last)  BY <2>1 DEF Follows
  <2>4. DOMAIN b.roots = {}  BY <2>1
  <2> QED  BY <2>1, <2>2, <2>3, <2>4 DEF Coding
<1>3. \A k \in 1 .. n : \A x \in T : uploadEntryInfo(chunks, x, sent[k]) \in T  BY <1>1, CodeStep
<1> HIDE DEF T, b, n
<1>4. StepFunction(F, n, T)
  <2>1. \A p \in (1 .. n) \X T : uploadEntryInfo(chunks, p[2], sent[p[1]]) \in T  BY <1>3
  <2>2. F \in [(1 .. n) \X T -> T]  BY <2>1
  <2> QED  BY <2>2, Zenon DEF StepFunction
<1>5. \A k \in 1 .. n : \A x \in T : F[<<k, x>>] = uploadEntryInfo(chunks, x, sent[k])  OBVIOUS
<1> HIDE DEF F
<1>6. PICK a : Computed(a, n, T, b, F)  BY <1>1, <1>2, <1>4, RecursionExists
<1>7. a \in [0 .. n -> T] /\ a[0] = b /\ \A k \in 1 .. n : a[k] = F[<<k, a[k - 1]>>]
  BY <1>6, Zenon DEF Computed
<1>8. Is(a)
  <2>1. ASSUME NEW k \in 0 .. n PROVE a[k] = IF k = 0 THEN b ELSE uploadEntryInfo(chunks, a[k - 1], sent[k])
    <3>1. CASE k = 0  BY <1>7, <3>1
    <3>2. CASE k # 0
      <4>1. k \in 1 .. n /\ k - 1 \in 0 .. n  BY <1>1, <3>2
      <4>2. a[k - 1] \in T /\ a[k] = F[<<k, a[k - 1]>>]  BY <1>7, <4>1
      <4>3. F[<<k, a[k - 1]>>] = uploadEntryInfo(chunks, a[k - 1], sent[k])  BY <1>5, <4>1, <4>2
      <4> QED  BY <3>2, <4>2, <4>3
    <3> QED  BY <3>1, <3>2
  <2>2. a = [k \in 0 .. n |-> a[k]]  BY <1>7
  <2> QED  BY <2>1, <2>2, Zenon
<1> DEFINE c == CHOOSE st : Is(st)
<1>9. Is(c)  BY <1>8, Zenon
<1>10. EncodeStates(chunks, sent) = c  BY Zenon DEF EncodeStates, n, b
<1> HIDE DEF c
<1>11. DOMAIN c = 0 .. n /\ c = [k \in 0 .. n |-> c[k]]  BY <1>9
<1>12. \A k \in 0 .. n : c[k] = IF k = 0 THEN b ELSE uploadEntryInfo(chunks, c[k - 1], sent[k])  BY <1>9, Zenon
<1>13. c[0] = b  BY <1>1, <1>12
<1>14. ASSUME NEW k \in 1 .. n PROVE c[k] = uploadEntryInfo(chunks, c[k - 1], sent[k])
  <2>1. k \in 0 .. n /\ k # 0  BY <1>1
  <2> QED  BY <1>12, <2>1, Zenon
<1> DEFINE G == {k \in 0 .. n : c[k] \in T}
<1>15. 0 \in G  BY <1>1, <1>2, <1>13
<1>16. ASSUME NEW k \in 1 .. n, k - 1 \in G PROVE k \in G
  <2>1. k \in 0 .. n /\ c[k - 1] \in T  BY <1>1, <1>16
  <2>2. c[k] \in T  BY <1>3, <1>14, <2>1
  <2> QED  BY <2>1, <2>2
<1> HIDE DEF G
<1>17. \A k \in 0 .. n : k \in G  BY <1>1, <1>15, <1>16, UpTo
<1>18. c \in [0 .. n -> T]
  <2>1. \A k \in 0 .. n : c[k] \in T  BY <1>17 DEF G
  <2> QED  BY <1>11, <2>1
<1>19. /\ c \in [0 .. n -> T] /\ c[0] = b
       /\ \A k \in 1 .. n : c[k] = uploadEntryInfo(chunks, c[k - 1], sent[k])
  BY <1>13, <1>14, <1>18
<1> QED  BY <1>10, <1>19, Zenon DEF n, b, T

(* UploadSnapshot: of any list, the entries it codes are right in the chunks it keeps, with   *)
(* those no entry uses dropped, indices relative and hard links repeating their root.          *)
THEOREM EncodeMakes ==
    ASSUME NEW S \in SUBSET Data, NEW l \in Lists, Chunks(l) \in Seq(S), NEW pos, LaidOut(l, pos), KeptRight(l)
    PROVE  EncodeEntries(l) \in Coding(S, Chunks(l))
<1> DEFINE c == Chunks(l)
           sent == ReadEntries(l).out
           n == Len(sent)
           D == EncodeStates(c, sent)
<1>1. sent \in Seq(EntryType) /\ \A i \in DOMAIN sent : Placed(c, sent[i])  BY ReadRight
<1>2. c \in Seq(S)  OBVIOUS
<1>3. EncodeEntries(l) = D[n]  BY Zenon DEF EncodeEntries
<1> HIDE DEF sent, c
<1>4. D \in [0 .. n -> Coding(S, c)]  BY <1>1, <1>2, EncodeSteps
<1>5. n \in 0 .. n  BY <1>1
<1> HIDE DEF D, n
<1>6. D[n] \in Coding(S, c)  BY <1>4, <1>5
<1> QED  BY <1>3, <1>6 DEF c

-----------------------------------------------------------------------------
(* The state of a backup that is under way.                                *)

\* The chunk with index i - 1 was reported.
Reported(up, i) == i <= Len(up) /\ up[i] # <<>>

\* C holds the chunks that were cut so far: each was reported or is being uploaded.
Uploading(C, up, ups, last) ==
    /\ C \in Seq(Data) /\ up \in Seq(Data) /\ Len(C) = last + 1 /\ Len(up) <= Len(C)
    /\ ups \subseteq [index : Nat, chunk : Data] /\ IsFiniteSet(ups)
    /\ \A i \in 1 .. Len(C) : C[i] # <<>>
    /\ \A i \in 1 .. Len(up) : up[i] # <<>> => up[i] = C[i]
    /\ \A u \in ups : u.index <= last /\ u.chunk = C[u.index + 1] /\ ~Reported(up, u.index + 1)
    /\ \A i \in 1 .. Len(C) : Reported(up, i) \/ \E u \in ups : u.index + 1 = i

\* A chunk in the cache is stored or being uploaded; one that was reported is stored
\* or being uploaded with a smaller index.
Backed(up, ups, known, there) ==
    /\ known \subseteq Data /\ \A c \in known : c \in there \/ \E u \in ups : u.chunk = c
    /\ \A i \in 1 .. Len(up) : up[i] # <<>> => up[i] \in there \/ \E u \in ups : u.chunk = up[i] /\ u.index + 1 < i
    /\ \A u \in ups : u.chunk \in known

\* The first k - 1 modified files were packed, or are gone, and rd is read from the next;
\* r is all that was read.
Packing(p, mods, k, rd, r, pos) ==
    /\ mods \in Seq(ModifiedType) /\ rd \in Data /\ r \in Data /\ k \in 1 .. Len(mods) + 1
    /\ pos \in [1 .. Len(mods) + 1 -> Nat] /\ pos[1] = 0
    /\ \A j \in 1 .. Len(mods) :
          /\ pos[j + 1] = pos[j] + (IF mods[j].size > 0 THEN mods[j].size ELSE 0)
          /\ mods[j].size > 0 /\ mods[j].hash # NoHash =>
                pos[j + 1] <= Len(r) /\ SubSeq(r, pos[j] + 1, pos[j + 1]) = mods[j].hash
    /\ p \in {"pack", "read"} => \A j \in k .. Len(mods) : mods[j].size = -1 /\ mods[j].hash = NoHash
    /\ p = "hash" => \A j \in k + 1 .. Len(mods) : mods[j].size = -1 /\ mods[j].hash = NoHash
    /\ p = "pack" => pos[k] = Len(r)
    /\ p \in {"read", "hash"} => k <= Len(mods) /\ pos[k] + Len(rd) = Len(r) /\ SubSeq(r, pos[k] + 1, Len(r)) = rd
    /\ p = "hash" => mods[k].size = Len(rd) /\ mods[k].hash = NoHash

-----------------------------------------------------------------------------
(* Sequences that begin alike.                                             *)

(* What is joined begins with the first part. *)
LEMMA JoinExtends ==
    ASSUME NEW S, NEW a \in Seq(S), NEW b \in Seq(S)
    PROVE  Extends(S, a, a \o b) /\ Len(a \o b) = Len(a) + Len(b)
<1>1. a \o b \in Seq(S) /\ Len(a \o b) = Len(a) + Len(b) /\ Len(a) \in Nat /\ Len(b) \in Nat  OBVIOUS
<1>2. \A i \in 1 .. Len(a) : (a \o b)[i] = a[i]  OBVIOUS
<1> HIDE DEF Extends
<1>3. Len(a \o b) \in Nat /\ Len(a) <= Len(a \o b)  BY <1>1
<1> QED  BY <1>1, <1>2, <1>3, Zenon DEF Extends

(* A stretch of the beginning is the same. *)
LEMMA SameBeginning ==
    ASSUME NEW S, NEW a \in Seq(S), NEW d, Extends(S, a, d), NEW m \in Nat, NEW n \in Nat, 1 <= m, n <= Len(a)
    PROVE  SubSeq(d, m, n) = SubSeq(a, m, n)
<1>1. d \in Seq(S) /\ \A i \in 1 .. Len(a) : d[i] = a[i]  BY DEF Extends
<1>2. \A i \in m .. n : a[i] \in S /\ d[i + 0] = a[i]
  <2>1. ASSUME NEW i \in m .. n PROVE a[i] \in S /\ d[i + 0] = a[i]
    <3>1. i \in 1 .. Len(a) /\ i + 0 = i  OBVIOUS
    <3> QED  BY <1>1, <3>1
  <2> QED  BY <2>1
<1>3. m \in Int /\ n \in Int /\ 0 \in Int /\ m + 0 = m /\ n + 0 = n  OBVIOUS
<1>4. ASSUME NEW z \in Int, z = 0 PROVE SubSeq(d, m + z, n + z) = SubSeq(a, m, n)
  <2>1. \A i \in m .. n : a[i] \in S /\ d[i + z] = a[i]  BY <1>2, <1>4
  <2> QED  BY <1>3, <2>1, SameStretch
<1> QED  BY <1>3, <1>4

(* Any stretch of the beginning. *)
LEMMA SameBytes ==
    ASSUME NEW a \in Seq(Nat), NEW d, Extends(Nat, a, d)
    PROVE  \A m, n \in Nat : 1 <= m /\ n <= Len(a) => SubSeq(d, m, n) = SubSeq(a, m, n)
BY SameBeginning

(* A sequence is its beginning and what follows. *)
LEMMA Beginning ==
    ASSUME NEW S, NEW a \in Seq(S), NEW d, Extends(S, a, d)
    PROVE  \E b \in Seq(S) : d = a \o b
<1> DEFINE b == SubSeq(d, Len(a) + 1, Len(d))
<1>1. d \in Seq(S) /\ Len(d) \in Nat /\ Len(a) <= Len(d) /\ \A i \in 1 .. Len(a) : d[i] = a[i]  BY DEF Extends
<1>2. b \in Seq(S) /\ Len(b) = Len(d) - Len(a) /\ \A i \in 1 .. Len(b) : b[i] = d[i + Len(a)]
  <2>1. \A i \in Len(a) + 1 .. Len(d) : d[i] \in S  BY <1>1
  <2>2. Len(a) + 1 \in Int /\ Len(d) \in Int  BY <1>1
  <2>3. /\ b \in Seq(S) /\ Len(b) = (IF Len(a) + 1 <= Len(d) THEN Len(d) - (Len(a) + 1) + 1 ELSE 0)
        /\ \A i \in 1 .. Len(d) - (Len(a) + 1) + 1 : b[i] = d[(Len(a) + 1) + i - 1]
    BY <2>1, <2>2, SubSeqProperties
  <2>4. Len(b) = Len(d) - Len(a)  BY <1>1, <2>3
  <2>5. \A i \in 1 .. Len(b) : i \in 1 .. Len(d) - (Len(a) + 1) + 1 /\ (Len(a) + 1) + i - 1 = i + Len(a)
    <3> HIDE DEF b
    <3> QED  BY <1>1, <2>4
  <2> QED  BY <2>3, <2>4, <2>5
<1> HIDE DEF b
<1>3. a \o b \in Seq(S) /\ Len(a \o b) = Len(d)  BY <1>1, <1>2
<1>4. ASSUME NEW i \in 1 .. Len(d) PROVE (a \o b)[i] = d[i]
  <2>1. CASE i <= Len(a)  BY <1>1, <1>2, <2>1
  <2>2. CASE ~(i <= Len(a))
    <3>1. i - Len(a) \in 1 .. Len(b) /\ (i - Len(a)) + Len(a) = i  BY <1>1, <1>2, <2>2
    <3>2. (a \o b)[i] = b[i - Len(a)]  BY <1>1, <1>2, <2>2
    <3> QED  BY <1>2, <3>1, <3>2
  <2> QED  BY <2>1, <2>2
<1>5. d = a \o b  BY <1>1, <1>3, <1>4, SeqEqual
<1> QED  BY <1>2, <1>5

(* The bytes of some chunks begin with the bytes of the first of them. *)
LEMMA FlattenExtends ==
    ASSUME NEW a \in Seq(Data), NEW d, Extends(Data, a, d)
    PROVE  Extends(Nat, FlattenSeq(a), FlattenSeq(d)) /\ FlattenSeq(a) \in Data /\ FlattenSeq(d) \in Data
<1>1. PICK b \in Seq(Data) : d = a \o b  BY Beginning
<1>2. FlattenSeq(d) = FlattenSeq(a) \o FlattenSeq(b)  BY <1>1, FlattenJoin DEF Data
<1>3. FlattenSeq(a) \in Data /\ FlattenSeq(b) \in Data
  <2>1. <<>> \in Data  BY DEF Data
  <2> QED  BY <1>1, <2>1, FlattenAppend DEF Data
<1>4. Extends(Nat, FlattenSeq(a), FlattenSeq(a) \o FlattenSeq(b)) /\ FlattenSeq(a) \o FlattenSeq(b) \in Data
  <2> DEFINE x == FlattenSeq(a)
             y == FlattenSeq(b)
  <2>1. x \in Seq(Nat) /\ y \in Seq(Nat)  BY <1>3 DEF Data
  <2> HIDE DEF x, y
  <2>2. Extends(Nat, x, x \o y) /\ x \o y \in Seq(Nat)  BY <2>1, JoinExtends
  <2> QED  BY <2>2 DEF x, y, Data
<1> QED  BY <1>2, <1>3, <1>4

(* What begins with a beginning. *)
LEMMA ExtendsOn ==
    ASSUME NEW S, NEW a \in Seq(S), NEW b, Extends(S, a, b), NEW c, Extends(S, b, c)
    PROVE  Extends(S, a, c)
<1>1. /\ b \in Seq(S) /\ Len(b) \in Nat /\ Len(a) <= Len(b) /\ \A i \in 1 .. Len(a) : b[i] = a[i]
      /\ c \in Seq(S) /\ Len(c) \in Nat /\ Len(b) <= Len(c) /\ \A i \in 1 .. Len(b) : c[i] = b[i] /\ Len(a) \in Nat
  BY DEF Extends
<1>2. \A i \in 1 .. Len(a) : i \in 1 .. Len(b)  BY <1>1
<1>3. Len(a) <= Len(c) /\ \A i \in 1 .. Len(a) : c[i] = a[i]
  <2>1. Len(a) \in Nat  OBVIOUS
  <2> QED  BY <1>1, <1>2, <2>1
<1> QED  BY <1>1, <1>3 DEF Extends

(* Only chunks that were uploaded are kept, up to the first that was not. *)
LEMMA TruncatedIs ==
    ASSUME NEW up \in Seq(Data)
    PROVE  /\ Truncated(up) \in Seq(Data) /\ Extends(Data, Truncated(up), up)
           /\ \A i \in 1 .. Len(Truncated(up)) : up[i] # <<>>
           /\ (\A i \in 1 .. Len(up) : up[i] # <<>>) => Truncated(up) = up
<1> DEFINE holes == {i \in DOMAIN up : up[i] = <<>>}
           n == Min(holes) - 1
<1>1. DOMAIN up = 1 .. Len(up) /\ Len(up) \in Nat  OBVIOUS
<1>2. Truncated(up) = IF holes = {} THEN up ELSE SubSeq(up, 1, n)  BY Zenon DEF Truncated
<1>3. CASE holes = {}
  <2>1. Truncated(up) = up  BY <1>2, <1>3
  <2>2. \A i \in 1 .. Len(up) : up[i] # <<>>  BY <1>1, <1>3
  <2>3. Extends(Data, up, up)  BY <1>1 DEF Extends
  <2> QED  BY <2>1, <2>2, <2>3
<1>4. CASE holes # {}
  <2>1. holes \in SUBSET Nat  BY <1>1
  <2>2. Min(holes) \in holes /\ \A i \in holes : Min(holes) <= i  BY <1>4, <2>1, MinIs
  <2>3. Min(holes) \in 1 .. Len(up) /\ up[Min(holes)] = <<>>  BY <1>1, <2>2
  <2>4. n \in 0 .. Len(up) /\ \A i \in 1 .. n : i \in 1 .. Len(up) /\ ~(Min(holes) <= i)
    <3> DEFINE m == Min(holes)
    <3>1. m \in 1 .. Len(up)  BY <2>3
    <3> HIDE DEF m
    <3>2. m - 1 \in 0 .. Len(up) /\ \A i \in 1 .. m - 1 : i \in 1 .. Len(up) /\ ~(m <= i)  BY <1>1, <3>1
    <3> QED  BY <3>2 DEF m
  <2>5. \A i \in 1 .. n : up[i] # <<>>  BY <1>1, <2>2, <2>4
  <2> HIDE DEF n
  <2>6. /\ SubSeq(up, 1, n) \in Seq(Data) /\ Len(SubSeq(up, 1, n)) = n
        /\ \A i \in 1 .. n : SubSeq(up, 1, n)[i] = up[i]
    BY <2>4
  <2>7. Truncated(up) = SubSeq(up, 1, n)  BY <1>2, <1>4
  <2>8. Extends(Data, SubSeq(up, 1, n), up)  BY <1>1, <2>4, <2>6 DEF Extends
  <2>9. ~\A i \in 1 .. Len(up) : up[i] # <<>>  BY <2>3
  <2> HIDE DEF holes
  <2> QED  BY <2>5, <2>6, <2>7, <2>8, <2>9
<1> QED  BY <1>3, <1>4

-----------------------------------------------------------------------------
(* Reporting chunks.                                                       *)

\* new is what up becomes when the i-th chunk is reported.
Put(up, i, chunk, new) ==
    /\ new \in Seq(Data) /\ i \in Nat \ {0} /\ Len(new) = (IF Len(up) >= i THEN Len(up) ELSE i)
    /\ \A j \in 1 .. Len(new) : new[j] = IF j = i THEN chunk ELSE IF j <= Len(up) THEN up[j] ELSE <<>>

(* The larger of two numbers. *)
LEMMA MaxOfTwo ==
    ASSUME NEW a \in Int, NEW b \in Int
    PROVE  Max({a, b}) = IF a >= b THEN a ELSE b
<1> DEFINE m == IF a >= b THEN a ELSE b
           Is(x) == x \in {a, b} /\ \A y \in {a, b} : x >= y
<1>1. Is(m)  OBVIOUS
<1>2. \A x : Is(x) => x = m  OBVIOUS
<1> HIDE DEF m
<1>3. (CHOOSE x : Is(x)) = m  BY <1>1, <1>2, Zenon
<1>4. Max({a, b}) = CHOOSE x \in {a, b} : \A y \in {a, b} : x >= y  BY Zenon DEF Max
<1>5. (CHOOSE x \in {a, b} : \A y \in {a, b} : x >= y) = CHOOSE x : Is(x)  OBVIOUS
<1> QED  BY <1>3, <1>4, <1>5 DEF m

(* Reporting a chunk changes nothing else in the list. *)
LEMMA Reporting ==
    ASSUME NEW l \in Lists, NEW index \in Nat, NEW chunk \in Data
    PROVE  /\ AddUploadedChunk(l, index, chunk) \in Lists
           /\ Put(l.uploaded, index + 1, chunk, AddUploadedChunk(l, index, chunk).uploaded)
           /\ \A f \in {"token", "entries", "modified", "preserved"} : AddUploadedChunk(l, index, chunk)[f] = l[f]
<1> DEFINE up == l.uploaded
           n == Max({Len(up), index + 1})
           new == [i \in 1 .. n |-> IF i = index + 1 THEN chunk ELSE IF i <= Len(up) THEN up[i] ELSE <<>>]
<1>1. up \in Seq(Data)  BY DEF Lists
<1>2. n = (IF Len(up) >= index + 1 THEN Len(up) ELSE index + 1) /\ n \in Nat
  <2> HIDE DEF up
  <2>1. Len(up) \in Int /\ Len(up) \in Nat /\ index + 1 \in Int  BY <1>1
  <2>2. Max({Len(up), index + 1}) = IF Len(up) >= index + 1 THEN Len(up) ELSE index + 1  BY <2>1, MaxOfTwo
  <2> QED  BY <2>1, <2>2
<1>3. AddUploadedChunk(l, index, chunk) = [l EXCEPT !.uploaded = new]  BY Zenon DEF AddUploadedChunk
<1> HIDE DEF n
<1>4. \A i \in 1 .. n : new[i] = IF i = index + 1 THEN chunk ELSE IF i <= Len(up) THEN up[i] ELSE <<>>  OBVIOUS
<1>5. new \in Seq(Data) /\ Len(new) = n
  <2>1. <<>> \in Data  BY DEF Data
  <2> HIDE DEF up
  <2>2. \A i \in 1 .. n : new[i] \in Data
    <3>1. ASSUME NEW i \in 1 .. n PROVE new[i] \in Data
      <4>1. i <= Len(up) => up[i] \in Data  BY <1>1, <1>2
      <4> QED  BY <1>4, <2>1, <4>1
    <3> QED  BY <3>1
  <2>3. new \in [1 .. n -> Data]
    <3>1. DOMAIN new = 1 .. n /\ new = [i \in 1 .. n |-> new[i]]  OBVIOUS
    <3> HIDE DEF new
    <3> QED  BY <2>2, <3>1
  <2> HIDE DEF new
  <2> QED  BY <1>2, <2>3
<1> HIDE DEF new
<1>6. [l EXCEPT !.uploaded = new] \in Lists  BY <1>5 DEF Lists
<1>7. [l EXCEPT !.uploaded = new].uploaded = new  BY DEF Lists
<1>8. \A f \in {"token", "entries", "modified", "preserved"} : [l EXCEPT !.uploaded = new][f] = l[f]  BY DEF Lists
<1>9. Put(up, index + 1, chunk, new)  BY <1>2, <1>4, <1>5 DEF Put
<1> QED  BY <1>3, <1>6, <1>7, <1>8, <1>9 DEF up

(* A chunk is cut and reported at once. *)
LEMMA UploadingReport ==
    ASSUME NEW C, NEW up, NEW ups, NEW last \in Int, Uploading(C, up, ups, last),
           NEW chunk \in Data, chunk # <<>>, NEW new, Put(up, last + 2, chunk, new)
    PROVE  Uploading(Append(C, chunk), new, ups, last + 1)
<1> DEFINE D == Append(C, chunk)
<1>1. /\ C \in Seq(Data) /\ up \in Seq(Data) /\ Len(C) = last + 1 /\ Len(up) <= Len(C)
      /\ ups \subseteq [index : Nat, chunk : Data] /\ IsFiniteSet(ups)
      /\ \A i \in 1 .. Len(C) : C[i] # <<>>
      /\ \A i \in 1 .. Len(up) : up[i] # <<>> => up[i] = C[i]
      /\ \A u \in ups : u.index <= last /\ u.chunk = C[u.index + 1] /\ ~Reported(up, u.index + 1)
      /\ \A i \in 1 .. Len(C) : Reported(up, i) \/ \E u \in ups : u.index + 1 = i
  BY DEF Uploading
<1>2. /\ D \in Seq(Data) /\ Len(D) = last + 2 /\ D[last + 2] = chunk /\ \A i \in 1 .. last + 1 : D[i] = C[i]
      /\ last + 1 \in Nat
  BY <1>1
<1> HIDE DEF D
<1>3. new \in Seq(Data) /\ Len(new) = last + 2
      /\ \A j \in 1 .. Len(new) : new[j] = IF j = last + 2 THEN chunk ELSE IF j <= Len(up) THEN up[j] ELSE <<>>
  <2>1. Len(up) \in Nat  BY <1>1
  <2> QED  BY <1>1, <2>1 DEF Put
<1>4. \A i \in 1 .. Len(D) : D[i] # <<>>
  <2>1. ASSUME NEW i \in 1 .. Len(D) PROVE D[i] # <<>>
    <3>1. i = last + 2 \/ i \in 1 .. last + 1  BY <1>2
    <3> QED  BY <1>1, <1>2, <3>1
  <2> QED  BY <2>1
<1>5. \A i \in 1 .. last + 1 : Reported(new, i) <=> Reported(up, i)
  <2>1. ASSUME NEW i \in 1 .. last + 1 PROVE Reported(new, i) <=> Reported(up, i)
    <3>1. i \in 1 .. Len(new) /\ i # last + 2 /\ i <= Len(new)  BY <1>2, <1>3
    <3>2. new[i] = IF i <= Len(up) THEN up[i] ELSE <<>>  BY <1>3, <3>1
    <3> QED  BY <3>1, <3>2 DEF Reported
  <2> QED  BY <2>1
<1>6. ASSUME NEW i \in 1 .. Len(new), new[i] # <<>> PROVE new[i] = D[i]
  <2>1. CASE i = last + 2  BY <1>2, <1>3, <2>1
  <2>2. CASE i # last + 2
    <3>1. i \in 1 .. last + 1 /\ new[i] = IF i <= Len(up) THEN up[i] ELSE <<>>  BY <1>2, <1>3, <2>2
    <3>2. i \in 1 .. Len(up) /\ up[i] # <<>>
      <4>1. Len(up) \in Nat  BY <1>1
      <4> QED  BY <1>6, <3>1, <4>1
    <3> QED  BY <1>1, <1>2, <3>1, <3>2
  <2> QED  BY <2>1, <2>2
<1>7. ASSUME NEW u \in ups PROVE u.index <= last + 1 /\ u.chunk = D[u.index + 1] /\ ~Reported(new, u.index + 1)
  <2>1. u.index \in Nat /\ u.index <= last /\ u.chunk = C[u.index + 1] /\ ~Reported(up, u.index + 1)  BY <1>1
  <2>2. u.index + 1 \in 1 .. last + 1  BY <1>2, <2>1
  <2> QED  BY <1>2, <1>5, <2>1, <2>2
<1>8. ASSUME NEW i \in 1 .. Len(D) PROVE Reported(new, i) \/ \E u \in ups : u.index + 1 = i
  <2>1. CASE i = last + 2
    <3>1. i \in 1 .. Len(new) /\ new[i] = chunk  BY <1>2, <1>3, <2>1
    <3> QED  BY <3>1 DEF Reported
  <2>2. CASE i # last + 2
    <3>1. i \in 1 .. last + 1 /\ i \in 1 .. Len(C)  BY <1>1, <1>2, <2>2
    <3> QED  BY <1>1, <1>5, <3>1
  <2> QED  BY <2>1, <2>2
<1>9. Len(D) = (last + 1) + 1 /\ Len(new) <= Len(D)  BY <1>2, <1>3
<1> QED  BY <1>1, <1>2, <1>3, <1>4, <1>6, <1>7, <1>8, <1>9 DEF Uploading, D

(* A chunk is cut and sent to the workers. *)
LEMMA UploadingSend ==
    ASSUME NEW C, NEW up, NEW ups, NEW last \in Int, Uploading(C, up, ups, last), NEW chunk \in Data, chunk # <<>>
    PROVE  Uploading(Append(C, chunk), up, ups \cup {[index |-> last + 1, chunk |-> chunk]}, last + 1)
<1> DEFINE D == Append(C, chunk)
           v == [index |-> last + 1, chunk |-> chunk]
           more == ups \cup {v}
<1>1. /\ C \in Seq(Data) /\ up \in Seq(Data) /\ Len(C) = last + 1 /\ Len(up) <= Len(C)
      /\ ups \subseteq [index : Nat, chunk : Data] /\ IsFiniteSet(ups)
      /\ \A i \in 1 .. Len(C) : C[i] # <<>>
      /\ \A i \in 1 .. Len(up) : up[i] # <<>> => up[i] = C[i]
      /\ \A u \in ups : u.index <= last /\ u.chunk = C[u.index + 1] /\ ~Reported(up, u.index + 1)
      /\ \A i \in 1 .. Len(C) : Reported(up, i) \/ \E u \in ups : u.index + 1 = i
  BY DEF Uploading
<1>2. /\ D \in Seq(Data) /\ Len(D) = last + 2 /\ D[last + 2] = chunk /\ \A i \in 1 .. last + 1 : D[i] = C[i]
      /\ last + 1 \in Nat
  BY <1>1
<1>3. v \in [index : Nat, chunk : Data] /\ v.index = last + 1 /\ v.chunk = chunk  BY <1>2
<1> HIDE DEF D, v
<1>4. more \subseteq [index : Nat, chunk : Data] /\ IsFiniteSet(more)
  <2>1. IsFiniteSet(more)  BY <1>1, FS_AddElement
  <2> QED  BY <1>1, <1>3, <2>1
<1>5. \A i \in 1 .. Len(D) : D[i] # <<>>
  <2>1. ASSUME NEW i \in 1 .. Len(D) PROVE D[i] # <<>>
    <3>1. i = last + 2 \/ i \in 1 .. last + 1  BY <1>2
    <3> QED  BY <1>1, <1>2, <3>1
  <2> QED  BY <2>1
<1>6. ASSUME NEW i \in 1 .. Len(up), up[i] # <<>> PROVE up[i] = D[i]
  <2>1. i \in 1 .. last + 1
    <3>1. Len(up) \in Nat  BY <1>1
    <3> QED  BY <1>1, <1>2, <3>1
  <2> QED  BY <1>1, <1>2, <1>6, <2>1
<1>7. ASSUME NEW u \in more PROVE u.index <= last + 1 /\ u.chunk = D[u.index + 1] /\ ~Reported(up, u.index + 1)
  <2>1. CASE u \in ups
    <3>1. u.index \in Nat /\ u.index <= last /\ u.chunk = C[u.index + 1] /\ ~Reported(up, u.index + 1)  BY <1>1, <2>1
    <3>2. u.index + 1 \in 1 .. last + 1  BY <1>2, <3>1
    <3> QED  BY <1>2, <3>1, <3>2
  <2>2. CASE u = v
    <3>1. u.index = last + 1 /\ u.chunk = chunk  BY <1>3, <2>2
    <3>2. ~(last + 2 <= Len(up))
      <4>1. Len(up) \in Nat  BY <1>1
      <4> QED  BY <1>1, <4>1
    <3>3. ~Reported(up, u.index + 1)
      <4>1. u.index + 1 = last + 2  BY <3>1
      <4> QED  BY <3>2, <4>1 DEF Reported
    <3> QED  BY <1>2, <3>1, <3>3
  <2> QED  BY <2>1, <2>2
<1>8. ASSUME NEW i \in 1 .. Len(D) PROVE Reported(up, i) \/ \E u \in more : u.index + 1 = i
  <2>1. CASE i = last + 2
    <3>1. v \in more /\ v.index + 1 = i  BY <1>3, <2>1
    <3> QED  BY <3>1
  <2>2. CASE i # last + 2
    <3>1. i \in 1 .. last + 1 /\ i \in 1 .. Len(C)  BY <1>1, <1>2, <2>2
    <3> QED  BY <1>1, <3>1
  <2> QED  BY <2>1, <2>2
<1>9. Len(D) = (last + 1) + 1 /\ Len(up) <= Len(D)
  <2>1. Len(up) \in Nat  BY <1>1
  <2> QED  BY <1>1, <1>2, <2>1
<1> HIDE DEF more
<1>10. Uploading(D, up, more, last + 1)
  BY <1>1, <1>2, <1>4, <1>5, <1>6, <1>7, <1>8, <1>9 DEF Uploading
<1> QED  BY <1>10 DEF D, more, v

(* An upload is over, and its chunk is reported. *)
LEMMA UploadingDone ==
    ASSUME NEW C, NEW up, NEW ups, NEW last \in Int, Uploading(C, up, ups, last), NEW u \in ups,
           NEW new, Put(up, u.index + 1, u.chunk, new)
    PROVE  Uploading(C, new, ups \ {u}, last)
<1> DEFINE rest == ups \ {u}
           k == u.index + 1
<1>1. /\ C \in Seq(Data) /\ up \in Seq(Data) /\ Len(C) = last + 1 /\ Len(up) <= Len(C)
      /\ ups \subseteq [index : Nat, chunk : Data] /\ IsFiniteSet(ups)
      /\ \A i \in 1 .. Len(C) : C[i] # <<>>
      /\ \A i \in 1 .. Len(up) : up[i] # <<>> => up[i] = C[i]
      /\ \A w \in ups : w.index <= last /\ w.chunk = C[w.index + 1] /\ ~Reported(up, w.index + 1)
      /\ \A i \in 1 .. Len(C) : Reported(up, i) \/ \E w \in ups : w.index + 1 = i
  BY DEF Uploading
<1>2. u.index \in Nat /\ k \in 1 .. Len(C) /\ u.chunk = C[k] /\ ~Reported(up, k)  BY <1>1
<1>3. Len(up) \in Nat /\ Len(C) \in Nat  BY <1>1
<1> HIDE DEF k
<1>4. /\ new \in Seq(Data) /\ Len(new) = (IF Len(up) >= k THEN Len(up) ELSE k)
      /\ \A j \in 1 .. Len(new) : new[j] = IF j = k THEN C[k] ELSE IF j <= Len(up) THEN up[j] ELSE <<>>
  BY <1>2 DEF Put, k
<1>5. Len(new) \in Nat /\ Len(new) <= Len(C) /\ k \in 1 .. Len(new) /\ Len(up) <= Len(new)  BY <1>1, <1>2, <1>3, <1>4
<1>6. \A i \in 1 .. Len(C) : Reported(new, i) <=> (i = k \/ Reported(up, i))
  <2>1. ASSUME NEW i \in 1 .. Len(C) PROVE Reported(new, i) <=> (i = k \/ Reported(up, i))
    <3>1. CASE i = k
      <4>1. i <= Len(new) /\ new[i] = C[k] /\ C[k] # <<>>  BY <1>1, <1>2, <1>4, <1>5, <3>1
      <4> QED  BY <3>1, <4>1 DEF Reported
    <3>2. CASE i # k /\ i <= Len(new)
      <4>1. i \in 1 .. Len(new)  BY <1>5, <3>2
      <4>2. new[i] = IF i <= Len(up) THEN up[i] ELSE <<>>  BY <1>4, <3>2, <4>1
      <4> QED  BY <3>2, <4>2 DEF Reported
    <3>3. CASE i # k /\ ~(i <= Len(new))
      <4>1. ~(i <= Len(up))  BY <1>3, <1>5, <3>3
      <4> QED  BY <3>3, <4>1 DEF Reported
    <3> QED  BY <3>1, <3>2, <3>3
  <2> QED  BY <2>1
<1>7. ASSUME NEW i \in 1 .. Len(new), new[i] # <<>> PROVE new[i] = C[i]
  <2>1. CASE i = k  BY <1>4, <2>1
  <2>2. CASE i # k
    <3>1. new[i] = IF i <= Len(up) THEN up[i] ELSE <<>>  BY <1>4, <2>2
    <3>2. i \in 1 .. Len(up) /\ up[i] # <<>>  BY <1>3, <1>7, <3>1
    <3> QED  BY <1>1, <3>1, <3>2
  <2> QED  BY <2>1, <2>2
<1>8. ASSUME NEW w \in rest PROVE w.index <= last /\ w.chunk = C[w.index + 1] /\ ~Reported(new, w.index + 1)
  <2>1. w \in ups /\ w # u  OBVIOUS
  <2>2. w \in [index : Nat, chunk : Data] /\ u \in [index : Nat, chunk : Data]  BY <1>1, <2>1
  <2>3. w.index <= last /\ w.chunk = C[w.index + 1] /\ ~Reported(up, w.index + 1)  BY <1>1, <2>1
  <2>4. w.index # u.index
    <3>1. ASSUME w.index = u.index PROVE FALSE
      <4>1. w.chunk = u.chunk  BY <1>2, <2>3, <3>1 DEF k
      <4> QED  BY <2>1, <2>2, <3>1, <4>1
    <3> QED  BY <3>1
  <2>5. w.index + 1 \in 1 .. Len(C) /\ w.index + 1 # k  BY <1>1, <1>2, <2>2, <2>3, <2>4 DEF k
  <2> QED  BY <1>6, <2>3, <2>5
<1>9. ASSUME NEW i \in 1 .. Len(C) PROVE Reported(new, i) \/ \E w \in rest : w.index + 1 = i
  <2>1. CASE i = k  BY <1>6, <2>1
  <2>2. CASE i # k /\ Reported(up, i)  BY <1>6, <2>2
  <2>3. CASE i # k /\ ~Reported(up, i)
    <3>1. PICK w \in ups : w.index + 1 = i  BY <1>1, <2>3
    <3>2. w # u  BY <2>3, <3>1 DEF k
    <3> QED  BY <3>1, <3>2
  <2> QED  BY <2>1, <2>2, <2>3
<1>10. rest \subseteq [index : Nat, chunk : Data] /\ IsFiniteSet(rest)
  <2>1. IsFiniteSet(rest)  BY <1>1, FS_RemoveElement
  <2> QED  BY <1>1, <2>1
<1> HIDE DEF rest
<1>11. Uploading(C, new, rest, last)  BY <1>1, <1>4, <1>5, <1>7, <1>8, <1>9, <1>10 DEF Uploading
<1> QED  BY <1>11 DEF rest

(* When no upload is under way every chunk was reported. *)
LEMMA UploadingOver ==
    ASSUME NEW C, NEW up, NEW last \in Int, Uploading(C, up, {}, last)
    PROVE  up = C /\ \A i \in 1 .. Len(up) : up[i] # <<>>
<1>1. /\ C \in Seq(Data) /\ up \in Seq(Data) /\ Len(up) <= Len(C) /\ Len(C) \in Nat /\ Len(up) \in Nat
      /\ \A i \in 1 .. Len(up) : up[i] # <<>> => up[i] = C[i]
      /\ \A i \in 1 .. Len(C) : Reported(up, i)
  <2>1. /\ C \in Seq(Data) /\ up \in Seq(Data) /\ Len(up) <= Len(C)
        /\ \A i \in 1 .. Len(up) : up[i] # <<>> => up[i] = C[i]
        /\ \A i \in 1 .. Len(C) : Reported(up, i)
    BY DEF Uploading
  <2> QED  BY <2>1
<1>2. \A i \in 1 .. Len(C) : i <= Len(up) /\ up[i] # <<>>  BY <1>1 DEF Reported
<1>3. Len(up) = Len(C)
  <2>1. CASE Len(C) = 0  BY <1>1, <2>1
  <2>2. CASE Len(C) # 0
    <3>1. Len(C) \in 1 .. Len(C)  BY <1>1, <2>2
    <3> QED  BY <1>1, <1>2, <3>1
  <2> QED  BY <2>1, <2>2
<1>4. up = C  BY <1>1, <1>2, <1>3, SeqEqual
<1> QED  BY <1>2, <1>4

(* A chunk in the cache is reported at once. *)
LEMMA BackedReport ==
    ASSUME NEW C, NEW up, NEW ups, NEW last \in Int, Uploading(C, up, ups, last), NEW known, NEW there,
           Backed(up, ups, known, there), NEW chunk \in known, NEW new, Put(up, last + 2, chunk, new)
    PROVE  Backed(new, ups, known, there)
<1>1. /\ known \subseteq Data /\ \A c \in known : c \in there \/ \E u \in ups : u.chunk = c
      /\ \A i \in 1 .. Len(up) : up[i] # <<>> => up[i] \in there \/ \E u \in ups : u.chunk = up[i] /\ u.index + 1 < i
      /\ \A u \in ups : u.chunk \in known
  BY DEF Backed
<1>2. /\ up \in Seq(Data) /\ Len(up) <= last + 1 /\ last + 1 \in Nat /\ Len(up) \in Nat
      /\ \A u \in ups : u.index \in Nat /\ u.index <= last
  <2>1. /\ up \in Seq(Data) /\ Len(up) <= Len(C) /\ Len(C) = last + 1 /\ C \in Seq(Data)
        /\ ups \subseteq [index : Nat, chunk : Data] /\ \A u \in ups : u.index <= last
    BY DEF Uploading
  <2> QED  BY <2>1
<1>3. new \in Seq(Data) /\ Len(new) = last + 2
      /\ \A j \in 1 .. Len(new) : new[j] = IF j = last + 2 THEN chunk ELSE IF j <= Len(up) THEN up[j] ELSE <<>>
  BY <1>2 DEF Put
<1>4. ASSUME NEW i \in 1 .. Len(new), new[i] # <<>>
      PROVE  new[i] \in there \/ \E u \in ups : u.chunk = new[i] /\ u.index + 1 < i
  <2>1. CASE i = last + 2
    <3>1. new[i] = chunk  BY <1>3, <2>1
    <3>2. CASE chunk \in there  BY <3>1, <3>2
    <3>3. CASE ~(chunk \in there)
      <4>1. PICK u \in ups : u.chunk = chunk  BY <1>1, <3>3
      <4>2. u.index + 1 < i  BY <1>2, <2>1
      <4> QED  BY <3>1, <4>1, <4>2
    <3> QED  BY <3>2, <3>3
  <2>2. CASE i # last + 2
    <3>1. new[i] = IF i <= Len(up) THEN up[i] ELSE <<>>  BY <1>3, <2>2
    <3>2. i \in 1 .. Len(up) /\ new[i] = up[i]  BY <1>2, <1>4, <3>1
    <3> QED  BY <1>1, <1>4, <3>2
  <2> QED  BY <2>1, <2>2
<1> QED  BY <1>1, <1>4 DEF Backed

(* A chunk is sent to the workers. *)
LEMMA BackedSend ==
    ASSUME NEW up, NEW ups, NEW known, NEW there, Backed(up, ups, known, there), NEW index, NEW chunk \in Data
    PROVE  Backed(up, ups \cup {[index |-> index, chunk |-> chunk]}, known \cup {chunk}, there)
<1> DEFINE v == [index |-> index, chunk |-> chunk]
           more == ups \cup {v}
           all == known \cup {chunk}
<1>1. /\ known \subseteq Data /\ \A c \in known : c \in there \/ \E u \in ups : u.chunk = c
      /\ \A i \in 1 .. Len(up) : up[i] # <<>> => up[i] \in there \/ \E u \in ups : u.chunk = up[i] /\ u.index + 1 < i
      /\ \A u \in ups : u.chunk \in known
  BY DEF Backed
<1>2. v \in more /\ v.chunk = chunk /\ \A u \in ups : u \in more  OBVIOUS
<1>3. all \subseteq Data /\ \A u \in more : u.chunk \in all  BY <1>1, <1>2
<1>4. \A c \in all : c \in there \/ \E u \in more : u.chunk = c  BY <1>1, <1>2
<1>5. \A i \in 1 .. Len(up) : up[i] # <<>> => up[i] \in there \/ \E u \in more : u.chunk = up[i] /\ u.index + 1 < i
  BY <1>1, <1>2
<1> HIDE DEF v, more, all
<1>6. Backed(up, more, all, there)  BY <1>3, <1>4, <1>5 DEF Backed
<1> QED  BY <1>6 DEF v, more, all

(* An upload is over, and its chunk is there. *)
LEMMA BackedDone ==
    ASSUME NEW C, NEW up, NEW ups, NEW last \in Int, Uploading(C, up, ups, last), NEW known, NEW there,
           Backed(up, ups, known, there), NEW u \in ups, NEW new, Put(up, u.index + 1, u.chunk, new),
           NEW now, there \subseteq now, u.chunk \in now
    PROVE  Backed(new, ups \ {u}, known, now)
<1> DEFINE rest == ups \ {u}
<1>1. /\ known \subseteq Data /\ \A c \in known : c \in there \/ \E w \in ups : w.chunk = c
      /\ \A i \in 1 .. Len(up) : up[i] # <<>> => up[i] \in there \/ \E w \in ups : w.chunk = up[i] /\ w.index + 1 < i
      /\ \A w \in ups : w.chunk \in known
  BY DEF Backed
<1>2. u.index \in Nat /\ up \in Seq(Data) /\ Len(up) \in Nat
  <2>1. ups \subseteq [index : Nat, chunk : Data] /\ up \in Seq(Data)  BY DEF Uploading
  <2> QED  BY <2>1
<1>3. \A w \in ups : w = u \/ w \in rest  OBVIOUS
<1>4. \A c \in known : c \in now \/ \E w \in rest : w.chunk = c  BY <1>1, <1>3
<1>5. ASSUME NEW i \in 1 .. Len(new), new[i] # <<>>
      PROVE  new[i] \in now \/ \E w \in rest : w.chunk = new[i] /\ w.index + 1 < i
  <2>1. Len(new) \in Nat /\ new[i] = IF i = u.index + 1 THEN u.chunk ELSE IF i <= Len(up) THEN up[i] ELSE <<>>
    BY <1>2 DEF Put
  <2>2. CASE i = u.index + 1  BY <2>1, <2>2
  <2>3. CASE i # u.index + 1
    <3>1. i \in 1 .. Len(up) /\ new[i] = up[i]  BY <1>2, <1>5, <2>1, <2>3
    <3> QED  BY <1>1, <1>3, <1>5, <3>1
  <2> QED  BY <2>2, <2>3
<1>6. \A w \in rest : w.chunk \in known  BY <1>1
<1> HIDE DEF rest
<1>7. Backed(new, rest, known, now)  BY <1>1, <1>4, <1>5, <1>6 DEF Backed
<1> QED  BY <1>7 DEF rest

(* More chunks are there. *)
LEMMA BackedMore ==
    ASSUME NEW up, NEW ups, NEW known, NEW there, Backed(up, ups, known, there), NEW now, there \subseteq now
    PROVE  Backed(up, ups, known, now)
BY DEF Backed

(* What is left of the reported chunks when they are truncated is there. *)
LEMMA SavedStored ==
    ASSUME NEW C, NEW up, NEW ups, NEW last \in Int, Uploading(C, up, ups, last), NEW known, NEW there,
           Backed(up, ups, known, there)
    PROVE  Truncated(up) \in Seq(there)
<1> DEFINE T == Truncated(up)
<1>1. /\ up \in Seq(Data) /\ ups \subseteq [index : Nat, chunk : Data]
      /\ \A u \in ups : ~Reported(up, u.index + 1)
      /\ \A i \in 1 .. Len(up) : up[i] # <<>> => up[i] \in there \/ \E u \in ups : u.chunk = up[i] /\ u.index + 1 < i
  BY DEF Uploading, Backed
<1>2. T \in Seq(Data) /\ Extends(Data, T, up) /\ \A i \in 1 .. Len(T) : up[i] # <<>>  BY <1>1, TruncatedIs
<1> HIDE DEF T
<1>3. Len(T) \in Nat /\ Len(up) \in Nat /\ Len(T) <= Len(up) /\ \A i \in 1 .. Len(T) : up[i] = T[i]
  BY <1>1, <1>2 DEF Extends
<1>4. ASSUME NEW i \in 1 .. Len(T) PROVE T[i] \in there
  <2>1. i \in 1 .. Len(up) /\ up[i] # <<>> /\ up[i] = T[i]  BY <1>2, <1>3
  <2>2. ~\E u \in ups : u.chunk = up[i] /\ u.index + 1 < i
    <3>1. ASSUME NEW u \in ups, u.index + 1 < i PROVE FALSE
      <4>1. u.index \in Nat  BY <1>1
      <4>2. u.index + 1 \in 1 .. Len(T) /\ u.index + 1 <= Len(up)  BY <1>3, <3>1, <4>1
      <4>3. Reported(up, u.index + 1)  BY <1>2, <4>2 DEF Reported
      <4> QED  BY <1>1, <4>3
    <3> QED  BY <3>1
  <2> QED  BY <1>1, <2>1, <2>2
<1>5. T \in [1 .. Len(T) -> there]
  <2>1. DOMAIN T = 1 .. Len(T) /\ T = [i \in 1 .. Len(T) |-> T[i]]  BY <1>2
  <2> QED  BY <1>4, <2>1
<1>6. T \in Seq(there)  BY <1>3, <1>5
<1> QED  BY <1>6 DEF T

-----------------------------------------------------------------------------
(* Packing, and where the files are in what was read.                      *)

\* The j-th file is at its place in r, with the content that was recorded.
InPlace(mods, r, pos, j) ==
    /\ pos[j + 1] = pos[j] + (IF mods[j].size > 0 THEN mods[j].size ELSE 0)
    /\ mods[j].size > 0 /\ mods[j].hash # NoHash =>
          pos[j + 1] <= Len(r) /\ SubSeq(r, pos[j] + 1, pos[j + 1]) = mods[j].hash

\* What is known at any time.
Places(mods, k, rd, r, pos) ==
    /\ mods \in Seq(ModifiedType) /\ rd \in Data /\ r \in Data /\ k \in 1 .. Len(mods) + 1
    /\ pos \in [1 .. Len(mods) + 1 -> Nat] /\ pos[1] = 0
    /\ \A j \in 1 .. Len(mods) : InPlace(mods, r, pos, j)

\* The files from the k-th on are still to be packed.
Untouched(mods, k) == \A j \in k .. Len(mods) : mods[j].size = -1 /\ mods[j].hash = NoHash

(* The parts of Packing. *)
LEMMA PackingIs ==
    ASSUME NEW p, NEW mods, NEW k, NEW rd, NEW r, NEW pos
    PROVE  Packing(p, mods, k, rd, r, pos) <=>
              /\ Places(mods, k, rd, r, pos)
              /\ p \in {"pack", "read"} => Untouched(mods, k)
              /\ p = "hash" => Untouched(mods, k + 1)
              /\ p = "pack" => pos[k] = Len(r)
              /\ p \in {"read", "hash"} =>
                    k <= Len(mods) /\ pos[k] + Len(rd) = Len(r) /\ SubSeq(r, pos[k] + 1, Len(r)) = rd
              /\ p = "hash" => mods[k].size = Len(rd) /\ mods[k].hash = NoHash
BY Zenon DEF Packing, Places, InPlace, Untouched

(* Nothing was packed yet. *)
LEMMA PackStart ==
    ASSUME NEW mods \in Seq(ModifiedType), \A j \in 1 .. Len(mods) : mods[j].size = -1 /\ mods[j].hash = NoHash
    PROVE  \E pos : Packing("pack", mods, 1, <<>>, <<>>, pos)
<1> DEFINE pos == [j \in 1 .. Len(mods) + 1 |-> 0]
<1>1. Len(mods) \in Nat  OBVIOUS
<1>2. pos \in [1 .. Len(mods) + 1 -> Nat] /\ \A j \in 1 .. Len(mods) + 1 : pos[j] = 0  OBVIOUS
<1> HIDE DEF pos
<1>3. ASSUME NEW j \in 1 .. Len(mods) PROVE InPlace(mods, <<>>, pos, j)
  <2>1. j \in 1 .. Len(mods) + 1 /\ j + 1 \in 1 .. Len(mods) + 1 /\ mods[j].size = -1  BY <1>1
  <2> QED  BY <1>2, <2>1 DEF InPlace
<1>4. Places(mods, 1, <<>>, <<>>, pos)
  <2>1. <<>> \in Data /\ 1 \in 1 .. Len(mods) + 1  BY <1>1 DEF Data
  <2> QED  BY <1>2, <1>3, <2>1 DEF Places
<1>5. pos[1] = Len(<<>>) /\ Untouched(mods, 1)  BY <1>1, <1>2 DEF Untouched
<1>6. Packing("pack", mods, 1, <<>>, <<>>, pos)  BY <1>4, <1>5, PackingIs
<1> QED  BY <1>6

(* A file that is gone is passed over. *)
LEMMA PackSkip ==
    ASSUME NEW mods, NEW k, NEW rd, NEW r, NEW pos, Packing("pack", mods, k, rd, r, pos), k <= Len(mods)
    PROVE  Packing("pack", mods, k + 1, rd, r, pos)
<1>1. Places(mods, k, rd, r, pos) /\ Untouched(mods, k) /\ pos[k] = Len(r)  BY PackingIs
<1>2. k \in 1 .. Len(mods) /\ Len(mods) \in Nat /\ pos \in [1 .. Len(mods) + 1 -> Nat]  BY <1>1 DEF Places
<1>3. mods[k].size = -1 /\ InPlace(mods, r, pos, k)
  <2>1. k \in k .. Len(mods)  BY <1>2
  <2> QED  BY <1>1, <1>2, <2>1 DEF Places, Untouched
<1>4. pos[k + 1] = Len(r)
  <2>1. pos[k] \in Nat /\ pos[k + 1] = pos[k] + 0  BY <1>2, <1>3 DEF InPlace
  <2> QED  BY <1>1, <2>1
<1>5. Untouched(mods, k + 1)  BY <1>1, <1>2 DEF Untouched
<1>6. Places(mods, k + 1, rd, r, pos)
  <2>1. k + 1 \in 1 .. Len(mods) + 1  BY <1>2
  <2> QED  BY <1>1, <2>1 DEF Places
<1> QED  BY <1>4, <1>5, <1>6, PackingIs

(* The next file is read. *)
LEMMA PackOpen ==
    ASSUME NEW mods, NEW k, NEW rd, NEW r, NEW pos, Packing("pack", mods, k, rd, r, pos), k <= Len(mods), NEW d \in Data
    PROVE  Packing("read", mods, k, d, r \o d, pos)
<1>1. Places(mods, k, rd, r, pos) /\ Untouched(mods, k) /\ pos[k] = Len(r)  BY PackingIs
<1>2. /\ k \in 1 .. Len(mods) /\ Len(mods) \in Nat /\ pos \in [1 .. Len(mods) + 1 -> Nat] /\ mods \in Seq(ModifiedType)
      /\ pos[1] = 0 /\ \A j \in 1 .. Len(mods) : InPlace(mods, r, pos, j)
  BY <1>1 DEF Places
<1>3. r \in Seq(Nat) /\ d \in Seq(Nat)  BY <1>1 DEF Places, Data
<1>4. Extends(Nat, r, r \o d) /\ Len(r \o d) = Len(r) + Len(d) /\ r \o d \in Seq(Nat) /\ Len(r) \in Nat
      /\ Len(d) \in Nat
  BY <1>3, JoinExtends
<1>5. ASSUME NEW j \in 1 .. Len(mods) PROVE InPlace(mods, r \o d, pos, j)
  <2>1. /\ pos[j + 1] = pos[j] + (IF mods[j].size > 0 THEN mods[j].size ELSE 0)
        /\ mods[j].size > 0 /\ mods[j].hash # NoHash =>
              pos[j + 1] <= Len(r) /\ SubSeq(r, pos[j] + 1, pos[j + 1]) = mods[j].hash
    BY <1>2 DEF InPlace
  <2>2. CASE mods[j].size > 0 /\ mods[j].hash # NoHash
    <3>1. pos[j] \in Nat /\ pos[j + 1] \in Nat /\ pos[j] + 1 \in Nat /\ 1 <= pos[j] + 1  BY <1>2
    <3>2. pos[j + 1] <= Len(r) /\ SubSeq(r, pos[j] + 1, pos[j + 1]) = mods[j].hash  BY <2>1, <2>2
    <3>3. SubSeq(r \o d, pos[j] + 1, pos[j + 1]) = SubSeq(r, pos[j] + 1, pos[j + 1])
      <4> DEFINE q == r \o d
                 m == pos[j] + 1
                 n == pos[j + 1]
      <4>1. Extends(Nat, r, q) /\ r \in Seq(Nat) /\ m \in Nat /\ n \in Nat /\ 1 <= m /\ n <= Len(r)  BY <1>3, <1>4, <3>1, <3>2
      <4> HIDE DEF q, m, n
      <4>2. SubSeq(q, m, n) = SubSeq(r, m, n)  BY <4>1, SameBytes, SMTT(60)
      <4> QED  BY <4>2 DEF q, m, n
    <3>4. pos[j + 1] <= Len(r \o d)  BY <1>4, <3>1, <3>2
    <3> QED  BY <2>1, <3>2, <3>3, <3>4 DEF InPlace
  <2>3. CASE ~(mods[j].size > 0 /\ mods[j].hash # NoHash)  BY <2>1, <2>3, Zenon DEF InPlace
  <2> QED  BY <2>2, <2>3
<1>6. Places(mods, k, d, r \o d, pos)
  <2>1. k \in 1 .. Len(mods) + 1  BY <1>2
  <2>2. d \in Data /\ r \o d \in Data  BY <1>4 DEF Data
  <2> QED  BY <1>2, <1>5, <2>1, <2>2 DEF Places
<1>7. SubSeq(r \o d, Len(r) + 1, Len(r \o d)) = d
  <2> DEFINE b == SubSeq(r \o d, Len(r) + 1, Len(r \o d))
  <2>1. \A i \in Len(r) + 1 .. Len(r \o d) : (r \o d)[i] \in Nat /\ (r \o d)[i] = d[i - Len(r)]
    <3>1. ASSUME NEW i \in Len(r) + 1 .. Len(r \o d) PROVE (r \o d)[i] \in Nat /\ (r \o d)[i] = d[i - Len(r)]
      <4>1. i \in 1 .. Len(r \o d) /\ i \in 1 .. Len(r) + Len(d) /\ ~(i <= Len(r)) /\ i \in Nat  BY <1>4
      <4>2. (r \o d)[i] \in Nat  BY <1>4, <4>1
      <4>3. (r \o d)[i] = d[i - Len(r)]  BY <1>3, <4>1
      <4> QED  BY <4>2, <4>3
    <3> QED  BY <3>1
  <2>2. b \in Seq(Nat) /\ Len(b) = Len(d) /\ \A i \in 1 .. Len(d) : b[i] = (r \o d)[Len(r) + i]
    <3> DEFINE s == r \o d
               n == Len(s)
               m == Len(r) + 1
    <3>1. s \in Seq(Nat) /\ m \in 1 .. n + 1 /\ n \in Nat /\ n - m + 1 = Len(d) /\ n = Len(r) + Len(d)  BY <1>4
    <3>2. \A i \in m .. n : s[i] \in Nat  BY <2>1
    <3>3. m \in Int /\ n \in Int  BY <3>1
    <3> HIDE DEF s, n, m
    <3>4. /\ SubSeq(s, m, n) \in Seq(Nat) /\ Len(SubSeq(s, m, n)) = (IF m <= n THEN n - m + 1 ELSE 0)
          /\ \A i \in 1 .. n - m + 1 : SubSeq(s, m, n)[i] = s[m + i - 1]
      BY <3>2, <3>3, SubSeqProperties
    <3>5. Len(SubSeq(s, m, n)) = Len(d)  BY <3>1, <3>3, <3>4
    <3>6. \A i \in 1 .. Len(d) : m + i - 1 = Len(r) + i  BY <1>4 DEF m
    <3>7. \A i \in 1 .. Len(d) : SubSeq(s, m, n)[i] = s[Len(r) + i]  BY <3>1, <3>4, <3>6
    <3> QED  BY <3>4, <3>5, <3>7 DEF s, m, n
  <2> HIDE DEF b
  <2>3. \A i \in 1 .. Len(d) : b[i] = d[i]
    <3>1. ASSUME NEW i \in 1 .. Len(d) PROVE b[i] = d[i]
      <4>1. Len(r) + i \in Len(r) + 1 .. Len(r \o d) /\ (Len(r) + i) - Len(r) = i  BY <1>4
      <4> QED  BY <2>1, <2>2, <4>1
    <3> QED  BY <3>1
  <2>4. b = d  BY <1>3, <2>2, <2>3, SeqEqual
  <2> QED  BY <2>4 DEF b
<1>8. pos[k] + Len(d) = Len(r \o d) /\ SubSeq(r \o d, pos[k] + 1, Len(r \o d)) = d /\ k <= Len(mods)
  BY <1>1, <1>2, <1>4, <1>7
<1> QED  BY <1>1, <1>6, <1>8, PackingIs

\* new is mods with this size and hash in the k-th place.
Changed(mods, k, new, size, hash) ==
    /\ new \in Seq(ModifiedType) /\ Len(new) = Len(mods) /\ new[k].size = size /\ new[k].hash = hash
    /\ \A j \in 1 .. Len(mods) : j # k => new[j] = mods[j]

(* Changing the size or the hash of a file. *)
LEMMA SetField ==
    ASSUME NEW mods \in Seq(ModifiedType), NEW k \in 1 .. Len(mods), NEW size \in Int, NEW hash \in Data
    PROVE  /\ Changed(mods, k, [mods EXCEPT ![k].size = size], size, mods[k].hash)
           /\ Changed(mods, k, [mods EXCEPT ![k].hash = hash], mods[k].size, hash)
<1> DEFINE m == mods[k]
           a == [m EXCEPT !.size = size]
           b == [m EXCEPT !.hash = hash]
<1>1. m \in ModifiedType  OBVIOUS
<1>2. [mods EXCEPT ![k].size = size] = [mods EXCEPT ![k] = a] /\ [mods EXCEPT ![k].hash = hash] = [mods EXCEPT ![k] = b]
  BY Zenon
<1> HIDE DEF m
<1>3. a \in ModifiedType /\ a.size = size /\ a.hash = m.hash /\ b \in ModifiedType /\ b.hash = hash /\ b.size = m.size
  BY <1>1 DEF ModifiedType
<1> HIDE DEF a, b
<1>4. \A v \in ModifiedType : /\ [mods EXCEPT ![k] = v] \in Seq(ModifiedType) /\ Len([mods EXCEPT ![k] = v]) = Len(mods)
                              /\ [mods EXCEPT ![k] = v][k] = v
                              /\ \A j \in 1 .. Len(mods) : j # k => [mods EXCEPT ![k] = v][j] = mods[j]
  <2>1. ASSUME NEW v \in ModifiedType
        PROVE  /\ [mods EXCEPT ![k] = v] \in Seq(ModifiedType) /\ Len([mods EXCEPT ![k] = v]) = Len(mods)
               /\ [mods EXCEPT ![k] = v][k] = v
               /\ \A j \in 1 .. Len(mods) : j # k => [mods EXCEPT ![k] = v][j] = mods[j]
    <3> DEFINE n == [mods EXCEPT ![k] = v]
    <3>1. n \in Seq(ModifiedType) /\ Len(n) = Len(mods)  BY ExceptSeq
    <3>2. n[k] = v /\ \A j \in 1 .. Len(mods) : j # k => n[j] = mods[j]  OBVIOUS
    <3> QED  BY <3>1, <3>2
  <2> QED  BY <2>1
<1>5. \A v \in ModifiedType : Changed(mods, k, [mods EXCEPT ![k] = v], v.size, v.hash)
  <2>1. ASSUME NEW v \in ModifiedType PROVE Changed(mods, k, [mods EXCEPT ![k] = v], v.size, v.hash)
    <3> DEFINE n == [mods EXCEPT ![k] = v]
    <3>1. n \in Seq(ModifiedType) /\ Len(n) = Len(mods) /\ n[k] = v /\ \A j \in 1 .. Len(mods) : j # k => n[j] = mods[j]
      BY <1>4
    <3> HIDE DEF n
    <3>2. Changed(mods, k, n, v.size, v.hash)  BY <3>1 DEF Changed
    <3> QED  BY <3>2 DEF n
  <2> QED  BY <2>1
<1>6. Changed(mods, k, [mods EXCEPT ![k] = a], size, m.hash) /\ Changed(mods, k, [mods EXCEPT ![k] = b], m.size, hash)
  <2>1. Changed(mods, k, [mods EXCEPT ![k] = a], a.size, a.hash) /\ Changed(mods, k, [mods EXCEPT ![k] = b], b.size, b.hash)
    BY <1>3, <1>5
  <2>2. a.size = size /\ a.hash = m.hash /\ b.hash = hash /\ b.size = m.size  BY <1>3
  <2> QED  BY <2>1, <2>2, Zenon
<1> QED  BY <1>2, <1>6, Zenon DEF m

(* The size of the file is recorded. *)
LEMMA PackSize ==
    ASSUME NEW mods, NEW k, NEW rd, NEW r, NEW pos, Packing("read", mods, k, rd, r, pos)
    PROVE  /\ [mods EXCEPT ![k].size = Len(rd)] \in Seq(ModifiedType)
           /\ \E new : Packing("hash", [mods EXCEPT ![k].size = Len(rd)], k, rd, r, new)
<1> DEFINE now == [mods EXCEPT ![k].size = Len(rd)]
           new == [j \in 1 .. Len(mods) + 1 |-> IF j <= k THEN pos[j] ELSE pos[k] + Len(rd)]
<1>1. /\ Places(mods, k, rd, r, pos) /\ Untouched(mods, k) /\ k <= Len(mods) /\ pos[k] + Len(rd) = Len(r)
      /\ SubSeq(r, pos[k] + 1, Len(r)) = rd
  BY PackingIs
<1>2. /\ k \in 1 .. Len(mods) /\ Len(mods) \in Nat /\ pos \in [1 .. Len(mods) + 1 -> Nat] /\ mods \in Seq(ModifiedType)
      /\ pos[1] = 0 /\ \A j \in 1 .. Len(mods) : InPlace(mods, r, pos, j)
  BY <1>1 DEF Places
<1>3. Len(rd) \in Nat /\ rd \in Data /\ r \in Data /\ Len(r) \in Nat
  <2>1. rd \in Data /\ r \in Data  BY <1>1 DEF Places
  <2> QED  BY <2>1 DEF Data
<1>4. /\ now \in Seq(ModifiedType) /\ Len(now) = Len(mods) /\ now[k].size = Len(rd) /\ now[k].hash = mods[k].hash
      /\ \A j \in 1 .. Len(mods) : j # k => now[j] = mods[j]
  <2>1. Len(rd) \in Int /\ rd \in Data  BY <1>3
  <2>2. Changed(mods, k, now, Len(rd), mods[k].hash)  BY <1>2, <2>1, SetField
  <2> HIDE DEF now
  <2> QED  BY <2>2 DEF Changed
<1>5. /\ new \in [1 .. Len(mods) + 1 -> Nat]
      /\ \A j \in 1 .. Len(mods) + 1 : new[j] = IF j <= k THEN pos[j] ELSE pos[k] + Len(rd)
  BY <1>2, <1>3
<1> HIDE DEF now, new
<1>6. mods[k].size = -1 /\ mods[k].hash = NoHash
  <2>1. k \in k .. Len(mods)  BY <1>2
  <2> QED  BY <1>1, <2>1 DEF Untouched
<1>7. Untouched(now, k + 1)
  <2>1. \A j \in k + 1 .. Len(mods) : j \in k .. Len(mods) /\ j \in 1 .. Len(mods) /\ j # k  BY <1>2
  <2> QED  BY <1>1, <1>4, <2>1 DEF Untouched
<1>8. ASSUME NEW j \in 1 .. Len(now) PROVE InPlace(now, r, new, j)
  <2>1. /\ pos[j + 1] = pos[j] + (IF mods[j].size > 0 THEN mods[j].size ELSE 0)
        /\ mods[j].size > 0 /\ mods[j].hash # NoHash =>
              pos[j + 1] <= Len(r) /\ SubSeq(r, pos[j] + 1, pos[j + 1]) = mods[j].hash
    BY <1>2, <1>4 DEF InPlace
  <2>2. j \in 1 .. Len(mods) + 1 /\ j + 1 \in 1 .. Len(mods) + 1 /\ j \in 1 .. Len(mods)  BY <1>2, <1>4
  <2>3. CASE j < k
    <3>1. now[j] = mods[j] /\ new[j] = pos[j] /\ new[j + 1] = pos[j + 1]  BY <1>2, <1>4, <1>5, <2>2, <2>3
    <3> QED  BY <2>1, <3>1, Zenon DEF InPlace
  <2>4. CASE j = k
    <3>1. new[k] = pos[k] /\ new[k + 1] = pos[k] + Len(rd) /\ pos[k] \in Nat  BY <1>2, <1>5, <2>2, <2>4
    <3>2. new[k + 1] = new[k] + (IF now[k].size > 0 THEN now[k].size ELSE 0)  BY <1>3, <1>4, <3>1
    <3>3. now[k].hash = NoHash  BY <1>4, <1>6
    <3> QED  BY <2>4, <3>2, <3>3 DEF InPlace
  <2>5. CASE j > k
    <3>1. new[j] = pos[k] + Len(rd) /\ new[j + 1] = pos[k] + Len(rd) /\ now[j] = mods[j] /\ pos[k] \in Nat
      BY <1>2, <1>4, <1>5, <2>2, <2>5
    <3>2. now[j].size = -1
      <4>1. j \in k .. Len(mods)  BY <1>2, <2>2, <2>5
      <4> QED  BY <1>1, <3>1, <4>1 DEF Untouched
    <3>3. new[j + 1] = new[j] + 0  BY <1>3, <3>1
    <3> QED  BY <3>2, <3>3 DEF InPlace
  <2> QED  BY <1>2, <2>2, <2>3, <2>4, <2>5
<1>9. new[1] = 0 /\ new[k] = pos[k]  BY <1>2, <1>5
<1>10. Places(now, k, rd, r, new)
  <2>1. k \in 1 .. Len(now) + 1 /\ new \in [1 .. Len(now) + 1 -> Nat]  BY <1>2, <1>4, <1>5
  <2> QED  BY <1>3, <1>4, <1>8, <1>9, <2>1 DEF Places
<1>11. Packing("hash", now, k, rd, r, new)
  <2>1. k <= Len(now) /\ new[k] + Len(rd) = Len(r) /\ SubSeq(r, new[k] + 1, Len(r)) = rd  BY <1>1, <1>4, <1>9
  <2>2. now[k].size = Len(rd) /\ now[k].hash = NoHash  BY <1>4, <1>6
  <2> QED  BY <1>7, <1>10, <2>1, <2>2, PackingIs
<1> QED  BY <1>4, <1>11 DEF now

(* The hash of the file is recorded. *)
LEMMA PackHash ==
    ASSUME NEW mods, NEW k, NEW rd, NEW r, NEW pos, Packing("hash", mods, k, rd, r, pos)
    PROVE  /\ [mods EXCEPT ![k].hash = rd] \in Seq(ModifiedType)
           /\ Packing("pack", [mods EXCEPT ![k].hash = rd], k + 1, <<>>, r, pos)
<1> DEFINE now == [mods EXCEPT ![k].hash = rd]
<1>1. /\ Places(mods, k, rd, r, pos) /\ Untouched(mods, k + 1) /\ k <= Len(mods) /\ pos[k] + Len(rd) = Len(r)
      /\ SubSeq(r, pos[k] + 1, Len(r)) = rd /\ mods[k].size = Len(rd)
  BY PackingIs
<1>2. /\ k \in 1 .. Len(mods) /\ Len(mods) \in Nat /\ pos \in [1 .. Len(mods) + 1 -> Nat] /\ mods \in Seq(ModifiedType)
      /\ pos[1] = 0 /\ \A j \in 1 .. Len(mods) : InPlace(mods, r, pos, j)
  BY <1>1 DEF Places
<1>3. Len(rd) \in Nat /\ rd \in Data /\ r \in Data /\ Len(r) \in Nat
  <2>1. rd \in Data /\ r \in Data  BY <1>1 DEF Places
  <2> QED  BY <2>1 DEF Data
<1>4. /\ now \in Seq(ModifiedType) /\ Len(now) = Len(mods) /\ now[k].hash = rd /\ now[k].size = mods[k].size
      /\ \A j \in 1 .. Len(mods) : j # k => now[j] = mods[j]
  <2>1. 0 \in Int  OBVIOUS
  <2>2. Changed(mods, k, now, mods[k].size, rd)  BY <1>2, <1>3, <2>1, SetField
  <2> HIDE DEF now
  <2> QED  BY <2>2 DEF Changed
<1> HIDE DEF now
<1>5. Untouched(now, k + 1)
  <2>1. \A j \in k + 1 .. Len(mods) : j \in 1 .. Len(mods) /\ j # k  BY <1>2
  <2> QED  BY <1>1, <1>4, <2>1 DEF Untouched
<1>6. pos[k + 1] = Len(r) /\ pos[k] \in Nat
  <2>1. pos[k + 1] = pos[k] + (IF mods[k].size > 0 THEN mods[k].size ELSE 0) /\ pos[k] \in Nat  BY <1>2, SMTT(60) DEF InPlace
  <2> QED  BY <1>1, <1>3, <2>1
<1>7. ASSUME NEW j \in 1 .. Len(now) PROVE InPlace(now, r, pos, j)
  <2>1. /\ pos[j + 1] = pos[j] + (IF mods[j].size > 0 THEN mods[j].size ELSE 0)
        /\ mods[j].size > 0 /\ mods[j].hash # NoHash =>
              pos[j + 1] <= Len(r) /\ SubSeq(r, pos[j] + 1, pos[j + 1]) = mods[j].hash
    BY <1>2, <1>4 DEF InPlace
  <2>2. CASE j # k
    <3>1. now[j] = mods[j]  BY <1>4, <2>2
    <3> QED  BY <2>1, <3>1, Zenon DEF InPlace
  <2>3. CASE j = k
    <3>1. pos[k + 1] <= Len(r) /\ SubSeq(r, pos[k] + 1, pos[k + 1]) = now[k].hash  BY <1>1, <1>3, <1>4, <1>6
    <3>2. now[k].size = mods[k].size  BY <1>4
    <3> QED  BY <2>1, <2>3, <3>1, <3>2, Zenon DEF InPlace
  <2> QED  BY <2>2, <2>3
<1>8. Places(now, k + 1, <<>>, r, pos)
  <2>1. k + 1 \in 1 .. Len(now) + 1 /\ pos \in [1 .. Len(now) + 1 -> Nat]  BY <1>2, <1>4
  <2>2. <<>> \in Data  BY DEF Data
  <2> QED  BY <1>2, <1>3, <1>4, <1>7, <2>1, <2>2 DEF Places
<1>9. Packing("pack", now, k + 1, <<>>, r, pos)  BY <1>5, <1>6, <1>8, PackingIs
<1> QED  BY <1>4, <1>9 DEF now

(* Nothing is packed after a failure or at the end. *)
LEMMA PackStop ==
    ASSUME NEW p, NEW q \in {"failed", "delete"}, NEW mods, NEW k, NEW rd, NEW r, NEW pos, Packing(p, mods, k, rd, r, pos)
    PROVE  Packing(q, mods, k, rd, r, pos)
BY PackingIs

(* Where the files are in the chunks that begin what was read. *)
LEMMA LaidFrom ==
    ASSUME NEW p, NEW mods, NEW k, NEW rd, NEW r, NEW pos, Packing(p, mods, k, rd, r, pos),
           NEW T \in Seq(Data), Extends(Nat, FlattenSeq(T), r), FlattenSeq(T) \in Data
    PROVE  LaidIn(mods, T, pos)
<1> DEFINE t == FlattenSeq(T)
<1>1. Places(mods, k, rd, r, pos)  BY PackingIs
<1>2. /\ pos \in [1 .. Len(mods) + 1 -> Nat] /\ pos[1] = 0 /\ \A j \in 1 .. Len(mods) : InPlace(mods, r, pos, j)
      /\ Len(mods) \in Nat
  <2>1. mods \in Seq(ModifiedType) /\ pos \in [1 .. Len(mods) + 1 -> Nat] /\ pos[1] = 0
        /\ \A j \in 1 .. Len(mods) : InPlace(mods, r, pos, j)
    BY <1>1 DEF Places
  <2> QED  BY <2>1
<1>3. t \in Seq(Nat) /\ Extends(Nat, t, r)  BY DEF Data
<1> HIDE DEF t
<1>4. ASSUME NEW j \in 1 .. Len(mods)
      PROVE  /\ pos[j + 1] = pos[j] + (IF mods[j].size > 0 THEN mods[j].size ELSE 0)
             /\ mods[j].size > 0 /\ mods[j].hash # NoHash /\ pos[j + 1] <= Len(t) =>
                   SubSeq(t, pos[j] + 1, pos[j + 1]) = mods[j].hash
  <2>1. pos[j] + 1 \in Nat /\ pos[j + 1] \in Nat /\ 1 <= pos[j] + 1  BY <1>2
  <2>2. pos[j + 1] <= Len(t) => SubSeq(r, pos[j] + 1, pos[j + 1]) = SubSeq(t, pos[j] + 1, pos[j + 1])
    <3> DEFINE m == pos[j] + 1
               n == pos[j + 1]
    <3>1. m \in Nat /\ n \in Nat /\ 1 <= m  BY <2>1
    <3> HIDE DEF m, n
    <3>2. n <= Len(t) => SubSeq(r, m, n) = SubSeq(t, m, n)  BY <1>3, <3>1, SameBytes, ZenonT(60)
    <3> QED  BY <3>2 DEF m, n
  <2> QED  BY <1>2, <2>2 DEF InPlace
<1> QED  BY <1>2, <1>4, Zenon DEF LaidIn, t

(* What is saved of the files and chunks fits together. *)
LEMMA SavedLaid ==
    ASSUME NEW C, NEW up, NEW ups, NEW last \in Int, Uploading(C, up, ups, last), NEW b \in Data,
           NEW p, NEW mods, NEW k, NEW rd, NEW pos, Packing(p, mods, k, rd, FlattenSeq(C) \o b, pos)
    PROVE  LaidIn(mods, Truncated(up), pos)
<1> DEFINE T == Truncated(up)
           c == FlattenSeq(C)
           r == c \o b
<1>1. /\ C \in Seq(Data) /\ up \in Seq(Data) /\ Len(up) <= Len(C)
      /\ \A i \in 1 .. Len(up) : up[i] # <<>> => up[i] = C[i]
  BY DEF Uploading
<1>2. T \in Seq(Data) /\ Extends(Data, T, up) /\ \A i \in 1 .. Len(T) : up[i] # <<>>  BY <1>1, TruncatedIs
<1> HIDE DEF T
<1>3. Extends(Data, T, C)
  <2>1. Len(T) \in Nat /\ Len(up) \in Nat /\ Len(C) \in Nat /\ Len(T) <= Len(up) /\ \A i \in 1 .. Len(T) : up[i] = T[i]
    BY <1>1, <1>2 DEF Extends
  <2>2. \A i \in 1 .. Len(T) : i \in 1 .. Len(up)  BY <2>1
  <2>3. \A i \in 1 .. Len(T) : C[i] = T[i]  BY <1>1, <1>2, <2>1, <2>2
  <2>4. Len(T) <= Len(C)  BY <1>1, <2>1
  <2> QED  BY <1>1, <2>1, <2>3, <2>4 DEF Extends
<1>4. Extends(Nat, FlattenSeq(T), c) /\ FlattenSeq(T) \in Data /\ c \in Data  BY <1>2, <1>3, FlattenExtends
<1> HIDE DEF c
<1>5. Extends(Nat, c, r)
  <2>1. c \in Seq(Nat) /\ b \in Seq(Nat)  BY <1>4 DEF Data
  <2> QED  BY <2>1, JoinExtends
<1>6. Packing(p, mods, k, rd, r, pos)  BY DEF c
<1> HIDE DEF r
<1>7. Extends(Nat, FlattenSeq(T), r)
  <2>1. FlattenSeq(T) \in Seq(Nat)  BY <1>4 DEF Data
  <2> QED  BY <1>4, <1>5, <2>1, ExtendsOn
<1>8. LaidIn(mods, T, pos)  BY <1>2, <1>4, <1>6, <1>7, LaidFrom
<1> QED  BY <1>8 DEF T

(* A chunk is cut off the buffer. *)
LEMMA Cutting ==
    ASSUME NEW C \in Seq(Data), NEW b \in Data, NEW n \in 1 .. Len(b)
    PROVE  /\ SubSeq(b, 1, n) \in Data /\ SubSeq(b, 1, n) # <<>> /\ SubSeq(b, n + 1, Len(b)) \in Data
           /\ FlattenSeq(Append(C, SubSeq(b, 1, n))) \o SubSeq(b, n + 1, Len(b)) = FlattenSeq(C) \o b
<1> DEFINE x == SubSeq(b, 1, n)
           y == SubSeq(b, n + 1, Len(b))
           c == FlattenSeq(C)
<1>1. b \in Seq(Nat) /\ Len(b) \in Nat /\ n \in Nat /\ n >= 1 /\ n <= Len(b)
  <2>1. b \in Seq(Nat)  BY DEF Data
  <2>2. Len(b) \in Nat  BY <2>1
  <2> QED  BY <2>1, <2>2
<1>2. x \in Seq(Nat) /\ Len(x) = n /\ \A i \in 1 .. n : x[i] = b[i]
  <2>1. \A i \in 1 .. n : b[i] \in Nat  BY <1>1
  <2>2. 1 \in Int /\ n \in Int /\ n - 1 + 1 = n  BY <1>1
  <2>3. /\ x \in Seq(Nat) /\ Len(x) = (IF 1 <= n THEN n - 1 + 1 ELSE 0)
        /\ \A i \in 1 .. n - 1 + 1 : x[i] = b[1 + i - 1]
    BY <2>1, <2>2, SubSeqProperties
  <2>4. \A i \in 1 .. n : 1 + i - 1 = i /\ i \in 1 .. n - 1 + 1  BY <1>1
  <2> HIDE DEF x
  <2> QED  BY <1>1, <2>2, <2>3, <2>4
<1>3. x # <<>>  BY <1>1, <1>2
<1>4. Extends(Nat, x, b)
  <2> HIDE DEF x
  <2> QED  BY <1>1, <1>2, SMTT(60) DEF Extends
<1>5. y \in Seq(Nat) /\ x \o y = b
  <2>1. 1 \in 1 .. Len(b) + 1 /\ n \in 1 - 1 .. Len(b) /\ Len(b) \in n .. Len(b) /\ SubSeq(b, 1, Len(b)) = b
    BY <1>1, SubSeqFull, SMTT(60)
  <2>2. x \o y = SubSeq(b, 1, Len(b))  BY <1>1, <2>1, ConcatAdjacentSubSeq, ZenonT(60)
  <2>3. \A i \in n + 1 .. Len(b) : b[i] \in Nat  BY <1>1
  <2>4. n + 1 \in Int /\ Len(b) \in Int  BY <1>1
  <2>5. y \in Seq(Nat)  BY <2>3, <2>4, SubSeqProperties
  <2> QED  BY <2>1, <2>2, <2>5, ZenonT(60)
<1> HIDE DEF x, y
<1>6. c \in Seq(Nat) /\ FlattenSeq(Append(C, x)) = c \o x
  <2>1. <<>> \in Seq(Nat)  OBVIOUS
  <2> QED  BY <1>2, FlattenAppend DEF Data
<1> HIDE DEF c
<1>7. (c \o x) \o y = c \o (x \o y)  BY <1>2, <1>5, <1>6, Joined
<1> QED  BY <1>2, <1>3, <1>5, <1>6, <1>7 DEF x, y, c, Data

(* A list with other modified files. *)
LEMMA WithModified ==
    ASSUME NEW l \in Lists, NEW mods \in Seq(ModifiedType)
    PROVE  /\ [l EXCEPT !.modified = mods] \in Lists /\ [l EXCEPT !.modified = mods].modified = mods
           /\ \A f \in {"token", "entries", "preserved", "uploaded"} : [l EXCEPT !.modified = mods][f] = l[f]
BY DEF Lists

-----------------------------------------------------------------------------
(* The inductive invariant.                                                *)

\* The chunks a backup builds on: but for those that it took over unasked they are there.
Safe == stored \cup unasked

\* The chunks that were uploaded.
Ever == stored \cup pruned

\* The latest snapshot can be read, in chunks that are safe.
SnapshotInv ==
    /\ Ever \subseteq Data /\ unasked \subseteq pruned
    /\ snapshot \in [revision : Nat, entries : Seq(EntryType), chunks : Seq(Safe)]
    /\ \E end : Coded(snapshot.chunks, snapshot.entries, end)
    /\ snapshot.revision <= runs /\ (pc \notin {"idle", "delete"} => snapshot.revision < runs)
    /\ snapshot.revision = 0 => snapshot.chunks = <<>>

CompleteIn(entries, chunks) == \A k \in DOMAIN entries : IsComplete(entries[k]) => Placed(chunks, entries[k])

\* So can an incomplete snapshot: its two files belong together if their tokens are the same.
SavedInv ==
    /\ incFiles \in [token : 0 .. runs, entries : Seq(EntryType)]
    /\ incChunks \in [token : 0 .. runs, modified : Seq(ModifiedType), preserved : Seq(Data), uploaded : Seq(Data), valid : BOOLEAN]
    /\ \E pos : LaidIn(incChunks.modified, Truncated(incChunks.uploaded), pos)
    /\ incFiles.token > 0 /\ incChunks.token = incFiles.token => CompleteIn(incFiles.entries, incChunks.preserved)
    /\ HasIncomplete => Chunks(loadIncompleteSnapshot) \in Seq(Ever)

\* The list of the backup under way, and what it saved of it.
ListInv ==
    /\ list \in Lists /\ list.token = runs /\ runs > 0 /\ list.preserved \in Seq(Safe) /\ KeptRight(list)
    /\ incChunks.token < runs /\ (incFiles.token = runs => CompleteIn(incFiles.entries, list.preserved))

\* Its goroutines.
StepInv ==
    /\ pc \in {"pack", "read", "hash", "failed", "delete"}
    /\ buffer \in Data /\ chunkIndex \in Int /\ hashMode \in BOOLEAN
    /\ saving \in [step : {"no", "files", "sum", "chunks"}, sum : Seq(ModifiedType)]
    /\ pc = "delete" => saving.step = "no" /\ uploads = {} /\ snapshot.revision > 0

\* What it read, cut into chunks and uploaded.
PackInv ==
    /\ Backed(list.uploaded, uploads, cache, Safe) /\ Cardinality(uploads) <= Threads
    /\ \E C : /\ Uploading(C, list.uploaded, uploads, chunkIndex)
              /\ \E pos : Packing(pc, list.modified, at, read, FlattenSeq(C) \o buffer, pos)

Running == ListInv /\ StepInv /\ PackInv

IInv ==
    /\ FilesOK /\ changes \in 0 .. MaxChanges /\ runs \in 0 .. MaxRuns
    /\ SnapshotInv /\ SavedInv
    /\ pc = "idle" => NoProcess
    /\ pc # "idle" => Running

\* What a step may do to the storage while a backup runs.
StoreGrows == Safe \subseteq Safe' /\ Ever \subseteq Ever' /\ Ever' \subseteq Data /\ unasked' \subseteq pruned'

(* Nothing is uploaded. *)
LEMMA StoreKept ==
    ASSUME SnapshotInv, stored' = stored, history' = history
    PROVE  StoreGrows /\ Safe' = Safe /\ Ever' = Ever
BY DEF StoreGrows, Safe, Ever, SnapshotInv, history

(* Chunks are uploaded, some of them again. *)
LEMMA StoreMore ==
    ASSUME SnapshotInv, NEW chunks \in SUBSET Data, Store(chunks)
    PROVE  StoreGrows /\ chunks \subseteq Safe'
BY DEF StoreGrows, Safe, Ever, SnapshotInv, Store

(* A sequence of chunks that are all in a set. *)
LEMMA AllIn ==
    ASSUME NEW S, NEW T, NEW c \in Seq(S), \A i \in DOMAIN c : c[i] \in T
    PROVE  c \in Seq(T)
<1>1. DOMAIN c = 1 .. Len(c) /\ Len(c) \in Nat /\ c = [i \in 1 .. Len(c) |-> c[i]]  OBVIOUS
<1>2. c \in [1 .. Len(c) -> T]  BY <1>1
<1> QED  BY <1>1, <1>2

(* The chunks that are safe were uploaded, and are chunks. *)
LEMMA SafeData ==
    ASSUME SnapshotInv
    PROVE  Safe \subseteq Ever /\ Ever \subseteq Data /\ Safe \subseteq Data
BY DEF Safe, Ever, SnapshotInv

(* A snapshot and an incomplete one without entries. *)
LEMMA Nothing ==
    Coded(<<>>, <<>>, 0) /\ \E pos : LaidIn(<<>>, Truncated(<<>>), pos)
<1>1. Coded(<<>>, <<>>, 0)
  <2> DEFINE ends == [k \in 0 .. 0 |-> 0]
  <2>1. ends \in [0 .. Len(<<>>) -> Int] /\ ends[0] = 0 /\ ends[Len(<<>>)] = 0  OBVIOUS
  <2> HIDE DEF ends
  <2>2. \A k \in 1 .. Len(<<>>) : FALSE  OBVIOUS
  <2>3. CodedWith(<<>>, <<>>, 0, ends)  BY <2>1, <2>2 DEF CodedWith, Ends
  <2> QED  BY <2>3 DEF Coded
<1>2. Truncated(<<>>) = <<>>
  <2>1. <<>> \in Seq(Data) /\ \A i \in 1 .. Len(<<>>) : FALSE  OBVIOUS
  <2> QED  BY <2>1, TruncatedIs
<1>3. \E pos : LaidIn(<<>>, <<>>, pos)
  <2> DEFINE pos == [j \in 1 .. 1 |-> 0]
  <2>1. pos \in [1 .. Len(<<>>) + 1 -> Nat] /\ pos[1] = 0  OBVIOUS
  <2>2. \A j \in 1 .. Len(<<>>) : FALSE  OBVIOUS
  <2> HIDE DEF pos
  <2>3. LaidIn(<<>>, <<>>, pos)  BY <2>1, <2>2 DEF LaidIn
  <2> QED  BY <2>3
<1> QED  BY <1>1, <1>2, <1>3

(* No incomplete snapshot. *)
LEMMA NothingSaved ==
    /\ NoFiles \in [token : {0}, entries : Seq(EntryType)]
    /\ NoChunks \in [token : {0}, modified : Seq(ModifiedType), preserved : Seq(Data), uploaded : Seq(Data), valid : BOOLEAN]
    /\ NoFiles.token = 0 /\ NoChunks.modified = <<>> /\ NoChunks.uploaded = <<>>
BY DEF NoFiles, NoChunks

(* The first state. *)
LEMMA InitInv == Init => IInv
<1> SUFFICES ASSUME Init PROVE IInv  OBVIOUS
<1>1. /\ present = Paths /\ data \in FirstData /\ time = [i \in Inodes |-> 0] /\ changes = 0
      /\ stored = {} /\ snapshot = NoSnapshot /\ incFiles = NoFiles /\ incChunks = NoChunks /\ runs = 0 /\ NoProcess
      /\ pruned = {} /\ unasked = {}
  BY DEF Init
<1>2. FilesOK  BY <1>1, BackupAssumption DEF FilesOK
<1>3. changes \in 0 .. MaxChanges /\ runs \in 0 .. MaxRuns  BY <1>1, BackupAssumption
<1>4. pc = "idle"  BY <1>1 DEF NoProcess
<1>5. SnapshotInv
  <2>1. snapshot = [revision |-> 0, entries |-> <<>>, chunks |-> <<>>]  BY <1>1 DEF NoSnapshot
  <2>2. /\ snapshot \in [revision : Nat, entries : Seq(EntryType), chunks : Seq(Safe)]
        /\ snapshot.revision = 0 /\ snapshot.chunks = <<>> /\ snapshot.entries = <<>>
    BY <2>1
  <2>3. Ever = {} /\ unasked \subseteq pruned  BY <1>1 DEF Ever
  <2> QED  BY <1>1, <1>4, <2>2, <2>3, Nothing DEF SnapshotInv
<1>6. SavedInv
  <2>1. incFiles.token = 0 /\ incChunks.modified = <<>> /\ incChunks.uploaded = <<>>  BY <1>1, NothingSaved
  <2>2. /\ incFiles \in [token : 0 .. runs, entries : Seq(EntryType)]
        /\ incChunks \in [token : 0 .. runs, modified : Seq(ModifiedType), preserved : Seq(Data), uploaded : Seq(Data), valid : BOOLEAN]
    BY <1>1, NothingSaved
  <2>3. ~HasIncomplete  BY <2>1 DEF HasIncomplete
  <2> QED  BY <2>1, <2>2, <2>3, Nothing DEF SavedInv
<1> QED  BY <1>1, <1>2, <1>3, <1>4, <1>5, <1>6 DEF IInv

(* What the changes of files leave alone. *)
LEMMA ProcessKept ==
    ASSUME IInv, UNCHANGED <<stored, snapshot, incFiles, incChunks, runs, process, history>>, FilesOK', (changes \in 0 .. MaxChanges)'
    PROVE  IInv'
<1>1. /\ stored' = stored /\ history' = history /\ snapshot' = snapshot /\ incFiles' = incFiles /\ incChunks' = incChunks /\ runs' = runs
      /\ pc' = pc /\ list' = list /\ cache' = cache /\ buffer' = buffer /\ at' = at /\ read' = read
      /\ chunkIndex' = chunkIndex /\ uploads' = uploads /\ hashMode' = hashMode /\ saving' = saving
      /\ pruned' = pruned /\ unasked' = unasked
  BY DEF process, history
<1>2. Safe' = Safe /\ Ever' = Ever  BY <1>1 DEF Safe, Ever
<1>3. SnapshotInv' <=> SnapshotInv  BY <1>1, <1>2 DEF SnapshotInv
<1>4. HasIncomplete' = HasIncomplete /\ loadIncompleteSnapshot' = loadIncompleteSnapshot
  BY <1>1 DEF HasIncomplete, loadIncompleteSnapshot
<1>5. SavedInv' <=> SavedInv  BY <1>1, <1>2, <1>4, Zenon DEF SavedInv
<1>6. NoProcess' <=> NoProcess  BY <1>1 DEF NoProcess
<1>7. ListInv' <=> ListInv  BY <1>1, <1>2, Zenon DEF ListInv
<1>8. StepInv' <=> StepInv  BY <1>1, Zenon DEF StepInv
<1>9. PackInv' <=> PackInv  BY <1>1, <1>2, Zenon DEF PackInv
<1>10. Running' <=> Running  BY <1>7, <1>8, <1>9 DEF Running
<1> QED  BY <1>1, <1>3, <1>5, <1>6, <1>10 DEF IInv

(* Files are changed and removed. *)
LEMMA ChangeStep ==
    ASSUME IInv, NEW i \in Inodes, NEW content \in Contents, ChangeFile(i, content)
    PROVE  IInv'
<1>1. /\ changes < MaxChanges /\ data' = [data EXCEPT ![i] = content] /\ time' = [time EXCEPT ![i] = 2 * (changes + 1)]
      /\ changes' = changes + 1 /\ present' = present
      /\ UNCHANGED <<stored, snapshot, incFiles, incChunks, runs, process, history>>
  BY DEF ChangeFile
<1>2. FilesOK /\ changes \in 0 .. MaxChanges  BY DEF IInv
<1>3. (changes \in 0 .. MaxChanges)'  BY <1>1, <1>2, BackupAssumption
<1>4. FilesOK'  BY <1>1, <1>2, BackupAssumption DEF FilesOK
<1> QED  BY <1>1, <1>3, <1>4, ProcessKept

(* A file disappears: nothing the backup has read changes. *)
LEMMA RemoveStep ==
    ASSUME IInv, NEW p \in Paths, RemovePath(p)
    PROVE  IInv'
<1>1. /\ changes < MaxChanges /\ data' = data /\ time' = time /\ present' = present \ {p}
      /\ changes' = changes + 1
      /\ UNCHANGED <<stored, snapshot, incFiles, incChunks, runs, process, history>>
  BY DEF RemovePath
<1>2. FilesOK /\ changes \in 0 .. MaxChanges  BY DEF IInv
<1>3. (changes \in 0 .. MaxChanges)'  BY <1>1, <1>2, BackupAssumption
<1>4. FilesOK'  BY <1>1, <1>2 DEF FilesOK
<1> QED  BY <1>1, <1>3, <1>4, ProcessKept

(* The latest snapshot is still there when chunks are added. *)
LEMMA SnapshotKept ==
    ASSUME SnapshotInv, snapshot' = snapshot, runs' = runs, StoreGrows,
           pc' \notin {"idle", "delete"} => pc \notin {"idle", "delete"}
    PROVE  SnapshotInv'
<1>1. Safe \subseteq Safe' /\ Ever' \subseteq Data /\ unasked' \subseteq pruned'  BY DEF StoreGrows
<1>2. snapshot \in [revision : Nat, entries : Seq(EntryType), chunks : Seq(Safe)]  BY DEF SnapshotInv
<1>3. snapshot.chunks \in Seq(Safe')
  <2>1. snapshot.chunks \in Seq(Safe)  BY <1>2
  <2> QED  BY <1>1, <2>1, SeqMonotonic
<1>4. snapshot \in [revision : Nat, entries : Seq(EntryType), chunks : Seq(Safe')]  BY <1>2, <1>3
<1> QED  BY <1>1, <1>4 DEF SnapshotInv

(* So is what was saved. *)
LEMMA SavedKept ==
    ASSUME SavedInv, incFiles' = incFiles, incChunks' = incChunks, runs' = runs, Ever \subseteq Ever'
    PROVE  SavedInv'
<1>1. HasIncomplete' = HasIncomplete /\ loadIncompleteSnapshot' = loadIncompleteSnapshot
  BY DEF HasIncomplete, loadIncompleteSnapshot
<1>2. HasIncomplete => Chunks(loadIncompleteSnapshot) \in Seq(Ever)  BY DEF SavedInv
<1>3. HasIncomplete => Chunks(loadIncompleteSnapshot) \in Seq(Ever')  BY <1>2, SeqMonotonic
<1> QED  BY <1>1, <1>3 DEF SavedInv

(* After a step of the goroutines that only adds chunks. *)
LEMMA StillRunning ==
    ASSUME IInv, pc \notin {"idle", "delete"}, files' = files, snapshot' = snapshot, incChunks' = incChunks,
           runs' = runs, StoreGrows,
           list' \in Lists, \A f \in {"token", "entries", "preserved"} : list'[f] = list[f],
           incFiles' \in [token : 0 .. runs, entries : Seq(EntryType)],
           incFiles' = incFiles \/ (incFiles'.token = runs /\ CompleteIn(incFiles'.entries, list.preserved)),
           pc' \notin {"idle", "delete"}, StepInv', PackInv'
    PROVE  IInv'
<1>1. SnapshotInv /\ SavedInv /\ ListInv /\ FilesOK /\ changes \in 0 .. MaxChanges /\ runs \in 0 .. MaxRuns
  BY DEF IInv, Running
<1>2. (FilesOK /\ changes \in 0 .. MaxChanges /\ runs \in 0 .. MaxRuns)'  BY <1>1 DEF FilesOK, files
<1>3. SnapshotInv' /\ Safe \subseteq Safe' /\ Ever \subseteq Ever'  BY <1>1, SnapshotKept DEF StoreGrows
<1>4. /\ list.token = runs /\ runs > 0 /\ list.preserved \in Seq(Safe) /\ KeptRight(list)
      /\ incChunks.token < runs /\ (incFiles.token = runs => CompleteIn(incFiles.entries, list.preserved))
  BY <1>1 DEF ListInv
<1>5. list'.token = list.token /\ list'.entries = list.entries /\ list'.preserved = list.preserved  OBVIOUS
<1>6. ListInv'
  <2>1. list'.preserved \in Seq(Safe')  BY <1>3, <1>4, <1>5, SeqMonotonic
  <2>2. KeptRight(list')  BY <1>4, <1>5 DEF KeptRight
  <2>3. incFiles'.token = runs => CompleteIn(incFiles'.entries, list.preserved)  BY <1>4
  <2> QED  BY <1>4, <1>5, <2>1, <2>2, <2>3 DEF ListInv
<1>7. SavedInv'
  <2>1. CASE incFiles' = incFiles  BY <1>1, <1>3, <2>1, SavedKept
  <2>2. CASE incFiles'.token = runs
    <3>1. incChunks'.token # incFiles'.token
      <4>1. incChunks.token \in Int /\ runs \in Int  BY <1>1 DEF SavedInv
      <4> QED  BY <1>4, <2>2, <4>1
    <3>2. ~HasIncomplete'  BY <3>1 DEF HasIncomplete
    <3>3. /\ incFiles' \in [token : 0 .. runs', entries : Seq(EntryType)]
          /\ incChunks' \in [token : 0 .. runs', modified : Seq(ModifiedType), preserved : Seq(Data), uploaded : Seq(Data), valid : BOOLEAN]
          /\ \E pos : LaidIn(incChunks'.modified, Truncated(incChunks'.uploaded), pos)
      BY <1>1 DEF SavedInv
    <3> QED  BY <3>1, <3>2, <3>3 DEF SavedInv
  <2> QED  BY <2>1, <2>2
<1> QED  BY <1>2, <1>3, <1>6, <1>7 DEF IInv, Running

(* After the end of the process, killed or not. *)
LEMMA ExitStep ==
    ASSUME IInv, Exit, files' = files, snapshot' = snapshot, runs' = runs, StoreGrows, SavedInv'
    PROVE  IInv'
<1>1. SnapshotInv /\ FilesOK /\ changes \in 0 .. MaxChanges /\ runs \in 0 .. MaxRuns  BY DEF IInv
<1>2. (FilesOK /\ changes \in 0 .. MaxChanges /\ runs \in 0 .. MaxRuns)'  BY <1>1 DEF FilesOK, files
<1>3. pc' = "idle" /\ NoProcess'  BY DEF Exit, NoProcess
<1>4. SnapshotInv'  BY <1>1, <1>3, SnapshotKept
<1> QED  BY <1>2, <1>3, <1>4 DEF IInv

(* The next file is opened, or is gone. *)
LEMMA OpenStep ==
    ASSUME IInv, OpenFile
    PROVE  IInv'
<1>1. /\ pc = "pack" /\ at <= Len(list.modified) /\ files' = files /\ stored' = stored /\ history' = history /\ snapshot' = snapshot
      /\ incFiles' = incFiles /\ incChunks' = incChunks /\ runs' = runs /\ list' = list /\ cache' = cache
      /\ chunkIndex' = chunkIndex /\ uploads' = uploads /\ hashMode' = hashMode /\ saving' = saving
  BY DEF OpenFile, Modified
<1>2. SnapshotInv /\ SavedInv /\ ListInv /\ StepInv /\ PackInv /\ FilesOK  BY <1>1 DEF IInv, Running
<1>3. Safe' = Safe  BY <1>1 DEF Safe, history
<1>4. PICK C : /\ Uploading(C, list.uploaded, uploads, chunkIndex)
               /\ \E pos : Packing(pc, list.modified, at, read, FlattenSeq(C) \o buffer, pos)
  BY <1>2 DEF PackInv
<1>5. PICK pos : Packing("pack", list.modified, at, read, FlattenSeq(C) \o buffer, pos)  BY <1>1, <1>4
<1> DEFINE p == list.modified[at].path
<1>6. at \in 1 .. Len(list.modified) /\ list.modified \in Seq(ModifiedType)
  <2>1. Places(list.modified, at, read, FlattenSeq(C) \o buffer, pos)  BY <1>5, PackingIs
  <2>2. list.modified \in Seq(ModifiedType) /\ at \in 1 .. Len(list.modified) + 1  BY <2>1 DEF Places
  <2> QED  BY <1>1, <2>2
<1>7. p \in Paths
  <2>1. list.modified[at] \in ModifiedType
    <3> DEFINE m == list.modified
    <3>1. m \in Seq(ModifiedType) /\ at \in 1 .. Len(m)  BY <1>6
    <3> HIDE DEF m
    <3>2. m[at] \in ModifiedType  BY <3>1
    <3> QED  BY <3>2 DEF m
  <2> QED  BY <2>1 DEF ModifiedType
<1>8. Backed(list'.uploaded, uploads', cache', Safe') /\ Cardinality(uploads') <= Threads  BY <1>1, <1>2, <1>3 DEF PackInv
<1>9. pc' \in {"pack", "read"} /\ StepInv' /\ PackInv'
  <2>1. CASE Vanished(p)
    <3>1. at' = at + 1 /\ pc' = pc /\ buffer' = buffer /\ read' = read  BY <2>1 DEF OpenFile, Modified
    <3>2. Packing("pack", list.modified, at + 1, read, FlattenSeq(C) \o buffer, pos)  BY <1>1, <1>5, PackSkip
    <3>3. Uploading(C, list'.uploaded, uploads', chunkIndex')
          /\ \E q : Packing(pc', list'.modified, at', read', FlattenSeq(C) \o buffer', q)
      BY <1>1, <1>4, <3>1, <3>2
    <3>4. PackInv'  BY <1>8, <3>3 DEF PackInv
    <3>5. StepInv'  BY <1>1, <1>2, <3>1 DEF StepInv
    <3> QED  BY <1>1, <3>1, <3>4, <3>5
  <2>2. CASE ~Vanished(p)
    <3> DEFINE d == data[Inode[p]]
    <3>1. pc' = "read" /\ read' = d /\ buffer' = buffer \o d /\ at' = at  BY <2>2, ZenonT(60) DEF OpenFile, Modified
    <3>2. d \in Data
      <4>1. d \in Contents  BY <1>2, <1>7 DEF FilesOK, Inodes
      <4>2. d \in Seq(Nat \ {0})  BY <4>1, BackupAssumption
      <4>3. Nat \ {0} \subseteq Nat  OBVIOUS
      <4> QED  BY <4>2, <4>3, SeqMonotonic DEF Data
    <3> HIDE DEF d
    <3>3. Packing("read", list.modified, at, d, (FlattenSeq(C) \o buffer) \o d, pos)  BY <1>1, <1>5, <3>2, PackOpen
    <3>4. buffer \o d \in Data /\ (FlattenSeq(C) \o buffer) \o d = FlattenSeq(C) \o (buffer \o d)
      <4>1. C \in Seq(Data) /\ buffer \in Data  BY <1>2, <1>4 DEF Uploading, StepInv
      <4>2. FlattenSeq(C) \in Data
        <5>1. <<>> \in Seq(Nat)  OBVIOUS
        <5> QED  BY <4>1, <5>1, FlattenAppend DEF Data
      <4> DEFINE c == FlattenSeq(C)
      <4>3. c \in Seq(Nat) /\ buffer \in Seq(Nat) /\ d \in Seq(Nat)  BY <3>2, <4>1, <4>2 DEF Data
      <4> HIDE DEF c
      <4>4. buffer \o d \in Seq(Nat) /\ (c \o buffer) \o d = c \o (buffer \o d)  BY <4>3, Joined, SMTT(60)
      <4> QED  BY <4>4 DEF c, Data
    <3>5. Uploading(C, list'.uploaded, uploads', chunkIndex')
          /\ \E q : Packing(pc', list'.modified, at', read', FlattenSeq(C) \o buffer', q)
      <4>1. Packing(pc', list'.modified, at', read', FlattenSeq(C) \o buffer', pos)  BY <1>1, <3>1, <3>3, <3>4, Zenon
      <4> QED  BY <1>1, <1>4, <4>1
    <3>6. PackInv'  BY <1>8, <3>5 DEF PackInv
    <3>7. StepInv'  BY <1>1, <1>2, <3>1, <3>4 DEF StepInv
    <3> QED  BY <3>1, <3>6, <3>7, SMTT(60)
  <2> QED  BY <2>1, <2>2
<1>10. list' \in Lists /\ \A f \in {"token", "entries", "preserved"} : list'[f] = list[f]  BY <1>1, <1>2 DEF ListInv
<1>11. incFiles' \in [token : 0 .. runs, entries : Seq(EntryType)]  BY <1>1, <1>2 DEF SavedInv
<1>12. StoreGrows  BY <1>1, <1>2, StoreKept
<1>13. pc \notin {"idle", "delete"} /\ pc' \notin {"idle", "delete"}  BY <1>1, <1>9
<1> QED  BY <1>1, <1>9, <1>10, <1>11, <1>12, <1>13, StillRunning

(* A chunk is cut and reported or sent to the workers. *)
LEMMA SendStep ==
    ASSUME IInv, pc \in {"pack", "read"}, NEW n \in 1 .. Len(buffer), SendChunk(n)
    PROVE  IInv'
<1> DEFINE chunk == SubSeq(buffer, 1, n)
           rest == SubSeq(buffer, n + 1, Len(buffer))
<1>1. /\ files' = files /\ stored' = stored /\ history' = history /\ snapshot' = snapshot /\ incFiles' = incFiles /\ incChunks' = incChunks
      /\ runs' = runs /\ pc' = pc /\ at' = at /\ read' = read /\ hashMode' = hashMode /\ saving' = saving
      /\ chunkIndex' = chunkIndex + 1 /\ buffer' = rest
  BY DEF SendChunk
<1>2. SnapshotInv /\ SavedInv /\ ListInv /\ StepInv /\ PackInv /\ FilesOK  BY DEF IInv, Running
<1>3. Safe' = Safe  BY <1>1 DEF Safe, history
<1>4. PICK C : /\ Uploading(C, list.uploaded, uploads, chunkIndex)
               /\ \E pos : Packing(pc, list.modified, at, read, FlattenSeq(C) \o buffer, pos)
  BY <1>2 DEF PackInv
<1>5. PICK pos : Packing(pc, list.modified, at, read, FlattenSeq(C) \o buffer, pos)  BY <1>4
<1>6. C \in Seq(Data) /\ buffer \in Data /\ chunkIndex \in Int /\ chunkIndex + 1 \in Nat /\ list \in Lists
      /\ IsFiniteSet(uploads)
  <2>1. C \in Seq(Data) /\ Len(C) = chunkIndex + 1 /\ buffer \in Data /\ chunkIndex \in Int /\ list \in Lists
        /\ IsFiniteSet(uploads)
    BY <1>2, <1>4 DEF Uploading, StepInv, ListInv
  <2> QED  BY <2>1
<1>7. /\ chunk \in Data /\ chunk # <<>> /\ rest \in Data
      /\ FlattenSeq(Append(C, chunk)) \o rest = FlattenSeq(C) \o buffer
  BY <1>6, Cutting
<1> HIDE DEF chunk, rest
<1>8. Packing(pc', list.modified, at', read', FlattenSeq(Append(C, chunk)) \o buffer', pos)  BY <1>1, <1>5, <1>7, Zenon
<1>9. Backed(list.uploaded, uploads, cache, Safe) /\ Cardinality(uploads) <= Threads  BY <1>2 DEF PackInv
<1>10. /\ list' \in Lists /\ \A f \in {"token", "entries", "preserved", "modified"} : list'[f] = list[f]
       /\ Uploading(Append(C, chunk), list'.uploaded, uploads', chunkIndex')
       /\ Backed(list'.uploaded, uploads', cache', Safe') /\ Cardinality(uploads') <= Threads
  <2>1. CASE chunk \in cache /\ list' = AddUploadedChunk(list, chunkIndex + 1, chunk) /\ UNCHANGED <<cache, uploads>>
    <3>1. /\ list' \in Lists /\ Put(list.uploaded, (chunkIndex + 1) + 1, chunk, list'.uploaded)
          /\ \A f \in {"token", "entries", "modified", "preserved"} : list'[f] = list[f]
      BY <1>6, <1>7, <2>1, Reporting
    <3>2. Put(list.uploaded, chunkIndex + 2, chunk, list'.uploaded)
      <4>1. (chunkIndex + 1) + 1 = chunkIndex + 2  BY <1>6
      <4> QED  BY <3>1, <4>1
    <3>3. Uploading(Append(C, chunk), list'.uploaded, uploads, chunkIndex + 1)
      BY <1>4, <1>6, <1>7, <3>2, UploadingReport
    <3>4. Backed(list'.uploaded, uploads, cache, Safe)  BY <1>4, <1>6, <1>9, <2>1, <3>2, BackedReport
    <3> QED  BY <1>1, <1>3, <1>9, <2>1, <3>1, <3>3, <3>4
  <2>2. CASE /\ Cardinality(uploads) < Threads
             /\ uploads' = uploads \cup {[index |-> chunkIndex + 1, chunk |-> chunk]}
             /\ cache' = cache \cup {chunk} /\ list' = list
    <3>1. Uploading(Append(C, chunk), list.uploaded, uploads', chunkIndex + 1)  BY <1>4, <1>6, <1>7, <2>2, UploadingSend
    <3>2. Backed(list.uploaded, uploads', cache', Safe)  BY <1>7, <1>9, <2>2, BackedSend
    <3>3. Cardinality(uploads') <= Threads
      <4> DEFINE v == [index |-> chunkIndex + 1, chunk |-> chunk]
      <4>1. uploads' = uploads \cup {v}  BY <2>2
      <4> HIDE DEF v
      <4>2. Cardinality(uploads') = (IF v \in uploads THEN Cardinality(uploads) ELSE Cardinality(uploads) + 1)
            /\ Cardinality(uploads) \in Nat
        BY <1>6, <4>1, FS_AddElement, FS_CardinalityType
      <4> QED  BY <2>2, <4>2, BackupAssumption
    <3> QED  BY <1>1, <1>3, <1>6, <2>2, <3>1, <3>2, <3>3
  <2> QED  BY <2>1, <2>2 DEF SendChunk, chunk
<1>11. PackInv'
  <2>1. list'.modified = list.modified  BY <1>10
  <2>2. Packing(pc', list'.modified, at', read', FlattenSeq(Append(C, chunk)) \o buffer', pos)  BY <1>8, <2>1
  <2> QED  BY <1>10, <2>2 DEF PackInv
<1>12. StepInv'
  <2>1. chunkIndex' \in Int /\ buffer' \in Data /\ pc # "delete"  BY <1>1, <1>6, <1>7
  <2> QED  BY <1>1, <1>2, <2>1 DEF StepInv
<1>13. incFiles' \in [token : 0 .. runs, entries : Seq(EntryType)]  BY <1>1, <1>2 DEF SavedInv
<1>14. StoreGrows  BY <1>1, <1>2, StoreKept
<1>15. pc \notin {"idle", "delete"} /\ pc' \notin {"idle", "delete"}  BY <1>1
<1>16. \A f \in {"token", "entries", "preserved"} : list'[f] = list[f]  BY <1>10
<1> QED  BY <1>1, <1>10, <1>11, <1>12, <1>13, <1>14, <1>15, <1>16, StillRunning

(* The place of the smallest cut. *)
LEMMA CutIs ==
    ASSUME NEW b \in Data, Cuts(b) # {}
    PROVE  Min(Cuts(b)) \in 1 .. Len(b)
<1>1. Cuts(b) \subseteq 1 .. Len(b)  BY DEF Cuts
<1>2. Cuts(b) \in SUBSET Nat  BY <1>1
<1>3. Min(Cuts(b)) \in Cuts(b)  BY <1>2, MinIs
<1> QED  BY <1>1, <1>3

(* The chunk maker cuts a chunk within a file. *)
LEMMA CutStep ==
    ASSUME IInv, CutChunk
    PROVE  IInv'
<1>1. pc = "read" /\ Cuts(buffer) # {} /\ SendChunk(Min(Cuts(buffer)))  BY DEF CutChunk
<1>2. buffer \in Data  BY <1>1 DEF IInv, Running, StepInv
<1>3. Min(Cuts(buffer)) \in 1 .. Len(buffer)  BY <1>1, <1>2, CutIs
<1> QED  BY <1>1, <1>3, SendStep

(* The chunk maker cuts what is left at the end of the files. *)
LEMMA FlushStep ==
    ASSUME IInv, FlushChunk
    PROVE  IInv'
<1> DEFINE n == IF Cuts(buffer) = {} THEN Len(buffer) ELSE Min(Cuts(buffer))
<1>1. pc = "pack" /\ buffer # <<>> /\ SendChunk(n)  BY DEF FlushChunk
<1>2. buffer \in Data  BY <1>1 DEF IInv, Running, StepInv
<1>3. n \in 1 .. Len(buffer)
  <2>1. CASE Cuts(buffer) = {}
    <3>1. Len(buffer) \in Nat /\ Len(buffer) # 0  BY <1>1, <1>2 DEF Data
    <3> QED  BY <2>1, <3>1
  <2>2. CASE Cuts(buffer) # {}  BY <1>2, <2>2, CutIs
  <2> QED  BY <2>1, <2>2
<1> HIDE DEF n
<1> QED  BY <1>1, <1>3, SendStep

(* The size and then the hash of the file are recorded. *)
LEMMA SizeStep ==
    ASSUME IInv, SetSize
    PROVE  IInv'
<1> DEFINE mods == [list.modified EXCEPT ![at].size = Len(read)]
<1>1. /\ pc = "read" /\ pc' = "hash" /\ files' = files /\ stored' = stored /\ history' = history /\ snapshot' = snapshot /\ incFiles' = incFiles
      /\ incChunks' = incChunks /\ runs' = runs /\ cache' = cache /\ buffer' = buffer /\ at' = at /\ read' = read
      /\ chunkIndex' = chunkIndex /\ uploads' = uploads /\ hashMode' = hashMode /\ saving' = saving
  BY DEF SetSize
<1>2. list' = [list EXCEPT !.modified = mods]  BY Zenon DEF SetSize
<1>3. SnapshotInv /\ SavedInv /\ ListInv /\ StepInv /\ PackInv /\ FilesOK  BY <1>1 DEF IInv, Running
<1>4. Safe' = Safe  BY <1>1 DEF Safe, history
<1>5. PICK C : /\ Uploading(C, list.uploaded, uploads, chunkIndex)
               /\ \E pos : Packing(pc, list.modified, at, read, FlattenSeq(C) \o buffer, pos)
  BY <1>3 DEF PackInv
<1>6. PICK pos : Packing("read", list.modified, at, read, FlattenSeq(C) \o buffer, pos)  BY <1>1, <1>5
<1>7. mods \in Seq(ModifiedType) /\ \E q : Packing("hash", mods, at, read, FlattenSeq(C) \o buffer, q)  BY <1>6, PackSize
<1> HIDE DEF mods
<1>8. list \in Lists  BY <1>3 DEF ListInv
<1>9. /\ list' \in Lists /\ list'.modified = mods
      /\ \A f \in {"token", "entries", "preserved", "uploaded"} : list'[f] = list[f]
  BY <1>2, <1>7, <1>8, WithModified
<1>10. PackInv'
  <2>1. list'.uploaded = list.uploaded  BY <1>9
  <2>2. Backed(list.uploaded, uploads, cache, Safe) /\ Cardinality(uploads) <= Threads  BY <1>3 DEF PackInv
  <2>3. \E q : Packing(pc', list'.modified, at', read', FlattenSeq(C) \o buffer', q)  BY <1>1, <1>7, <1>9
  <2> QED  BY <1>1, <1>4, <1>5, <2>1, <2>2, <2>3 DEF PackInv
<1>11. StepInv'  BY <1>1, <1>3 DEF StepInv
<1>12. incFiles' \in [token : 0 .. runs, entries : Seq(EntryType)]  BY <1>1, <1>3 DEF SavedInv
<1>13. StoreGrows  BY <1>1, <1>3, StoreKept
<1>14. pc \notin {"idle", "delete"} /\ pc' \notin {"idle", "delete"}  BY <1>1
<1>15. \A f \in {"token", "entries", "preserved"} : list'[f] = list[f]  BY <1>9
<1> QED  BY <1>1, <1>9, <1>10, <1>11, <1>12, <1>13, <1>14, <1>15, StillRunning

(* The end of a file gives its hash; the next file is packed where this one ended. *)
LEMMA HashStep ==
    ASSUME IInv, SetHash
    PROVE  IInv'
<1> DEFINE mods == [list.modified EXCEPT ![at].hash = read]
<1>1. /\ pc = "hash" /\ pc' = "pack" /\ files' = files /\ stored' = stored /\ history' = history /\ snapshot' = snapshot /\ incFiles' = incFiles
      /\ incChunks' = incChunks /\ runs' = runs /\ cache' = cache /\ buffer' = buffer /\ at' = at + 1 /\ read' = <<>>
      /\ chunkIndex' = chunkIndex /\ uploads' = uploads /\ hashMode' = hashMode /\ saving' = saving
  BY DEF SetHash
<1>2. list' = [list EXCEPT !.modified = mods]  BY Zenon DEF SetHash
<1>3. SnapshotInv /\ SavedInv /\ ListInv /\ StepInv /\ PackInv /\ FilesOK  BY <1>1 DEF IInv, Running
<1>4. Safe' = Safe  BY <1>1 DEF Safe, history
<1>5. PICK C : /\ Uploading(C, list.uploaded, uploads, chunkIndex)
               /\ \E pos : Packing(pc, list.modified, at, read, FlattenSeq(C) \o buffer, pos)
  BY <1>3 DEF PackInv
<1>6. PICK pos : Packing("hash", list.modified, at, read, FlattenSeq(C) \o buffer, pos)  BY <1>1, <1>5
<1>7. mods \in Seq(ModifiedType) /\ Packing("pack", mods, at + 1, <<>>, FlattenSeq(C) \o buffer, pos)  BY <1>6, PackHash
<1> HIDE DEF mods
<1>8. list \in Lists  BY <1>3 DEF ListInv
<1>9. /\ list' \in Lists /\ list'.modified = mods
      /\ \A f \in {"token", "entries", "preserved", "uploaded"} : list'[f] = list[f]
  BY <1>2, <1>7, <1>8, WithModified
<1>10. PackInv'
  <2>1. list'.uploaded = list.uploaded  BY <1>9
  <2>2. Backed(list.uploaded, uploads, cache, Safe) /\ Cardinality(uploads) <= Threads  BY <1>3 DEF PackInv
  <2>3. \E q : Packing(pc', list'.modified, at', read', FlattenSeq(C) \o buffer', q)  BY <1>1, <1>7, <1>9
  <2> QED  BY <1>1, <1>4, <1>5, <2>1, <2>2, <2>3 DEF PackInv
<1>11. StepInv'  BY <1>1, <1>3 DEF StepInv
<1>12. incFiles' \in [token : 0 .. runs, entries : Seq(EntryType)]  BY <1>1, <1>3 DEF SavedInv
<1>13. StoreGrows  BY <1>1, <1>3, StoreKept
<1>14. pc \notin {"idle", "delete"} /\ pc' \notin {"idle", "delete"}  BY <1>1
<1>15. \A f \in {"token", "entries", "preserved"} : list'[f] = list[f]  BY <1>9
<1> QED  BY <1>1, <1>9, <1>10, <1>11, <1>12, <1>13, <1>14, <1>15, StillRunning

(* A worker is done. *)
LEMMA UploadStep ==
    ASSUME IInv, NEW u \in uploads, UploadChunk(u)
    PROVE  IInv'
<1>1. /\ saving.step = "no" /\ Store({u.chunk}) /\ uploads' = uploads \ {u}
      /\ list' = AddUploadedChunk(list, u.index, u.chunk)
      /\ files' = files /\ snapshot' = snapshot /\ incFiles' = incFiles /\ incChunks' = incChunks /\ runs' = runs /\ pc' = pc
      /\ cache' = cache /\ buffer' = buffer /\ at' = at /\ read' = read /\ chunkIndex' = chunkIndex /\ hashMode' = hashMode
      /\ saving' = saving
  BY DEF UploadChunk
<1>2. pc # "idle"  BY DEF IInv, NoProcess
<1>3. SnapshotInv /\ SavedInv /\ ListInv /\ StepInv /\ PackInv /\ FilesOK  BY <1>2 DEF IInv, Running
<1>4. pc # "delete"  BY <1>3 DEF StepInv
<1>5. PICK C : /\ Uploading(C, list.uploaded, uploads, chunkIndex)
               /\ \E pos : Packing(pc, list.modified, at, read, FlattenSeq(C) \o buffer, pos)
  BY <1>3 DEF PackInv
<1>6. u \in [index : Nat, chunk : Data] /\ chunkIndex \in Int /\ list \in Lists /\ IsFiniteSet(uploads)
  BY <1>3, <1>5 DEF Uploading, StepInv, ListInv
<1>7. u.index \in Nat /\ u.chunk \in Data  BY <1>6
<1>8. /\ list' \in Lists /\ Put(list.uploaded, u.index + 1, u.chunk, list'.uploaded)
      /\ \A f \in {"token", "entries", "modified", "preserved"} : list'[f] = list[f]
  BY <1>1, <1>6, <1>7, Reporting
<1>9. StoreGrows /\ {u.chunk} \subseteq Safe'
  <2>1. {u.chunk} \in SUBSET Data  BY <1>7
  <2> QED  BY <1>1, <1>3, <2>1, StoreMore
<1>10. Safe \subseteq Safe' /\ u.chunk \in Safe'  BY <1>9 DEF StoreGrows
<1>11. PackInv'
  <2>1. Backed(list.uploaded, uploads, cache, Safe) /\ Cardinality(uploads) <= Threads  BY <1>3 DEF PackInv
  <2>2. Backed(list'.uploaded, uploads', cache', Safe')  BY <1>1, <1>5, <1>6, <1>8, <1>10, <2>1, BackedDone
  <2>3. Uploading(C, list'.uploaded, uploads', chunkIndex')  BY <1>1, <1>5, <1>6, <1>8, UploadingDone
  <2>4. Cardinality(uploads') <= Threads
    <3>1. Cardinality(uploads') = Cardinality(uploads) - 1 /\ Cardinality(uploads) \in Nat
      BY <1>1, <1>6, FS_RemoveElement, FS_CardinalityType
    <3> QED  BY <2>1, <3>1, BackupAssumption
  <2>5. list'.modified = list.modified  BY <1>8
  <2>6. \E pos : Packing(pc', list'.modified, at', read', FlattenSeq(C) \o buffer', pos)  BY <1>1, <1>5, <2>5
  <2> QED  BY <2>2, <2>3, <2>4, <2>6 DEF PackInv
<1>12. StepInv'  BY <1>1, <1>3, <1>4 DEF StepInv
<1>13. incFiles' \in [token : 0 .. runs, entries : Seq(EntryType)]  BY <1>1, <1>3 DEF SavedInv
<1>14. pc \notin {"idle", "delete"} /\ pc' \notin {"idle", "delete"}  BY <1>1, <1>2, <1>4
<1>15. \A f \in {"token", "entries", "preserved"} : list'[f] = list[f]  BY <1>8
<1> QED  BY <1>1, <1>8, <1>9, <1>11, <1>12, <1>13, <1>14, <1>15, StillRunning

(* An error: the process is over, or the incomplete snapshot is to be saved. *)
LEMMA ErrorStep ==
    ASSUME IInv, pc \notin {"idle", "delete"}, NEW then \in {pc, "failed"}, RunAtError(then),
           files' = files, snapshot' = snapshot, incFiles' = incFiles, incChunks' = incChunks, runs' = runs, StoreGrows
    PROVE  IInv'
<1>1. SnapshotInv /\ SavedInv /\ ListInv /\ StepInv /\ PackInv  BY DEF IInv, Running
<1>2. Safe \subseteq Safe' /\ Ever \subseteq Ever'  BY DEF StoreGrows
<1>3. CASE ~hashMode
  <2>1. Exit  BY <1>3 DEF RunAtError
  <2>2. SavedInv'  BY <1>1, <1>2, SavedKept
  <2> QED  BY <2>1, <2>2, ExitStep
<1>4. CASE hashMode
  <2>1. /\ saving' = [NotSaving EXCEPT !.step = "files"] /\ pc' = then /\ list' = list /\ cache' = cache /\ buffer' = buffer
        /\ at' = at /\ read' = read /\ chunkIndex' = chunkIndex /\ uploads' = uploads /\ hashMode' = hashMode
    BY <1>4 DEF RunAtError
  <2>2. saving' \in [step : {"no", "files", "sum", "chunks"}, sum : Seq(ModifiedType)]
    <3>1. <<>> \in Seq(ModifiedType)  OBVIOUS
    <3>2. NotSaving \in [step : {"no"}, sum : Seq(ModifiedType)]  BY <3>1 DEF NotSaving
    <3>3. [NotSaving EXCEPT !.step = "files"] \in [step : {"files"}, sum : Seq(ModifiedType)]  BY <3>2
    <3> QED  BY <2>1, <3>3
  <2>3. pc' \notin {"idle", "delete"} /\ pc' \in {"pack", "read", "hash", "failed"}  BY <1>1, <2>1 DEF StepInv
  <2>4. StepInv'  BY <1>1, <2>1, <2>2, <2>3 DEF StepInv
  <2>5. PICK C : /\ Uploading(C, list.uploaded, uploads, chunkIndex)
                 /\ \E pos : Packing(pc, list.modified, at, read, FlattenSeq(C) \o buffer, pos)
    BY <1>1 DEF PackInv
  <2>6. PICK pos : Packing(pc, list.modified, at, read, FlattenSeq(C) \o buffer, pos)  BY <2>5
  <2>7. Packing(pc', list'.modified, at', read', FlattenSeq(C) \o buffer', pos)
    <3>1. Packing(then, list.modified, at, read, FlattenSeq(C) \o buffer, pos)
      <4>1. CASE then = pc  BY <2>6, <4>1
      <4>2. CASE then = "failed"  BY <2>6, <4>2, PackStop
      <4> QED  BY <4>1, <4>2
    <3> QED  BY <2>1, <3>1, Zenon
  <2>8. PackInv'
    <3>1. Backed(list.uploaded, uploads, cache, Safe) /\ Cardinality(uploads) <= Threads  BY <1>1 DEF PackInv
    <3>2. Backed(list'.uploaded, uploads', cache', Safe')  BY <1>2, <2>1, <3>1, BackedMore
    <3> QED  BY <2>1, <2>5, <2>7, <3>1, <3>2 DEF PackInv
  <2>9. list' \in Lists /\ \A f \in {"token", "entries", "preserved"} : list'[f] = list[f]  BY <1>1, <2>1 DEF ListInv
  <2>10. incFiles' \in [token : 0 .. runs, entries : Seq(EntryType)]  BY <1>1 DEF SavedInv
  <2> QED  BY <2>3, <2>4, <2>8, <2>9, <2>10, StillRunning
<1> QED  BY <1>3, <1>4

(* An upload that fails ends the backup, and the chunk may be there or not. *)
LEMMA UploadFailsStep ==
    ASSUME IInv, NEW u \in uploads, UploadFails(u)
    PROVE  IInv'
<1>1. /\ Store({}) \/ Store({u.chunk})
      /\ RunAtError(pc)
      /\ files' = files /\ snapshot' = snapshot /\ incFiles' = incFiles /\ incChunks' = incChunks /\ runs' = runs
  BY DEF UploadFails
<1>2. pc # "idle"  BY DEF IInv, NoProcess
<1>3. SnapshotInv /\ StepInv /\ PackInv  BY <1>2 DEF IInv, Running
<1>4. pc # "delete"  BY <1>3 DEF StepInv
<1>5. u.chunk \in Data
  <2>1. PICK C : Uploading(C, list.uploaded, uploads, chunkIndex)  BY <1>3 DEF PackInv
  <2>2. u \in [index : Nat, chunk : Data]  BY <2>1 DEF Uploading
  <2> QED  BY <2>2
<1>6. StoreGrows
  <2>1. {} \in SUBSET Data /\ {u.chunk} \in SUBSET Data  BY <1>5
  <2> QED  BY <1>1, <1>3, <2>1, StoreMore
<1> QED  BY <1>1, <1>2, <1>4, <1>6, ErrorStep

(* A file that cannot be read ends the backup. *)
LEMMA ReadFailsStep ==
    ASSUME IInv, ReadFails
    PROVE  IInv'
<1>1. /\ pc = "read" /\ RunAtError("failed") /\ stored' = stored /\ history' = history
      /\ files' = files /\ snapshot' = snapshot /\ incFiles' = incFiles /\ incChunks' = incChunks /\ runs' = runs
  BY DEF ReadFails
<1>2. StoreGrows  BY <1>1, StoreKept DEF IInv
<1> QED  BY <1>1, <1>2, ErrorStep

(* A snapshot that cannot be saved ends the backup. *)
LEMMA SnapshotFailsStep ==
    ASSUME IInv, SnapshotFails
    PROVE  IInv'
<1>1. /\ pc = "pack" /\ RunAtError("failed") /\ stored' = stored /\ history' = history
      /\ files' = files /\ snapshot' = snapshot /\ incFiles' = incFiles /\ incChunks' = incChunks /\ runs' = runs
  BY DEF SnapshotFails, Packed
<1>2. StoreGrows  BY <1>1, StoreKept DEF IInv
<1> QED  BY <1>1, <1>2, ErrorStep

(* The first step of saving. *)
LEMMA SaveFilesStep ==
    ASSUME IInv, SaveFiles
    PROVE  IInv'
<1>1. /\ saving.step = "files" /\ saving' = [saving EXCEPT !.step = "sum"]
      /\ incFiles' = [token |-> list.token, entries |-> IF InMemory THEN list.entries \o list.entries ELSE list.entries]
      /\ files' = files /\ stored' = stored /\ history' = history /\ snapshot' = snapshot /\ incChunks' = incChunks /\ runs' = runs /\ pc' = pc
      /\ list' = list /\ cache' = cache /\ buffer' = buffer /\ at' = at /\ read' = read /\ chunkIndex' = chunkIndex
      /\ uploads' = uploads /\ hashMode' = hashMode
  BY DEF SaveFiles
<1>2. pc # "idle"  BY <1>1 DEF IInv, NoProcess, NotSaving
<1>3. SnapshotInv /\ SavedInv /\ ListInv /\ StepInv /\ PackInv /\ runs \in Nat  BY <1>2 DEF IInv, Running
<1>4. pc # "delete"  BY <1>1, <1>3 DEF StepInv
<1>5. saving' \in [step : {"no", "files", "sum", "chunks"}, sum : Seq(ModifiedType)]  BY <1>1, <1>3 DEF StepInv
<1>6. StepInv'  BY <1>1, <1>3, <1>4, <1>5 DEF StepInv
<1>7. Safe' = Safe  BY <1>1 DEF Safe, history
<1>8. PackInv'  BY <1>1, <1>3, <1>7, Zenon DEF PackInv
<1>9. list \in Lists /\ list.token = runs /\ KeptRight(list)  BY <1>3 DEF ListInv
<1> DEFINE es == list.entries
           two == IF InMemory THEN es \o es ELSE es
<1>10. es \in Seq(EntryType) /\ CompleteIn(es, list.preserved)  BY <1>9 DEF Lists, KeptRight, CompleteIn
<1>11. two \in Seq(EntryType) /\ CompleteIn(two, list.preserved)
  <2> HIDE DEF es
  <2>1. es \o es \in Seq(EntryType)  BY <1>10
  <2>2. CompleteIn(es \o es, list.preserved)
    <3>1. ASSUME NEW k \in DOMAIN (es \o es) PROVE \E j \in DOMAIN es : (es \o es)[k] = es[j]
      <4>1. Len(es) \in Nat /\ DOMAIN es = 1 .. Len(es) /\ k \in 1 .. Len(es) + Len(es)  BY <1>10
      <4>2. CASE k <= Len(es)
        <5>1. k \in DOMAIN es /\ (es \o es)[k] = es[k]  BY <1>10, <4>1, <4>2
        <5> QED  BY <5>1
      <4>3. CASE ~(k <= Len(es))
        <5>1. k - Len(es) \in DOMAIN es /\ (es \o es)[k] = es[k - Len(es)]  BY <1>10, <4>1, <4>3
        <5> QED  BY <5>1
      <4> QED  BY <4>2, <4>3
    <3> QED  BY <1>10, <3>1 DEF CompleteIn
  <2> QED  BY <1>10, <2>1, <2>2
<1>12. incFiles' = [token |-> runs, entries |-> two]  BY <1>1, <1>9
<1> HIDE DEF two
<1>13. /\ incFiles' \in [token : 0 .. runs, entries : Seq(EntryType)]
       /\ incFiles'.token = runs /\ CompleteIn(incFiles'.entries, list.preserved)
  <2>1. runs \in 0 .. runs  BY <1>3
  <2> QED  BY <1>11, <1>12, <2>1
<1>14. StoreGrows  BY <1>1, <1>3, StoreKept
<1>15. list' \in Lists /\ \A f \in {"token", "entries", "preserved"} : list'[f] = list[f]  BY <1>1, <1>9
<1> QED  BY <1>1, <1>2, <1>4, <1>6, <1>8, <1>13, <1>14, <1>15, StillRunning

(* The second step. *)
LEMMA ChecksumStep ==
    ASSUME IInv, CalculateChecksum
    PROVE  IInv'
<1>1. /\ saving.step = "sum" /\ saving' = [step |-> "chunks", sum |-> list.modified] /\ incFiles' = incFiles
      /\ files' = files /\ stored' = stored /\ history' = history /\ snapshot' = snapshot /\ incChunks' = incChunks /\ runs' = runs /\ pc' = pc
      /\ list' = list /\ cache' = cache /\ buffer' = buffer /\ at' = at /\ read' = read /\ chunkIndex' = chunkIndex
      /\ uploads' = uploads /\ hashMode' = hashMode
  BY DEF CalculateChecksum, Modified
<1>2. pc # "idle"  BY <1>1 DEF IInv, NoProcess, NotSaving
<1>3. SnapshotInv /\ SavedInv /\ ListInv /\ StepInv /\ PackInv  BY <1>2 DEF IInv, Running
<1>4. pc # "delete"  BY <1>1, <1>3 DEF StepInv
<1>5. saving' \in [step : {"no", "files", "sum", "chunks"}, sum : Seq(ModifiedType)]
  <2>1. list.modified \in Seq(ModifiedType)  BY <1>3 DEF ListInv, Lists
  <2> QED  BY <1>1, <2>1
<1>6. StepInv'  BY <1>1, <1>3, <1>4, <1>5 DEF StepInv
<1>7. Safe' = Safe  BY <1>1 DEF Safe, history
<1>8. PackInv'  BY <1>1, <1>3, <1>7, Zenon DEF PackInv
<1>9. incFiles' \in [token : 0 .. runs, entries : Seq(EntryType)]  BY <1>1, <1>3 DEF SavedInv
<1>10. StoreGrows  BY <1>1, <1>3, StoreKept
<1>11. list' \in Lists /\ \A f \in {"token", "entries", "preserved"} : list'[f] = list[f]  BY <1>1, <1>3 DEF ListInv
<1> QED  BY <1>1, <1>2, <1>4, <1>6, <1>8, <1>9, <1>10, <1>11, StillRunning

(* What is loaded of an incomplete snapshot is a list like that of a backup. *)
LEMMA SavedIsList ==
    ASSUME SavedInv
    PROVE  /\ loadIncompleteSnapshot \in Lists /\ Chunks(loadIncompleteSnapshot) \in Seq(Data)
           /\ \E pos : LaidOut(loadIncompleteSnapshot, pos)
           /\ HasIncomplete => KeptRight(loadIncompleteSnapshot)
<1> DEFINE inc == loadIncompleteSnapshot
<1>1. /\ incFiles \in [token : 0 .. runs, entries : Seq(EntryType)]
      /\ incChunks \in [token : 0 .. runs, modified : Seq(ModifiedType), preserved : Seq(Data), uploaded : Seq(Data), valid : BOOLEAN]
  BY DEF SavedInv
<1>2. /\ incFiles.token \in Nat /\ incFiles.entries \in Seq(EntryType) /\ incChunks.modified \in Seq(ModifiedType)
      /\ incChunks.preserved \in Seq(Data) /\ incChunks.uploaded \in Seq(Data)
  BY <1>1
<1>3. Truncated(incChunks.uploaded) \in Seq(Data)  BY <1>2, TruncatedIs
<1>4. inc \in Lists  BY <1>2, <1>3 DEF loadIncompleteSnapshot, Lists
<1>5. /\ inc.modified = incChunks.modified /\ inc.uploaded = Truncated(incChunks.uploaded)
      /\ inc.entries = incFiles.entries /\ inc.preserved = incChunks.preserved
  BY DEF loadIncompleteSnapshot
<1>6. \E pos : LaidOut(inc, pos)  BY <1>5, Zenon DEF SavedInv, LaidOut
<1>7. Chunks(inc) \in Seq(Data)
  <2> HIDE DEF inc
  <2> QED  BY <1>4, NewChunks
<1>8. HasIncomplete => KeptRight(inc)
  <2>1. HasIncomplete => CompleteIn(incFiles.entries, incChunks.preserved)  BY DEF HasIncomplete, SavedInv
  <2> QED  BY <1>5, <2>1, Zenon DEF CompleteIn, KeptRight
<1> QED  BY <1>4, <1>6, <1>7, <1>8

(* The last step of saving. *)
LEMMA SaveChunksStep ==
    ASSUME IInv, SaveChunks
    PROVE  IInv'
<1>1. /\ saving.step = "chunks" /\ Exit /\ files' = files /\ stored' = stored /\ history' = history /\ snapshot' = snapshot
      /\ incFiles' = incFiles /\ runs' = runs
      /\ incChunks' = [token |-> list.token, modified |-> list.modified, preserved |-> list.preserved,
                       uploaded |-> list.uploaded, valid |-> saving.sum = list.modified]
  BY DEF SaveChunks, Modified
<1>2. pc # "idle"  BY <1>1 DEF IInv, NoProcess, NotSaving
<1>3. SnapshotInv /\ SavedInv /\ ListInv /\ StepInv /\ PackInv /\ runs \in Nat  BY <1>2 DEF IInv, Running
<1>4. Ever' = Ever /\ Safe \subseteq Ever  BY <1>1, <1>3, SafeData, StoreKept
<1>5. PICK C : /\ Uploading(C, list.uploaded, uploads, chunkIndex)
               /\ \E pos : Packing(pc, list.modified, at, read, FlattenSeq(C) \o buffer, pos)
  BY <1>3 DEF PackInv
<1>6. PICK pos : Packing(pc, list.modified, at, read, FlattenSeq(C) \o buffer, pos)  BY <1>5
<1>7. /\ list \in Lists /\ list.token = runs /\ list.preserved \in Seq(Safe) /\ buffer \in Data /\ chunkIndex \in Int
      /\ Backed(list.uploaded, uploads, cache, Safe)
      /\ incFiles.token = runs => CompleteIn(incFiles.entries, list.preserved)
  BY <1>3 DEF ListInv, StepInv, PackInv
<1>8. LaidIn(list.modified, Truncated(list.uploaded), pos)  BY <1>5, <1>6, <1>7, SavedLaid
<1>9. Truncated(list.uploaded) \in Seq(Safe)  BY <1>5, <1>7, SavedStored
<1>10. incChunks' \in [token : 0 .. runs, modified : Seq(ModifiedType), preserved : Seq(Data), uploaded : Seq(Data), valid : BOOLEAN]
  <2>1. list.modified \in Seq(ModifiedType) /\ list.preserved \in Seq(Data) /\ list.uploaded \in Seq(Data) /\ runs \in 0 .. runs
    BY <1>3, <1>7 DEF Lists
  <2>2. (saving.sum = list.modified) \in BOOLEAN  OBVIOUS
  <2> QED  BY <1>1, <1>7, <2>1, <2>2
<1>11. /\ incChunks'.token = runs /\ incChunks'.modified = list.modified /\ incChunks'.preserved = list.preserved
       /\ incChunks'.uploaded = list.uploaded
  BY <1>1, <1>7
<1>12. Chunks(loadIncompleteSnapshot)' \in Seq(Ever)
  <2>1. Chunks(loadIncompleteSnapshot)' = list.preserved \o Truncated(list.uploaded)
    BY <1>11 DEF Chunks, loadIncompleteSnapshot
  <2> DEFINE T == Truncated(list.uploaded)
  <2>2. T \in Seq(Safe) /\ list.preserved \in Seq(Safe)  BY <1>7, <1>9
  <2> HIDE DEF T
  <2>3. list.preserved \o T \in Seq(Safe)  BY <2>2
  <2>4. list.preserved \o T \in Seq(Ever)  BY <1>4, <2>3, SeqMonotonic
  <2> QED  BY <2>1, <2>4 DEF T
<1>13. SavedInv'
  <2>1. /\ incFiles' \in [token : 0 .. runs', entries : Seq(EntryType)]
        /\ incChunks' \in [token : 0 .. runs', modified : Seq(ModifiedType), preserved : Seq(Data), uploaded : Seq(Data), valid : BOOLEAN]
    BY <1>1, <1>3, <1>10 DEF SavedInv
  <2>2. LaidIn(incChunks'.modified, Truncated(incChunks'.uploaded), pos)  BY <1>8, <1>11
  <2>3. incFiles'.token > 0 /\ incChunks'.token = incFiles'.token => CompleteIn(incFiles'.entries, incChunks'.preserved)
    BY <1>1, <1>7, <1>11
  <2>4. Chunks(loadIncompleteSnapshot)' \in Seq(Ever')  BY <1>4, <1>12
  <2> QED  BY <2>1, <2>2, <2>3, <2>4 DEF SavedInv
<1>14. StoreGrows  BY <1>1, <1>3, StoreKept
<1> QED  BY <1>1, <1>13, <1>14, ExitStep

(* The process is killed. *)
LEMMA KillStep ==
    ASSUME IInv, Kill
    PROVE  IInv'
<1>1. /\ Exit /\ files' = files /\ stored' = stored /\ history' = history /\ snapshot' = snapshot
      /\ incFiles' = incFiles /\ incChunks' = incChunks /\ runs' = runs
  BY DEF Kill
<1>2. SnapshotInv /\ SavedInv  BY DEF IInv
<1>3. StoreGrows  BY <1>1, <1>2, StoreKept
<1>4. SavedInv'  BY <1>1, <1>2, <1>3, SavedKept DEF StoreGrows
<1> QED  BY <1>1, <1>3, <1>4, ExitStep

(* The snapshot is uploaded. *)
LEMMA SnapshotStep ==
    ASSUME IInv, UploadSnapshot
    PROVE  IInv'
<1> DEFINE coded == EncodeEntries(list)
<1>1. /\ Packed /\ pc' = "delete"
      /\ snapshot' = [revision |-> snapshot.revision + 1, entries |-> coded.out, chunks |-> coded.chunks]
      /\ files' = files /\ stored' = stored /\ history' = history /\ incFiles' = incFiles /\ incChunks' = incChunks /\ runs' = runs
      /\ list' = list /\ cache' = cache /\ buffer' = buffer /\ at' = at /\ read' = read /\ chunkIndex' = chunkIndex
      /\ uploads' = uploads /\ hashMode' = hashMode /\ saving' = saving
  BY DEF UploadSnapshot
<1>2. pc = "pack" /\ uploads = {} /\ saving.step = "no"  BY <1>1 DEF Packed
<1>3. SnapshotInv /\ SavedInv /\ ListInv /\ StepInv /\ PackInv /\ FilesOK /\ runs \in Nat  BY <1>2 DEF IInv, Running
<1>4. Safe' = Safe /\ Ever' = Ever /\ StoreGrows /\ Safe \in SUBSET Data  BY <1>1, <1>3, SafeData, StoreKept
<1>5. PICK C : /\ Uploading(C, list.uploaded, uploads, chunkIndex)
               /\ \E pos : Packing(pc, list.modified, at, read, FlattenSeq(C) \o buffer, pos)
  BY <1>3 DEF PackInv
<1>6. PICK pos : Packing(pc, list.modified, at, read, FlattenSeq(C) \o buffer, pos)  BY <1>5
<1>7. /\ list \in Lists /\ list.preserved \in Seq(Safe) /\ KeptRight(list) /\ buffer \in Data /\ chunkIndex \in Int
      /\ Backed(list.uploaded, uploads, cache, Safe) /\ Cardinality(uploads) <= Threads
  BY <1>3 DEF ListInv, StepInv, PackInv
<1>8. Truncated(list.uploaded) = list.uploaded
  <2>1. list.uploaded \in Seq(Data)  BY <1>7 DEF Lists
  <2>2. \A i \in 1 .. Len(list.uploaded) : list.uploaded[i] # <<>>  BY <1>2, <1>5, <1>7, UploadingOver
  <2> QED  BY <2>1, <2>2, TruncatedIs
<1>9. LaidOut(list, pos)  BY <1>5, <1>6, <1>7, <1>8, SavedLaid DEF LaidOut
<1>10. Chunks(list) \in Seq(Safe)
  <2>1. list.uploaded \in Seq(Safe)
    <3>1. Truncated(list.uploaded) \in Seq(Safe)  BY <1>5, <1>7, SavedStored
    <3> QED  BY <1>8, <3>1
  <2> QED  BY <1>7, <2>1 DEF Chunks
<1>11. coded \in Coding(Safe, Chunks(list))
  <2> HIDE DEF coded
  <2> QED  BY <1>4, <1>7, <1>9, <1>10, EncodeMakes DEF coded
<1> HIDE DEF coded
<1>12. coded.chunks \in Seq(Safe) /\ coded.out \in Seq(EntryType) /\ Coded(coded.chunks, coded.out, coded.end)
  BY <1>11 DEF Coding, CodeType
<1>13. snapshot.revision \in Nat /\ snapshot.revision < runs  BY <1>2, <1>3 DEF SnapshotInv
<1>14. SnapshotInv'
  <2>1. snapshot' \in [revision : Nat, entries : Seq(EntryType), chunks : Seq(Safe')]  BY <1>1, <1>4, <1>12, <1>13
  <2>2. Coded(snapshot'.chunks, snapshot'.entries, coded.end)  BY <1>1, <1>12
  <2>3. snapshot'.revision <= runs' /\ snapshot'.revision # 0  BY <1>1, <1>3, <1>13
  <2>4. Ever' \subseteq Data /\ unasked' \subseteq pruned'  BY <1>4 DEF StoreGrows
  <2> QED  BY <1>1, <2>1, <2>2, <2>3, <2>4 DEF SnapshotInv
<1>15. SavedInv'
  <2>1. Ever \subseteq Ever'  BY <1>4
  <2> QED  BY <1>1, <1>3, <2>1, SavedKept
<1>16. ListInv'  BY <1>1, <1>3, <1>4, Zenon DEF ListInv
<1>17. StepInv'
  <2>1. snapshot'.revision > 0  BY <1>1, <1>13
  <2> QED  BY <1>1, <1>2, <1>3, <2>1 DEF StepInv
<1>18. PackInv'
  <2>1. Packing(pc', list'.modified, at', read', FlattenSeq(C) \o buffer', pos)
    <3>1. Packing("delete", list.modified, at, read, FlattenSeq(C) \o buffer, pos)  BY <1>6, PackStop
    <3> QED  BY <1>1, <3>1, Zenon
  <2> QED  BY <1>1, <1>4, <1>5, <1>7, <2>1 DEF PackInv
<1>19. (FilesOK /\ changes \in 0 .. MaxChanges /\ runs \in 0 .. MaxRuns)'  BY <1>1 DEF IInv, FilesOK, files
<1> QED  BY <1>1, <1>14, <1>15, <1>16, <1>17, <1>18, <1>19 DEF IInv, Running

(* The incomplete snapshot is deleted. *)
LEMMA DeleteStep ==
    ASSUME IInv, deleteIncompleteSnapshot
    PROVE  IInv'
<1>1. /\ incFiles' = NoFiles /\ incChunks' = NoChunks /\ Exit
      /\ files' = files /\ stored' = stored /\ history' = history /\ snapshot' = snapshot /\ runs' = runs
  BY DEF deleteIncompleteSnapshot
<1>2. SavedInv'
  <2>1. incFiles'.token = 0 /\ incChunks'.modified = <<>> /\ incChunks'.uploaded = <<>>  BY <1>1, NothingSaved
  <2>2. /\ incFiles' \in [token : 0 .. runs', entries : Seq(EntryType)]
        /\ incChunks' \in [token : 0 .. runs', modified : Seq(ModifiedType), preserved : Seq(Data), uploaded : Seq(Data), valid : BOOLEAN]
    <3>1. 0 \in 0 .. runs'  BY <1>1 DEF IInv
    <3> QED  BY <1>1, <3>1, NothingSaved
  <2>3. ~HasIncomplete'  BY <2>1 DEF HasIncomplete
  <2> QED  BY <2>1, <2>2, <2>3, Nothing DEF SavedInv
<1>3. StoreGrows  BY <1>1, StoreKept DEF IInv
<1> QED  BY <1>1, <1>2, <1>3, ExitStep

(* Chunks are pruned that the latest snapshot does not use. *)
LEMMA PruneStep ==
    ASSUME IInv, PruneUnused
    PROVE  IInv'
<1> DEFINE unused == stored \ Range(snapshot.chunks)
<1>1. /\ pc = "idle" /\ stored' = stored \ unused /\ pruned' = pruned \cup unused /\ unasked' = unasked
      /\ files' = files /\ snapshot' = snapshot /\ incFiles' = incFiles /\ incChunks' = incChunks /\ runs' = runs
      /\ process' = process
  BY DEF PruneUnused
<1>2. SnapshotInv /\ SavedInv /\ NoProcess /\ FilesOK  BY <1>1 DEF IInv
<1>3. /\ pc' = pc /\ list' = list /\ cache' = cache /\ buffer' = buffer /\ at' = at /\ read' = read
      /\ chunkIndex' = chunkIndex /\ uploads' = uploads /\ hashMode' = hashMode /\ saving' = saving
  BY <1>1 DEF process
<1>4. NoProcess'  BY <1>2, <1>3 DEF NoProcess
<1>5. Ever' = Ever /\ unasked' \subseteq pruned'  BY <1>1, <1>2 DEF Ever, SnapshotInv
<1>6. SnapshotInv'
  <2>1. snapshot \in [revision : Nat, entries : Seq(EntryType), chunks : Seq(Safe)]  BY <1>2 DEF SnapshotInv
  <2>2. snapshot.chunks \in Seq(Safe')
    <3> DEFINE c == snapshot.chunks
    <3>1. c \in Seq(Safe)  BY <2>1
    <3>2. \A i \in DOMAIN c : c[i] \in Range(c)  BY DEF Range
    <3>3. \A x \in Safe : x \in Range(c) => x \in Safe'  BY <1>1 DEF Safe
    <3> HIDE DEF c
    <3>4. \A i \in DOMAIN c : c[i] \in Safe  BY <3>1
    <3>5. \A i \in DOMAIN c : c[i] \in Safe'  BY <3>2, <3>3, <3>4
    <3>6. c \in Seq(Safe')  BY <3>1, <3>5, AllIn
    <3> QED  BY <3>6 DEF c
  <2>3. snapshot' \in [revision : Nat, entries : Seq(EntryType), chunks : Seq(Safe')]  BY <1>1, <2>1, <2>2
  <2> QED  BY <1>1, <1>2, <1>3, <1>5, <2>3 DEF SnapshotInv
<1>7. SavedInv'
  <2>1. Ever \subseteq Ever'  BY <1>5
  <2> QED  BY <1>1, <1>2, <2>1, SavedKept
<1>8. (FilesOK /\ changes \in 0 .. MaxChanges /\ runs \in 0 .. MaxRuns)'  BY <1>1 DEF IInv, FilesOK, files
<1> QED  BY <1>1, <1>3, <1>4, <1>6, <1>7, <1>8 DEF IInv

(* What an earlier backup offers is right, in chunks that were uploaded, and that are safe where somebody looks. *)
LEMMA OfferedRight ==
    ASSUME SnapshotInv, SavedInv, pc = "idle", NEW hash \in BOOLEAN
    PROVE  LET remote == IF Resumes(hash) THEN ReadEntries(loadIncompleteSnapshot).out
                         ELSE IF hash THEN <<>> ELSE ListRemoteFiles(snapshot.entries)
               chunks == IF Resumes(hash) THEN Chunks(loadIncompleteSnapshot) ELSE snapshot.chunks
           IN  /\ chunks \in Seq(Ever) /\ (ListsChunks \/ ~Resumes(hash) => chunks \in Seq(Safe)) /\ remote \in Seq(EntryType)
               /\ \A k \in DOMAIN remote : RightEntry(chunks, remote[k])
<1> DEFINE inc == loadIncompleteSnapshot
           remote == IF Resumes(hash) THEN ReadEntries(inc).out
                     ELSE IF hash THEN <<>> ELSE ListRemoteFiles(snapshot.entries)
           chunks == IF Resumes(hash) THEN Chunks(inc) ELSE snapshot.chunks
<1>0. Safe \subseteq Ever  BY SafeData
<1>1. snapshot.chunks \in Seq(Safe) /\ snapshot.chunks \in Seq(Ever) /\ snapshot.entries \in Seq(EntryType)
  <2>1. snapshot.chunks \in Seq(Safe) /\ snapshot.entries \in Seq(EntryType)  BY DEF SnapshotInv
  <2> QED  BY <1>0, <2>1, SeqMonotonic
<1>2. CASE Resumes(hash)
  <2>1. HasIncomplete /\ (ListsChunks => CheckChunks(inc))  BY <1>2 DEF Resumes
  <2>2. inc \in Lists /\ Chunks(inc) \in Seq(Data) /\ KeptRight(inc)  BY <2>1, SavedIsList
  <2>3. PICK pos : LaidOut(inc, pos)  BY SavedIsList
  <2> HIDE DEF inc
  <2>4. ReadEntries(inc).out \in Seq(EntryType) /\ \A k \in DOMAIN ReadEntries(inc).out : Placed(Chunks(inc), ReadEntries(inc).out[k])
    BY <2>2, <2>3, ReadRight
  <2>5. Chunks(inc) \in Seq(Ever) /\ (ListsChunks => Chunks(inc) \in Seq(Safe))
    <3>1. Chunks(inc) \in Seq(Ever)  BY <2>1 DEF SavedInv, inc
    <3>2. CASE ListsChunks
      <4> DEFINE c == Chunks(inc)
      <4>1. \A i \in DOMAIN c : c[i] \in Safe  BY <2>1, <3>2 DEF CheckChunks, Safe
      <4>2. c \in Seq(Data)  BY <2>2
      <4> HIDE DEF c
      <4>3. c \in Seq(Safe)  BY <4>1, <4>2, AllIn
      <4> QED  BY <3>1, <4>3 DEF c
    <3> QED  BY <3>1, <3>2
  <2>6. \A k \in DOMAIN ReadEntries(inc).out : RightEntry(Chunks(inc), ReadEntries(inc).out[k])  BY <2>4 DEF Placed
  <2>7. remote = ReadEntries(inc).out /\ chunks = Chunks(inc)  BY <1>2
  <2> HIDE DEF remote, chunks
  <2>8. /\ chunks \in Seq(Ever) /\ (ListsChunks => chunks \in Seq(Safe)) /\ remote \in Seq(EntryType)
        /\ \A k \in DOMAIN remote : RightEntry(chunks, remote[k])
    BY <2>4, <2>5, <2>6, <2>7
  <2> QED  BY <1>2, <2>8 DEF remote, chunks, inc
<1>3. CASE ~Resumes(hash) /\ hash
  <2>1. remote = <<>> /\ chunks = snapshot.chunks  BY <1>3
  <2>2. <<>> \in Seq(EntryType) /\ \A k \in DOMAIN <<>> : FALSE  OBVIOUS
  <2> HIDE DEF remote, chunks
  <2>3. chunks \in Seq(Ever) /\ chunks \in Seq(Safe) /\ remote \in Seq(EntryType) /\ \A k \in DOMAIN remote : RightEntry(chunks, remote[k])
    BY <1>1, <2>1, <2>2
  <2> QED  BY <2>3 DEF remote, chunks, inc
<1>4. CASE ~Resumes(hash) /\ ~hash
  <2>1. remote = ListRemoteFiles(snapshot.entries) /\ chunks = snapshot.chunks  BY <1>4
  <2>2. PICK end : Coded(snapshot.chunks, snapshot.entries, end)  BY DEF SnapshotInv
  <2>3. /\ ListRemoteFiles(snapshot.entries) \in Seq(EntryType)
        /\ \A k \in DOMAIN ListRemoteFiles(snapshot.entries) : RightEntry(snapshot.chunks, ListRemoteFiles(snapshot.entries)[k])
    BY <1>1, <2>2, CodedRead
  <2> HIDE DEF remote, chunks
  <2>4. chunks \in Seq(Ever) /\ chunks \in Seq(Safe) /\ remote \in Seq(EntryType) /\ \A k \in DOMAIN remote : RightEntry(chunks, remote[k])
    BY <1>1, <2>1, <2>3
  <2> QED  BY <2>4 DEF remote, chunks, inc
<1> QED  BY <1>2, <1>3, <1>4

(* Nothing is read or uploaded yet. *)
LEMMA UploadingStart ==
    ASSUME NEW known, NEW there, known \subseteq there, known \subseteq Data
    PROVE  /\ Uploading(<<>>, <<>>, {}, -1) /\ Backed(<<>>, {}, known, there)
           /\ FlattenSeq(<<>>) \o <<>> = <<>>
<1>1. <<>> \in Seq(Data) /\ Len(<<>>) = 0 /\ \A i \in 1 .. Len(<<>>) : FALSE  OBVIOUS
<1>2. IsFiniteSet({})  BY FS_EmptySet
<1>3. Uploading(<<>>, <<>>, {}, -1)
  <2>1. Len(<<>>) = -1 + 1 /\ Len(<<>>) <= Len(<<>>)  BY <1>1
  <2> QED  BY <1>1, <1>2, <2>1 DEF Uploading
<1>4. Backed(<<>>, {}, known, there)  BY <1>1 DEF Backed
<1>5. FlattenSeq(<<>>) = <<>>
  <2>1. <<>> \in Seq(Seq(Nat)) /\ <<>> \in Seq(Nat)  OBVIOUS
  <2> QED  BY <2>1, FlattenAppend
<1>6. <<>> \o <<>> = <<>>  OBVIOUS
<1> QED  BY <1>3, <1>4, <1>5, <1>6

(* A backup starts. *)
LEMMA StartStep ==
    ASSUME IInv, NEW quick \in BOOLEAN, StartBackup(quick)
    PROVE  IInv'
<1> DEFINE hash == snapshot.revision = 0 \/ ~quick
           remote == IF Resumes(hash) THEN ReadEntries(loadIncompleteSnapshot).out
                     ELSE IF hash THEN <<>> ELSE ListRemoteFiles(snapshot.entries)
           chunks == IF Resumes(hash) THEN Chunks(loadIncompleteSnapshot) ELSE snapshot.chunks
           listing == ListHardLinks(present, Inode, data, time, Links)
<1>1. /\ pc = "idle" /\ runs < MaxRuns /\ pc' = "pack" /\ runs' = runs + 1
      /\ list' = Merge(runs + 1, listing, remote, chunks)
      /\ cache' = Range(snapshot.chunks) \cup (IF ListsChunks THEN stored ELSE {})
      /\ hashMode' = hash /\ buffer' = <<>> /\ at' = 1 /\ read' = <<>> /\ chunkIndex' = -1 /\ uploads' = {}
      /\ saving' = NotSaving /\ pruned' = pruned
      /\ unasked' = unasked \cup (IF Resumes(hash) /\ ~ListsChunks THEN Range(chunks) \ stored ELSE {})
      /\ files' = files /\ stored' = stored /\ snapshot' = snapshot /\ incFiles' = incFiles /\ incChunks' = incChunks
  BY Zenon DEF StartBackup
<1>2. SnapshotInv /\ SavedInv /\ FilesOK /\ runs \in 0 .. MaxRuns  BY DEF IInv
<1>3. hash \in BOOLEAN  OBVIOUS
<1> HIDE DEF hash
<1>4. /\ chunks \in Seq(Ever) /\ (ListsChunks \/ ~Resumes(hash) => chunks \in Seq(Safe)) /\ remote \in Seq(EntryType)
      /\ \A k \in DOMAIN remote : RightEntry(chunks, remote[k])
  BY <1>1, <1>2, <1>3, OfferedRight
<1> HIDE DEF remote, chunks
<1>5. StoreGrows /\ Ever' = Ever /\ Safe' \in SUBSET Data /\ stored \subseteq Safe' /\ chunks \in Seq(Safe')
  <2>1. \A i \in DOMAIN chunks : chunks[i] \in Ever /\ chunks[i] \in Range(chunks)  BY <1>4 DEF Range
  <2>2. Range(chunks) \subseteq Ever  BY <2>1 DEF Range
  <2>3. Ever' = Ever /\ Ever \subseteq Data /\ unasked \subseteq pruned  BY <1>1, <1>2 DEF Ever, SnapshotInv
  <2>4. unasked' \subseteq pruned'  BY <1>1, <2>2, <2>3 DEF Ever
  <2>5. Safe \subseteq Safe' /\ Safe' \subseteq Ever' /\ stored \subseteq Safe'  BY <1>1, <2>4 DEF Safe, Ever
  <2>6. chunks \in Seq(Safe')
    <3>1. CASE ListsChunks \/ ~Resumes(hash)
      <4>1. chunks \in Seq(Safe)  BY <1>4, <3>1
      <4> QED  BY <2>5, <4>1, SeqMonotonic
    <3>2. CASE ~ListsChunks /\ Resumes(hash)
      <4>1. \A i \in DOMAIN chunks : chunks[i] \in Safe'  BY <1>1, <2>1, <3>2 DEF Safe
      <4> QED  BY <1>4, <4>1, AllIn
    <3> QED  BY <3>1, <3>2
  <2> QED  BY <2>3, <2>4, <2>5, <2>6 DEF StoreGrows
<1>6. listing \in Seq(FreshEntry)  BY <1>2, Listing
<1> HIDE DEF listing
<1>7. runs \in Nat /\ runs + 1 \in Nat /\ runs + 1 > 0  BY <1>2
<1>8. list' \in Merged(Safe', runs + 1)  BY <1>1, <1>4, <1>5, <1>6, <1>7, MergeMakes
<1>9. /\ list' \in Lists /\ list'.token = runs + 1 /\ list'.preserved \in Seq(Safe') /\ KeptRight(list')
      /\ list'.uploaded = <<>> /\ list'.modified \in Seq(ModifiedType)
      /\ \A j \in 1 .. Len(list'.modified) : list'.modified[j].size = -1 /\ list'.modified[j].hash = NoHash
  <2>1. /\ list' \in Lists /\ list'.token = runs + 1 /\ list'.preserved \in Seq(Safe') /\ KeptRight(list')
        /\ NonePacked(list')
    BY <1>8 DEF Merged
  <2> QED  BY <2>1 DEF NonePacked, Lists
<1>10. ListInv'
  <2>1. incChunks.token \in 0 .. runs /\ incFiles.token \in 0 .. runs  BY <1>2 DEF SavedInv
  <2>2. incChunks'.token < runs' /\ incFiles'.token # runs'  BY <1>1, <1>7, <2>1
  <2> QED  BY <1>1, <1>7, <1>9, <2>2 DEF ListInv
<1>11. StepInv'
  <2>1. saving' \in [step : {"no", "files", "sum", "chunks"}, sum : Seq(ModifiedType)]
    <3>1. <<>> \in Seq(ModifiedType)  OBVIOUS
    <3> QED  BY <1>1, <3>1 DEF NotSaving
  <2>2. buffer' \in Data /\ chunkIndex' \in Int  BY <1>1 DEF Data
  <2> QED  BY <1>1, <1>3, <2>1, <2>2 DEF StepInv
<1>12. PackInv'
  <2>1. cache' \subseteq Safe' /\ cache' \subseteq Data
    <3>1. snapshot.chunks \in Seq(Safe)  BY <1>2 DEF SnapshotInv
    <3> DEFINE c == snapshot.chunks
    <3>2. \A i \in DOMAIN c : c[i] \in Safe
      <4>1. c \in Seq(Safe)  BY <3>1
      <4> HIDE DEF c
      <4> QED  BY <4>1
    <3>3. Range(c) \subseteq Safe  BY <3>2 DEF Range
    <3> QED  BY <1>1, <1>5, <3>3 DEF StoreGrows
  <2>2. /\ Uploading(<<>>, list'.uploaded, uploads', chunkIndex') /\ Backed(list'.uploaded, uploads', cache', Safe')
        /\ FlattenSeq(<<>>) \o buffer' = <<>>
    BY <1>1, <1>5, <1>9, <2>1, UploadingStart
  <2>3. \E pos : Packing(pc', list'.modified, at', read', FlattenSeq(<<>>) \o buffer', pos)
    <3>1. \E pos : Packing("pack", list'.modified, 1, <<>>, <<>>, pos)  BY <1>9, PackStart
    <3> QED  BY <1>1, <2>2, <3>1
  <2>4. Cardinality(uploads') <= Threads
    <3>1. Cardinality(uploads') = 0  BY <1>1, FS_EmptySet
    <3> QED  BY <3>1, BackupAssumption
  <2> QED  BY <2>2, <2>3, <2>4 DEF PackInv
<1>13. SnapshotInv'
  <2>1. snapshot.revision \in Nat /\ snapshot.revision <= runs  BY <1>2 DEF SnapshotInv
  <2>2. snapshot'.revision < runs' /\ snapshot'.revision <= runs'  BY <1>1, <1>7, <2>1
  <2>3. snapshot \in [revision : Nat, entries : Seq(EntryType), chunks : Seq(Safe)]  BY <1>2 DEF SnapshotInv
  <2>4. snapshot.chunks \in Seq(Safe) /\ Safe \subseteq Safe'  BY <1>5, <2>3 DEF StoreGrows
  <2>5. snapshot.chunks \in Seq(Safe')  BY <2>4, SeqMonotonic
  <2>6. snapshot' \in [revision : Nat, entries : Seq(EntryType), chunks : Seq(Safe')]  BY <1>1, <2>3, <2>5
  <2> QED  BY <1>1, <1>2, <1>5, <2>2, <2>6 DEF SnapshotInv, StoreGrows
<1>14. SavedInv'
  <2>1. HasIncomplete' = HasIncomplete /\ loadIncompleteSnapshot' = loadIncompleteSnapshot
    BY <1>1 DEF HasIncomplete, loadIncompleteSnapshot
  <2>2. /\ incFiles \in [token : 0 .. runs', entries : Seq(EntryType)]
        /\ incChunks \in [token : 0 .. runs', modified : Seq(ModifiedType), preserved : Seq(Data), uploaded : Seq(Data), valid : BOOLEAN]
    <3>1. 0 .. runs \subseteq 0 .. runs'  BY <1>1, <1>7
    <3> QED  BY <1>2, <3>1 DEF SavedInv
  <2> QED  BY <1>1, <1>2, <1>5, <2>1, <2>2 DEF SavedInv
<1>15. (FilesOK /\ changes \in 0 .. MaxChanges)'  BY <1>1 DEF IInv, FilesOK, files
<1>16. runs' \in 0 .. MaxRuns  BY <1>1, <1>2, BackupAssumption
<1> QED  BY <1>1, <1>10, <1>11, <1>12, <1>13, <1>14, <1>15, <1>16 DEF IInv, Running

(* Every step. *)
LEMMA NextInv ==
    ASSUME IInv, [Next]_vars
    PROVE  IInv'
<1>1. CASE UNCHANGED vars
  <2>1. UNCHANGED <<stored, snapshot, incFiles, incChunks, runs, process, history>> /\ files' = files  BY <1>1 DEF vars
  <2>2. (FilesOK /\ changes \in 0 .. MaxChanges)'  BY <2>1 DEF IInv, FilesOK, files
  <2> QED  BY <2>1, <2>2, ProcessKept
<1>2. CASE \E i \in Inodes : \E content \in Contents : ChangeFile(i, content)  BY <1>2, ChangeStep
<1>3. CASE \E p \in Paths : RemovePath(p)  BY <1>3, RemoveStep
<1>4. CASE \E quick \in BOOLEAN : StartBackup(quick)  BY <1>4, StartStep
<1>5. CASE OpenFile \/ CutChunk \/ SetSize \/ SetHash \/ FlushChunk
  BY <1>5, OpenStep, CutStep, SizeStep, HashStep, FlushStep
<1>6. CASE \E u \in uploads : UploadChunk(u) \/ UploadFails(u)  BY <1>6, UploadStep, UploadFailsStep
<1>7. CASE ReadFails \/ SaveFiles \/ CalculateChecksum \/ SaveChunks \/ Kill
  BY <1>7, ReadFailsStep, SaveFilesStep, ChecksumStep, SaveChunksStep, KillStep
<1>8. CASE UploadSnapshot \/ SnapshotFails \/ deleteIncompleteSnapshot \/ PruneUnused
  BY <1>8, SnapshotStep, SnapshotFailsStep, DeleteStep, PruneStep
<1> QED  BY <1>1, <1>2, <1>3, <1>4, <1>5, <1>6, <1>7, <1>8, Zenon DEF Next

(* The inductive invariant of a backup: where each chunk and each file is, in the list, in     *)
(* what is uploading and in what an incomplete snapshot keeps.                                *)
THEOREM BackupInvariant == Spec => []IInv
<1>1. IInv /\ [Next]_vars => IInv'  BY NextInv
<1> QED  BY <1>1, InitInv, PTL DEF Spec

-----------------------------------------------------------------------------
(* What holds of every backup.                                             *)

(* Types, and that no more uploads are under way than there are threads; an upload *)
(* under way is in the cache, and its index was given out.                         *)
THEOREM BackupTyped == Spec => []TypeOK
<1>1. ASSUME IInv PROVE TypeOK
  <2>1. FilesOK /\ changes \in 0 .. MaxChanges /\ runs \in 0 .. MaxRuns /\ SnapshotInv  BY <1>1 DEF IInv
  <2>2. present \subseteq Paths /\ data \in [Inodes -> Contents]  BY <2>1 DEF FilesOK
  <2>3. snapshot.revision <= runs  BY <2>1 DEF SnapshotInv
  <2>4. CASE pc = "idle"
    <3>1. NoProcess  BY <1>1, <2>4 DEF IInv
    <3>2. /\ list = CreateEntryList(0) /\ chunkIndex = -1 /\ uploads = {} /\ saving = NotSaving
      BY <3>1 DEF NoProcess
    <3>3. list.uploaded = <<>> /\ saving.step = "no"  BY <3>2 DEF CreateEntryList, NotSaving
    <3>4. chunkIndex + 1 >= Len(list.uploaded) /\ Cardinality(uploads) <= Threads
      <4>1. Cardinality({}) = 0  BY FS_EmptySet
      <4> QED  BY <3>2, <3>3, <4>1, BackupAssumption
    <3> QED  BY <2>1, <2>2, <2>3, <2>4, <3>2, <3>3, <3>4 DEF TypeOK
  <2>5. CASE pc # "idle"
    <3>1. ListInv /\ StepInv /\ PackInv  BY <1>1, <2>5 DEF IInv, Running
    <3>2. PICK C : /\ Uploading(C, list.uploaded, uploads, chunkIndex)
                   /\ \E pos : Packing(pc, list.modified, at, read, FlattenSeq(C) \o buffer, pos)
      BY <3>1 DEF PackInv
    <3>3. PICK pos : Packing(pc, list.modified, at, read, FlattenSeq(C) \o buffer, pos)  BY <3>2
    <3>4. Places(list.modified, at, read, FlattenSeq(C) \o buffer, pos)  BY <3>3, PackingIs
    <3>5. at \in 1 .. Len(list.modified) + 1  BY <3>4 DEF Places
    <3>6. /\ Len(C) = chunkIndex + 1 /\ Len(list.uploaded) <= Len(C) /\ C \in Seq(Data) /\ list.uploaded \in Seq(Data)
          /\ \A u \in uploads : u.index <= chunkIndex
      BY <3>2 DEF Uploading
    <3>7. (\A u \in uploads : u.chunk \in cache) /\ Cardinality(uploads) <= Threads  BY <3>1 DEF PackInv, Backed
    <3>8. chunkIndex + 1 >= Len(list.uploaded)
      <4>1. Len(C) \in Nat /\ Len(list.uploaded) \in Nat  BY <3>6
      <4> QED  BY <3>6, <4>1
    <3>9. pc \in {"pack", "read", "hash", "failed", "delete"} /\ saving.step \in {"no", "files", "sum", "chunks"}
      BY <3>1 DEF StepInv
    <3> QED  BY <2>1, <2>2, <2>3, <3>5, <3>6, <3>7, <3>8, <3>9 DEF TypeOK, Modified
  <2> QED  BY <2>4, <2>5
<1> QED  BY <1>1, BackupInvariant, PTL

(* Every entry of the latest snapshot gives the content that was read: through listings, hard *)
(* links, merges with what earlier backups left, packing, chunks that arrive in any order,     *)
(* failures, incomplete snapshots and the encoding of the snapshot.                            *)
THEOREM SnapshotRight == Spec => []EntriesRight
<1>1. ASSUME IInv PROVE EntriesRight
  <2>1. SnapshotInv  BY <1>1 DEF IInv
  <2>2. snapshot.entries \in Seq(EntryType)  BY <2>1 DEF SnapshotInv
  <2>3. PICK end : Coded(snapshot.chunks, snapshot.entries, end)  BY <2>1 DEF SnapshotInv
  <2> QED  BY <2>2, <2>3, CodedRead DEF EntriesRight
<1> QED  BY <1>1, BackupInvariant, PTL

(* What an incomplete snapshot offers to the next backup is right, whichever chunks were uploaded *)
(* when it was saved.                                                                             *)
THEOREM IncompleteRight == Spec => []IncompleteSound
<1>1. ASSUME IInv PROVE IncompleteSound
  <2> DEFINE inc == loadIncompleteSnapshot
  <2>1. SUFFICES ASSUME HasIncomplete, NEW k \in DOMAIN ReadEntries(inc).out
                 PROVE  RightEntry(Chunks(inc), ReadEntries(inc).out[k])
    BY DEF IncompleteSound
  <2>2. SavedInv  BY <1>1 DEF IInv
  <2>3. inc \in Lists /\ KeptRight(inc)  BY <2>1, <2>2, SavedIsList
  <2>4. PICK pos : LaidOut(inc, pos)  BY <2>2, SavedIsList
  <2> HIDE DEF inc
  <2>5. Placed(Chunks(inc), ReadEntries(inc).out[k])  BY <2>1, <2>3, <2>4, ReadRight
  <2> QED  BY <2>5 DEF Placed
<1> QED  BY <1>1, BackupInvariant, PTL

(* Every chunk of the latest snapshot is in the storage, but for those that prune had taken away when  *)
(* a backup took them over from an incomplete snapshot without looking for them.                        *)
THEOREM SnapshotStored == Spec => []ChunksStored
<1>1. ASSUME IInv PROVE ChunksStored
  <2>1. SnapshotInv  BY <1>1 DEF IInv
  <2> DEFINE c == snapshot.chunks
  <2>2. c \in Seq(Safe)  BY <2>1 DEF SnapshotInv
  <2> HIDE DEF c
  <2>3. \A i \in DOMAIN c : c[i] \in Safe  BY <2>2
  <2> QED  BY <2>3 DEF ChunksStored, Range, Safe, c
<1> QED  BY <1>1, BackupInvariant, PTL

(* Every chunk that an incomplete snapshot offers was uploaded: one that is not in the storage is one that *)
(* prune took away.                                                                                        *)
THEOREM SavedChunksStored == Spec => []IncompleteStored
<1>1. ASSUME IInv PROVE IncompleteStored
  <2> DEFINE c == Chunks(loadIncompleteSnapshot)
  <2>1. SavedInv  BY <1>1 DEF IInv
  <2>2. HasIncomplete => c \in Seq(Ever)  BY <2>1 DEF SavedInv
  <2> HIDE DEF c
  <2>3. c \in Seq(Ever) => \A i \in DOMAIN c : c[i] \in Ever  OBVIOUS
  <2> QED  BY <2>2, <2>3 DEF IncompleteStored, Range, Ever, c
<1> QED  BY <1>1, BackupInvariant, PTL

-----------------------------------------------------------------------------
(* No file is forgotten.                                                   *)

\* rt[k] is the number of roots before the k-th entry; a hard link refers to one of them.
Numbered(entries, rt) ==
    /\ rt \in [1 .. Len(entries) + 1 -> Nat] /\ rt[1] = 0
    /\ \A k \in 1 .. Len(entries) : /\ rt[k + 1] = rt[k] + (IF entries[k].link = Root THEN 1 ELSE 0)
                                    /\ entries[k].link >= 0 => entries[k].link < rt[k]

\* There are m roots, and hard links refer to earlier ones.
Roots(entries, m) == \E rt : Numbered(entries, rt) /\ rt[Len(entries) + 1] = m

(* No entries. *)
LEMMA NoRoots == Roots(<<>>, 0)
<1> DEFINE rt == [i \in {1} |-> 0]
<1>1. Len(<<>>) = 0  OBVIOUS
<1>2. rt \in [1 .. 0 + 1 -> Nat] /\ rt[1] = 0  OBVIOUS
<1>3. \A k \in 1 .. 0 : FALSE  OBVIOUS
<1> HIDE DEF rt
<1> QED  BY <1>1, <1>2, <1>3 DEF Roots, Numbered

(* One more entry. *)
LEMMA MoreRoots ==
    ASSUME NEW s \in Seq(EntryType), NEW m, Roots(s, m), NEW e \in EntryType, e.link >= 0 => e.link < m
    PROVE  m \in Nat /\ Roots(Append(s, e), m + (IF e.link = Root THEN 1 ELSE 0))
<1> DEFINE n == Len(s)
           q == Append(s, e)
           one == IF e.link = Root THEN 1 ELSE 0
<1>1. PICK rt : Numbered(s, rt) /\ rt[n + 1] = m  BY DEF Roots
<1>2. n \in Nat /\ Len(q) = n + 1 /\ q[n + 1] = e /\ \A k \in 1 .. n : q[k] = s[k]  OBVIOUS
<1>3. /\ rt \in [1 .. n + 1 -> Nat] /\ rt[1] = 0
      /\ \A k \in 1 .. n : /\ rt[k + 1] = rt[k] + (IF s[k].link = Root THEN 1 ELSE 0)
                           /\ s[k].link >= 0 => s[k].link < rt[k]
  BY <1>1 DEF Numbered
<1>4. m \in Nat /\ one \in Nat  BY <1>1, <1>2, <1>3
<1> HIDE DEF n, q, one
<1> DEFINE x == m + one
           rn == [k \in 1 .. (n + 1) + 1 |-> IF k = (n + 1) + 1 THEN x ELSE rt[k]]
<1>5. x \in Nat  BY <1>4
<1> HIDE DEF x
<1>6. rn \in [1 .. (n + 1) + 1 -> Nat] /\ rn[(n + 1) + 1] = x /\ \A k \in 1 .. n + 1 : rn[k] = rt[k]
  BY <1>2, <1>3, <1>5
<1> HIDE DEF rn
<1>7. rn[1] = 0  BY <1>2, <1>3, <1>6
<1>8. ASSUME NEW k \in 1 .. n + 1
      PROVE  /\ rn[k + 1] = rn[k] + (IF q[k].link = Root THEN 1 ELSE 0)
             /\ q[k].link >= 0 => q[k].link < rn[k]
  <2>1. CASE k = n + 1
    <3>1. q[k] = e /\ rn[k] = m /\ rn[k + 1] = x  BY <1>1, <1>2, <1>6, <2>1
    <3> QED  BY <3>1 DEF x, one
  <2>2. CASE k # n + 1
    <3>1. k \in 1 .. n /\ k + 1 \in 1 .. n + 1  BY <1>2, <2>2
    <3>2. q[k] = s[k] /\ rn[k] = rt[k] /\ rn[k + 1] = rt[k + 1]  BY <1>2, <1>6, <3>1
    <3> QED  BY <1>3, <3>1, <3>2
  <2> QED  BY <2>1, <2>2
<1>9. Numbered(q, rn)  BY <1>2, <1>6, <1>7, <1>8, Zenon DEF Numbered
<1>10. Roots(q, x)  BY <1>2, <1>6, <1>9, Zenon DEF Roots
<1> QED  BY <1>4, <1>10 DEF q, x, one

(* Entries with the same links have the same roots. *)
LEMMA SameRoots ==
    ASSUME NEW s, NEW t, Len(s) = Len(t), \A k \in 1 .. Len(s) : s[k].link = t[k].link, NEW m, Roots(s, m)
    PROVE  Roots(t, m)
<1>1. PICK rt : Numbered(s, rt) /\ rt[Len(s) + 1] = m  BY DEF Roots
<1>2. Numbered(t, rt)  BY <1>1 DEF Numbered
<1> QED  BY <1>1, <1>2 DEF Roots

\* nx[k] is the modified file that the k-th entry is, or that comes next.
Matched(entries, mods, nx) ==
    /\ nx \in [1 .. Len(entries) + 1 -> Nat] /\ nx[1] = 1 /\ nx[Len(entries) + 1] = Len(mods) + 1
    /\ \A k \in 1 .. Len(entries) :
          /\ nx[k + 1] = nx[k] + (IF IsComplete(entries[k]) THEN 0 ELSE 1)
          /\ ~IsComplete(entries[k]) => nx[k] \in 1 .. Len(mods) /\ mods[nx[k]].path = entries[k].path
    /\ \A j \in 1 .. Len(mods) : \E k \in 1 .. Len(entries) : ~IsComplete(entries[k]) /\ nx[k] = j

InOrder(entries, mods) == \E nx : Matched(entries, mods, nx)

(* No entries. *)
LEMMA NoneInOrder == InOrder(<<>>, <<>>)
<1> DEFINE nx == [i \in {1} |-> 1]
<1>1. Len(<<>>) = 0  OBVIOUS
<1>2. nx \in [1 .. 0 + 1 -> Nat] /\ nx[1] = 1 /\ nx[0 + 1] = 0 + 1  OBVIOUS
<1>3. \A k \in 1 .. 0 : FALSE  OBVIOUS
<1> HIDE DEF nx
<1>4. Matched(<<>>, <<>>, nx)  BY <1>1, <1>2, <1>3 DEF Matched
<1> QED  BY <1>4 DEF InOrder

(* One more entry, with the file to be packed if it is not complete. *)
LEMMA MoreInOrder ==
    ASSUME NEW s \in Seq(EntryType), NEW mods \in Seq(ModifiedType), InOrder(s, mods), NEW e \in EntryType,
           NEW m \in ModifiedType, m.path = e.path
    PROVE  InOrder(Append(s, e), IF IsComplete(e) THEN mods ELSE Append(mods, m))
<1> DEFINE n == Len(s)
           q == Append(s, e)
           y == Len(mods)
           one == IF IsComplete(e) THEN 0 ELSE 1
           new == IF IsComplete(e) THEN mods ELSE Append(mods, m)
<1>1. PICK nx : Matched(s, mods, nx)  BY DEF InOrder
<1>2. n \in Nat /\ Len(q) = n + 1 /\ q[n + 1] = e /\ \A k \in 1 .. n : q[k] = s[k]  OBVIOUS
<1>3. /\ nx \in [1 .. n + 1 -> Nat] /\ nx[1] = 1 /\ nx[n + 1] = y + 1
      /\ \A k \in 1 .. n :
            /\ nx[k + 1] = nx[k] + (IF IsComplete(s[k]) THEN 0 ELSE 1)
            /\ ~IsComplete(s[k]) => nx[k] \in 1 .. y /\ mods[nx[k]].path = s[k].path
      /\ \A j \in 1 .. y : \E k \in 1 .. n : ~IsComplete(s[k]) /\ nx[k] = j
  BY <1>1 DEF Matched
<1>4. /\ y \in Nat /\ one \in Nat /\ Len(new) = y + one /\ \A j \in 1 .. y : new[j].path = mods[j].path
      /\ ~IsComplete(e) => one = 1 /\ new[y + 1].path = e.path
      /\ IsComplete(e) => one = 0
  <2>1. CASE IsComplete(e)  BY <2>1
  <2>2. CASE ~IsComplete(e)
    <3>1. new = Append(mods, m) /\ one = 1  BY <2>2
    <3>2. Len(new) = y + 1 /\ new[y + 1] = m /\ \A j \in 1 .. y : new[j] = mods[j]  BY <3>1
    <3> QED  BY <2>2, <3>1, <3>2
  <2> QED  BY <2>1, <2>2
<1> HIDE DEF n, q, y, one, new
<1> DEFINE x == (y + 1) + one
           nn == [k \in 1 .. (n + 1) + 1 |-> IF k = (n + 1) + 1 THEN x ELSE nx[k]]
<1>5. x \in Nat /\ x = Len(new) + 1  BY <1>4
<1>6. nn \in [1 .. (n + 1) + 1 -> Nat] /\ nn[(n + 1) + 1] = x /\ \A k \in 1 .. n + 1 : nn[k] = nx[k]
  <2> HIDE DEF x
  <2> QED  BY <1>2, <1>3, <1>5
<1> HIDE DEF nn
<1>7. nn[1] = 1  BY <1>2, <1>3, <1>6
<1>8. ASSUME NEW k \in 1 .. n + 1
      PROVE  /\ nn[k + 1] = nn[k] + (IF IsComplete(q[k]) THEN 0 ELSE 1)
             /\ ~IsComplete(q[k]) => nn[k] \in 1 .. Len(new) /\ new[nn[k]].path = q[k].path
  <2>1. CASE k = n + 1
    <3>1. q[k] = e /\ nn[k] = y + 1 /\ nn[k + 1] = (y + 1) + one  BY <1>2, <1>3, <1>6, <2>1
    <3>2. CASE IsComplete(e)  BY <1>4, <3>1, <3>2
    <3>3. CASE ~IsComplete(e)
      <4>1. one = 1 /\ new[y + 1].path = e.path /\ y + 1 \in 1 .. Len(new)  BY <1>4, <3>3
      <4> QED  BY <3>1, <3>3, <4>1
    <3> QED  BY <3>2, <3>3
  <2>2. CASE k # n + 1
    <3>1. k \in 1 .. n /\ k + 1 \in 1 .. n + 1  BY <1>2, <2>2
    <3>2. q[k] = s[k] /\ nn[k] = nx[k] /\ nn[k + 1] = nx[k + 1]  BY <1>2, <1>6, <3>1
    <3>3. ASSUME ~IsComplete(s[k]) PROVE nx[k] \in 1 .. Len(new) /\ new[nx[k]].path = s[k].path
      <4>1. nx[k] \in 1 .. y /\ mods[nx[k]].path = s[k].path  BY <1>3, <3>1, <3>3
      <4>2. \A j \in 1 .. y : j \in 1 .. Len(new) /\ new[j].path = mods[j].path  BY <1>4
      <4> QED  BY <4>1, <4>2
    <3> QED  BY <1>3, <3>1, <3>2, <3>3
  <2> QED  BY <2>1, <2>2
<1>9. ASSUME NEW j \in 1 .. Len(new) PROVE \E k \in 1 .. n + 1 : ~IsComplete(q[k]) /\ nn[k] = j
  <2>1. CASE j \in 1 .. y
    <3>1. PICK k \in 1 .. n : ~IsComplete(s[k]) /\ nx[k] = j  BY <1>3, <2>1
    <3>2. k \in 1 .. n + 1 /\ q[k] = s[k] /\ nn[k] = nx[k]  BY <1>2, <1>6
    <3> QED  BY <3>1, <3>2
  <2>2. CASE j \notin 1 .. y
    <3>1. ~IsComplete(e) /\ j = y + 1  BY <1>4, <2>2
    <3>2. n + 1 \in 1 .. n + 1 /\ q[n + 1] = e /\ nn[n + 1] = y + 1  BY <1>2, <1>3, <1>6
    <3> QED  BY <3>1, <3>2
  <2> QED  BY <2>1, <2>2
<1>10. Matched(q, new, nn)
  <2>1. nn[(n + 1) + 1] = Len(new) + 1  BY <1>5, <1>6
  <2> QED  BY <1>2, <1>6, <1>7, <1>8, <1>9, <2>1, Zenon DEF Matched
<1> QED  BY <1>10 DEF InOrder, q, new

(* The same files, whatever is known of them. *)
LEMMA StillInOrder ==
    ASSUME NEW s, NEW mods, InOrder(s, mods), NEW new, Len(new) = Len(mods), \A j \in 1 .. Len(mods) : new[j].path = mods[j].path
    PROVE  InOrder(s, new)
<1>1. PICK nx : Matched(s, mods, nx)  BY DEF InOrder
<1>2. Matched(s, new, nx)
  <2>1. \A k \in 1 .. Len(s) : ~IsComplete(s[k]) => nx[k] \in 1 .. Len(new) /\ new[nx[k]].path = s[k].path
    BY <1>1, Zenon DEF Matched
  <2> QED  BY <1>1, <2>1, Zenon DEF Matched
<1> QED  BY <1>2 DEF InOrder

\* From st to r the entry of one path was added, and its root if it is one.
Adds(st, r, p, size) ==
    \E e \in FreshEntry :
        /\ r.out = Append(st.out, e) /\ e.path = p /\ (e.link = Root => e.size = size)
        /\ e.link >= 0 => e.link < Len(st.roots)
        /\ Len(r.roots) = Len(st.roots) + (IF e.link = Root THEN 1 ELSE 0)

(* One more path is listed: what its entry says of hard links. *)
LEMMA ListAdds ==
    ASSUME NEW st \in ListType, NEW p \in Paths, NEW i \in Inodes, NEW size \in Nat, NEW t \in Int, NEW nlink \in Int
    PROVE  Adds(st, ListHardLink(st, p, i, size, t, nlink), p, size)
<1> DEFINE seen == {x \in DOMAIN st.roots : st.roots[x] = i}
           r == ListHardLink(st, p, i, size, t, nlink)
<1>1. st.out \in Seq(FreshEntry) /\ st.roots \in Seq(Inodes) /\ Len(st.roots) \in Nat  BY DEF ListType
<1>2. ASSUME NEW s \in Nat, NEW link \in Int
      PROVE  LET e == CreateEntry(p, s, t, link) IN e \in FreshEntry /\ e.path = p /\ e.link = link /\ e.size = s
  <2>1. NoHash \in Data  BY DEF NoHash, Data
  <2> QED  BY <2>1 DEF FreshEntry, EntryType, CreateEntry
<1>3. CASE nlink <= 1
  <2> DEFINE e == CreateEntry(p, size, t, NotLinked)
  <2>1. r = [st EXCEPT !.out = Append(@, e)]
    <3>1. ~(nlink > 1)  BY <1>3
    <3> QED  BY <1>3, <3>1, Zenon DEF ListHardLink
  <2>2. e \in FreshEntry /\ e.path = p /\ e.link = -2 /\ e.size = size  BY <1>2 DEF NotLinked
  <2> HIDE DEF e, r
  <2>3. r.out = Append(st.out, e) /\ r.roots = st.roots  BY <2>1 DEF ListType
  <2>4. e.link # Root /\ ~(e.link >= 0)  BY <2>2 DEF Root
  <2>5. Len(r.roots) = Len(st.roots) + (IF e.link = Root THEN 1 ELSE 0)  BY <1>1, <2>3, <2>4
  <2> QED  BY <2>2, <2>3, <2>4, <2>5 DEF r, Adds
<1>4. CASE nlink > 1 /\ seen = {}
  <2> DEFINE e == CreateEntry(p, size, t, Root)
  <2>1. r = [out |-> Append(st.out, e), roots |-> Append(st.roots, i)]
    <3>1. ~(nlink <= 1)  BY <1>4
    <3> QED  BY <1>4, <3>1, Zenon DEF ListHardLink
  <2>2. e \in FreshEntry /\ e.path = p /\ e.link = -1 /\ e.size = size  BY <1>2 DEF Root
  <2> HIDE DEF e, r
  <2>3. r.out = Append(st.out, e) /\ r.roots = Append(st.roots, i)  BY <2>1
  <2>4. e.link = Root /\ ~(e.link >= 0)  BY <2>2 DEF Root
  <2>5. Len(r.roots) = Len(st.roots) + (IF e.link = Root THEN 1 ELSE 0)  BY <1>1, <2>3, <2>4
  <2> QED  BY <2>2, <2>3, <2>4, <2>5 DEF r, Adds
<1>5. CASE nlink > 1 /\ seen # {}
  <2> DEFINE link == Min(seen) - 1
             e == CreateEntry(p, 0, t, link)
  <2>1. r = [st EXCEPT !.out = Append(@, e)]
    <3>1. ~(nlink <= 1)  BY <1>5
    <3> QED  BY <1>5, <3>1, Zenon DEF ListHardLink
  <2>2. link \in 0 .. Len(st.roots) - 1 /\ link \in Int
    <3>1. seen \in SUBSET Nat /\ seen \subseteq 1 .. Len(st.roots)  BY <1>1
    <3> HIDE DEF seen
    <3>2. Min(seen) \in seen  BY <1>5, <3>1, MinIs
    <3>3. Min(seen) \in 1 .. Len(st.roots)  BY <3>1, <3>2
    <3> QED  BY <1>1, <3>3
  <2> HIDE DEF link
  <2>3. e \in FreshEntry /\ e.path = p /\ e.link = link  BY <1>2, <2>2
  <2> HIDE DEF e, r
  <2>4. r.out = Append(st.out, e) /\ r.roots = st.roots  BY <2>1 DEF ListType
  <2>5. e.link # Root /\ e.link < Len(st.roots)  BY <1>1, <2>2, <2>3 DEF Root
  <2>6. Len(r.roots) = Len(st.roots) + (IF e.link = Root THEN 1 ELSE 0)  BY <1>1, <2>4, <2>5
  <2> QED  BY <2>3, <2>4, <2>5, <2>6 DEF r, Adds
<1> QED  BY <1>3, <1>4, <1>5

\* What the listing of k paths has, and how many roots.
ListedRight(st, k) ==
    /\ st.out \in Seq(FreshEntry) /\ Len(st.out) = k /\ Roots(st.out, Len(st.roots))
    /\ \A j \in 1 .. k : /\ st.out[j].path = Nth(present, j)
                         /\ st.out[j].link = Root => st.out[j].size = Len(data[Inode[Nth(present, j)]])

(* One more path, by its number. *)
LEMMA ListedRightStep ==
    ASSUME FilesOK, NEW k \in 1 .. Cardinality(present), NEW st \in ListType, ListedRight(st, k - 1)
    PROVE  ListedRight(Listed(st, k), k)
<1> DEFINE p == Nth(present, k)
           i == Inode[p]
           size == Len(data[i])
           t == time[i]
           nlink == Links[i]
           r == Listed(st, k)
<1>1. p \in Paths /\ i \in Inodes /\ size \in Nat /\ t \in Int /\ nlink \in Int  BY PathFacts
<1>2. Listed(st, k) = ListHardLink(st, p, i, size, t, nlink)  BY Zenon DEF Listed
<1>3. size = Len(data[Inode[Nth(present, k)]]) /\ p = Nth(present, k)  OBVIOUS
<1> HIDE DEF p, i, size, t, nlink
<1>a. Adds(st, r, p, size)  BY <1>1, <1>2, ListAdds
<1>4. PICK e \in FreshEntry : /\ r.out = Append(st.out, e) /\ e.path = p /\ (e.link = Root => e.size = size)
                              /\ e.link >= 0 => e.link < Len(st.roots)
                              /\ Len(r.roots) = Len(st.roots) + (IF e.link = Root THEN 1 ELSE 0)
  BY <1>a DEF Adds
<1> HIDE DEF r
<1>5. /\ st.out \in Seq(FreshEntry) /\ Len(st.out) = k - 1 /\ Roots(st.out, Len(st.roots))
      /\ \A j \in 1 .. k - 1 : /\ st.out[j].path = Nth(present, j)
                               /\ st.out[j].link = Root => st.out[j].size = Len(data[Inode[Nth(present, j)]])
  BY DEF ListedRight
<1>6. k \in Nat /\ k >= 1
  <2>1. present \in SUBSET Paths /\ IsFiniteSet(Paths)  BY BackupAssumption DEF FilesOK
  <2>2. Cardinality(present) \in Nat  BY <2>1, FS_Subset, FS_CardinalityType
  <2> QED  BY <2>2
<1>7. r.out \in Seq(FreshEntry) /\ Len(r.out) = k /\ r.out[k] = e /\ \A j \in 1 .. k - 1 : r.out[j] = st.out[j]
  BY <1>4, <1>5, <1>6
<1>8. Roots(r.out, Len(r.roots))
  <2>1. st.out \in Seq(EntryType) /\ e \in EntryType  BY <1>5 DEF FreshEntry
  <2> QED  BY <1>4, <1>5, <2>1, MoreRoots
<1>9. ASSUME NEW j \in 1 .. k
      PROVE  r.out[j].path = Nth(present, j) /\ (r.out[j].link = Root => r.out[j].size = Len(data[Inode[Nth(present, j)]]))
  <2>1. CASE j = k  BY <1>3, <1>4, <1>7, <2>1
  <2>2. CASE j # k
    <3>1. j \in 1 .. k - 1  BY <1>6, <2>2
    <3> QED  BY <1>5, <1>7, <3>1
  <2> QED  BY <2>1, <2>2
<1> QED  BY <1>7, <1>8, <1>9 DEF ListedRight, r

(* The listing as a whole. *)
LEMMA ListingRight ==
    ASSUME FilesOK
    PROVE  LET s == ListHardLinks(present, Inode, data, time, Links)
           IN  /\ s \in Seq(FreshEntry) /\ Len(s) = Cardinality(present) /\ \E m : Roots(s, m)
               /\ \A j \in 1 .. Len(s) : /\ s[j].path = Nth(present, j)
                                         /\ s[j].link = Root => s[j].size = Len(data[Inode[Nth(present, j)]])
<1> DEFINE n == Cardinality(present)
           D == ListingStates(present, Inode, data, time, Links)
           G == {k \in 0 .. n : ListedRight(D[k], k)}
<1>1. n \in Nat
  <2>1. present \in SUBSET Paths /\ IsFiniteSet(Paths)  BY BackupAssumption DEF FilesOK
  <2> QED  BY <2>1, FS_Subset, FS_CardinalityType
<1>2. /\ D \in [0 .. n -> ListType] /\ D[0] = [out |-> <<>>, roots |-> <<>>]
      /\ \A k \in 1 .. n : D[k] = Listed(D[k - 1], k)
  BY ListSteps
<1>3. ASSUME NEW k \in 1 .. n, ListedRight(D[k - 1], k - 1) PROVE ListedRight(D[k], k)
  <2> HIDE DEF D
  <2>1. D[k - 1] \in ListType /\ D[k] = Listed(D[k - 1], k)
    <3> HIDE DEF n
    <3> QED  BY <1>1, <1>2
  <2> QED  BY <1>3, <2>1, ListedRightStep
<1> HIDE DEF D, n
<1>4. 0 \in G
  <2>1. D[0].out = <<>> /\ D[0].roots = <<>>  BY <1>2
  <2>2. <<>> \in Seq(FreshEntry) /\ Len(<<>>) = 0  OBVIOUS
  <2>3. ListedRight(D[0], 0)  BY <2>1, <2>2, NoRoots DEF ListedRight
  <2> QED  BY <1>1, <2>3
<1>5. ASSUME NEW k \in 1 .. n, k - 1 \in G PROVE k \in G
  <2>1. k \in 0 .. n /\ ListedRight(D[k - 1], k - 1)  BY <1>1, <1>5
  <2> QED  BY <1>3, <2>1
<1> HIDE DEF G
<1>6. n \in G
  <2>1. n \in 0 .. n  BY <1>1
  <2> QED  BY <1>1, <1>4, <1>5, <2>1, UpTo
<1>7. ListedRight(D[n], n)  BY <1>6 DEF G
<1>8. ListHardLinks(present, Inode, data, time, Links) = D[n].out  BY Zenon DEF ListHardLinks, D, n
<1> QED  BY <1>7, <1>8, Zenon DEF ListedRight, n

(* Different places of the listing have different paths. *)
LEMMA NthDiffers ==
    ASSUME FilesOK, NEW j \in 1 .. Cardinality(present), NEW k \in 1 .. Cardinality(present), Nth(present, j) = Nth(present, k)
    PROVE  j = k /\ Nth(present, k) \in present
<1>1. present \in SUBSET Nat /\ IsFiniteSet(present)
  <2>1. present \in SUBSET Paths /\ IsFiniteSet(Paths)  BY BackupAssumption DEF FilesOK
  <2> QED  BY <2>1, FS_Subset, BackupAssumption
<1>2. /\ Nth(present, j) \in present /\ Cardinality({q \in present : q <= Nth(present, j)}) = j
      /\ Nth(present, k) \in present /\ Cardinality({q \in present : q <= Nth(present, k)}) = k
  BY <1>1, NthIn, Zenon
<1> QED  BY <1>2, Zenon

\* A file to be packed.
ToPack(p) == [path |-> p, size |-> -1, hash |-> NoHash]

(* What an entry that is added changes. *)
LEMMA AddFields ==
    ASSUME NEW l \in Lists, NEW e
    PROVE  /\ AddEntry(l, e).entries = Append(l.entries, e)
           /\ AddEntry(l, e).modified = IF IsComplete(e) THEN l.modified ELSE Append(l.modified, ToPack(e.path))
<1> DEFINE a == Append(l.entries, e)
           b == IF IsComplete(e) THEN l.modified ELSE Append(l.modified, ToPack(e.path))
<1>1. AddEntry(l, e) = [l EXCEPT !.entries = a, !.modified = b]  BY Zenon DEF AddEntry, ToPack
<1> HIDE DEF a, b
<1>2. [l EXCEPT !.entries = a, !.modified = b].entries = a /\ [l EXCEPT !.entries = a, !.modified = b].modified = b  BY DEF Lists
<1> QED  BY <1>1, <1>2 DEF a, b

\* From the list l to r the entry of one file was added.
Appends(l, r, local) ==
    \E e \in EntryType :
        /\ r.entries = Append(l.entries, e) /\ e.path = local.path /\ e.link = local.link
        /\ r.modified = IF IsComplete(e) THEN l.modified ELSE Append(l.modified, ToPack(e.path))
        /\ ~IsComplete(e) => local.size # 0

(* One more file of the listing is merged. *)
LEMMA MergeAdds ==
    ASSUME NEW S \in SUBSET Data, NEW token, NEW chunks \in Seq(S), NEW remote \in Seq(EntryType),
           NEW st \in MergeType(S, token, remote, chunks), NEW local \in FreshEntry
    PROVE  Appends(st.list, MergeEntry(remote, chunks, st, local).list, local)
<1> DEFINE l == st.list
           n == Len(remote)
           rest == {i \in st.at .. n : remote[i].path >= local.path}
           at1 == IF rest = {} THEN n + 1 ELSE Min(rest)
           found == rest # {} /\ remote[at1].path = local.path
           r == remote[at1]
           s == r.startChunk
           t == r.endChunk
           shared == st.last = s
           added == SubSeq(chunks, s + (IF shared THEN 2 ELSE 1), t + 1)
           delta == s - Len(l.preserved) + (IF shared THEN 1 ELSE 0)
           x == s - delta
           y == t - delta
           kept == [local EXCEPT !.hash = r.hash, !.startOffset = r.startOffset, !.endOffset = r.endOffset,
                                 !.startChunk = x, !.endChunk = y]
           next == IF found THEN at1 + 1 ELSE at1
           taken == found /\ IsSameAs(local, r) /\ local.size > 0
           m == MergeEntry(remote, chunks, st, local)
<1>1. m = CASE taken -> [list |-> AddEntry(AddPreservedChunks(l, added), kept), at |-> next, last |-> t]
            [] local.size = 0 -> [st EXCEPT !.list = AddEntry(l, local), !.at = next]
            [] OTHER -> [st EXCEPT !.list = AddEntry(l, [local EXCEPT !.size = -1]), !.at = next]
  BY Zenon DEF MergeEntry, Delta
<1>2. /\ l \in Lists /\ l.preserved \in Seq(S) /\ n \in Nat /\ st.at \in 1 .. n + 1
      /\ st \in [list : Merged(S, token), at : Nat, last : Int]
  BY DEF MergeType, Merged
<1>3. local \in EntryType /\ local.size \in Int /\ local.size >= 0  BY DEF FreshEntry, EntryType
<1> SUFFICES Appends(l, m.list, local)  BY Zenon
<1> HIDE DEF m
<1>4. CASE taken
  <2>1. at1 \in 1 .. n
    <3>1. rest # {} /\ rest \in SUBSET Nat /\ rest \in SUBSET (1 .. n)  BY <1>2, <1>4
    <3>2. at1 = Min(rest)  BY <3>1
    <3> HIDE DEF rest, at1
    <3>3. at1 \in rest  BY <3>1, <3>2, MinIs
    <3> QED  BY <3>1, <3>3
  <2>2. r \in EntryType
    <3> HIDE DEF at1
    <3> QED  BY <2>1
  <2> HIDE DEF r
  <2>3. s \in Int /\ t \in Int /\ r.hash \in Data /\ r.startOffset \in Int /\ r.endOffset \in Int  BY <2>2 DEF EntryType
  <2> HIDE DEF s, t
  <2>4. x \in Int /\ y \in Int
    <3>1. Len(l.preserved) \in Nat  BY <1>2
    <3> DEFINE k == Len(l.preserved)
    <3> HIDE DEF k
    <3> QED  BY <2>3, <3>1 DEF k
  <2> HIDE DEF x, y
  <2>5. kept \in EntryType /\ kept.path = local.path /\ kept.link = local.link /\ kept.size = local.size
    BY <1>3, <2>3, <2>4 DEF EntryType
  <2> DEFINE l2 == AddPreservedChunks(l, added)
  <2>6. l2.entries = l.entries /\ l2.modified = l.modified
    <3> DEFINE d == l.preserved \o added
    <3>1. l2 = [l EXCEPT !.preserved = d]  BY Zenon DEF AddPreservedChunks
    <3> HIDE DEF d, l2, l
    <3> QED  BY <1>2, <3>1 DEF Lists
  <2>7. m.list = AddEntry(l2, kept)
    <3> DEFINE l3 == AddEntry(l2, kept)
    <3> HIDE DEF l3
    <3>1. ~(local.size = 0)  BY <1>3, <1>4
    <3>2. m = [list |-> l3, at |-> next, last |-> t]
      <4>1. m = CASE taken -> [list |-> l3, at |-> next, last |-> t]
                  [] local.size = 0 -> [st EXCEPT !.list = AddEntry(l, local), !.at = next]
                  [] OTHER -> [st EXCEPT !.list = AddEntry(l, [local EXCEPT !.size = -1]), !.at = next]
        BY <1>1, Zenon DEF l3, kept, r, s, t, x, y
      <4> HIDE DEF taken, l2, kept, next, l, r, added
      <4> QED  BY <4>1, <3>1, <1>4, Zenon
    <3> HIDE DEF next
    <3> QED  BY <3>2 DEF l3
  <2>8. IsComplete(kept)  BY <1>3, <2>5 DEF IsComplete
  <2> HIDE DEF kept
  <2>9. m.list = [l2 EXCEPT !.entries = Append(l2.entries, kept), !.modified = l2.modified]
    BY <2>7, <2>8, Zenon DEF AddEntry
  <2>10. m.list.entries = Append(l.entries, kept) /\ m.list.modified = l.modified
    <3> DEFINE d == l.preserved \o added
               u == Append(l.entries, kept)
    <3>1. l2 = [l EXCEPT !.preserved = d]  BY Zenon DEF AddPreservedChunks
    <3>2. m.list = [l2 EXCEPT !.entries = u, !.modified = l.modified]  BY <2>6, <2>9, Zenon
    <3> HIDE DEF d, l2, l, u
    <3>3. m.list.entries = u /\ m.list.modified = l.modified  BY <1>2, <3>1, <3>2 DEF Lists
    <3> QED  BY <3>3 DEF u
  <2> HIDE DEF l
  <2> QED  BY <2>5, <2>8, <2>10, Zenon DEF Appends
<1> HIDE DEF taken, next
<1>5. CASE ~taken /\ local.size = 0
  <2>1. m = [st EXCEPT !.list = AddEntry(l, local), !.at = next]  BY <1>1, <1>5, Zenon
  <2>2. m.list = AddEntry(l, local)
    <3> DEFINE a == AddEntry(l, local)
    <3> HIDE DEF a
    <3>1. [st EXCEPT !.list = a, !.at = next].list = a  BY <1>2
    <3> QED  BY <2>1, <3>1, Zenon DEF a
  <2>3. IsComplete(local)  BY <1>3 DEF IsComplete
  <2>4. m.list.entries = Append(l.entries, local) /\ m.list.modified = l.modified
    <3> HIDE DEF l
    <3> QED  BY <1>2, <2>2, <2>3, AddFields, Zenon
  <2> HIDE DEF l
  <2> QED  BY <1>3, <2>3, <2>4, Zenon DEF Appends
<1>6. CASE ~taken /\ local.size # 0
  <2> DEFINE e == [local EXCEPT !.size = -1]
  <2>1. m = [st EXCEPT !.list = AddEntry(l, e), !.at = next]  BY <1>1, <1>6, Zenon
  <2>2. m.list = AddEntry(l, e)
    <3> DEFINE a == AddEntry(l, e)
    <3> HIDE DEF a
    <3>1. [st EXCEPT !.list = a, !.at = next].list = a  BY <1>2
    <3> QED  BY <2>1, <3>1, Zenon DEF a
  <2>3. e \in EntryType /\ e.path = local.path /\ e.link = local.link /\ ~IsComplete(e)
    <3>1. -1 \in Int  OBVIOUS
    <3>2. e \in EntryType /\ e.path = local.path /\ e.link = local.link /\ e.size = -1
      <4> HIDE DEF l
      <4> QED  BY <1>3, <3>1 DEF EntryType
    <3> HIDE DEF e
    <3> QED  BY <3>2 DEF IsComplete
  <2> HIDE DEF e
  <2>4. m.list.entries = Append(l.entries, e) /\ m.list.modified = Append(l.modified, ToPack(e.path))
    <3> HIDE DEF l
    <3> QED  BY <1>2, <2>2, <2>3, AddFields, Zenon
  <2> HIDE DEF l
  <2> QED  BY <1>6, <2>3, <2>4, Zenon DEF Appends
<1> QED  BY <1>4, <1>5, <1>6

\* The first k files of the listing were merged.
MergedRight(l, listing, k) ==
    /\ Len(l.entries) = k /\ InOrder(l.entries, l.modified)
    /\ \A j \in 1 .. k : /\ l.entries[j].path = listing[j].path /\ l.entries[j].link = listing[j].link
                         /\ ~IsComplete(l.entries[j]) => listing[j].size # 0

(* One more file, by its number. *)
LEMMA MergedRightStep ==
    ASSUME NEW listing \in Seq(FreshEntry), NEW k \in 1 .. Len(listing), NEW l \in Lists, MergedRight(l, listing, k - 1),
           NEW r, Appends(l, r, listing[k])
    PROVE  MergedRight(r, listing, k)
<1> DEFINE s == l.entries
           mods == l.modified
           local == listing[k]
<1>1. PICK e \in EntryType :
          /\ r.entries = Append(s, e) /\ e.path = local.path /\ e.link = local.link
          /\ r.modified = IF IsComplete(e) THEN mods ELSE Append(mods, ToPack(e.path))
          /\ ~IsComplete(e) => local.size # 0
  BY DEF Appends
<1>2. s \in Seq(EntryType) /\ mods \in Seq(ModifiedType) /\ k \in Nat /\ k >= 1  BY DEF Lists
<1>3. /\ Len(s) = k - 1 /\ InOrder(s, mods)
      /\ \A j \in 1 .. k - 1 : /\ s[j].path = listing[j].path /\ s[j].link = listing[j].link
                               /\ ~IsComplete(s[j]) => listing[j].size # 0
  BY DEF MergedRight
<1> HIDE DEF s, mods
<1>4. ToPack(e.path) \in ModifiedType /\ ToPack(e.path).path = e.path
  <2>1. e.path \in Paths /\ NoHash \in Data /\ -1 \in Int  BY DEF EntryType, NoHash, Data
  <2> QED  BY <2>1 DEF ToPack, ModifiedType
<1>5. InOrder(r.entries, r.modified)
  <2>1. InOrder(Append(s, e), IF IsComplete(e) THEN mods ELSE Append(mods, ToPack(e.path)))
    BY <1>2, <1>3, <1>4, MoreInOrder
  <2> QED  BY <1>1, <2>1, Zenon
<1>6. Len(r.entries) = k /\ r.entries[k] = e /\ \A j \in 1 .. k - 1 : r.entries[j] = s[j]  BY <1>1, <1>2, <1>3
<1>7. ASSUME NEW j \in 1 .. k
      PROVE  /\ r.entries[j].path = listing[j].path /\ r.entries[j].link = listing[j].link
             /\ ~IsComplete(r.entries[j]) => listing[j].size # 0
  <2>1. CASE j = k  BY <1>1, <1>6, <2>1
  <2>2. CASE j # k
    <3>1. j \in 1 .. k - 1  BY <1>2, <2>2
    <3> QED  BY <1>3, <1>6, <3>1
  <2> QED  BY <2>1, <2>2
<1> QED  BY <1>5, <1>6, <1>7 DEF MergedRight

(* The merge of a whole listing keeps its files, in order. *)
LEMMA MergedWhole ==
    ASSUME NEW S \in SUBSET Data, NEW token \in Nat, NEW chunks \in Seq(S), NEW remote \in Seq(EntryType),
           \A i \in DOMAIN remote : RightEntry(chunks, remote[i]), NEW listing \in Seq(FreshEntry)
    PROVE  MergedRight(Merge(token, listing, remote, chunks), listing, Len(listing))
<1> DEFINE n == Len(listing)
           D == MergeStates(token, listing, remote, chunks)
           T == MergeType(S, token, remote, chunks)
           b == [list |-> CreateEntryList(token), at |-> 1, last |-> -1]
           G == {k \in 0 .. n : MergedRight(D[k].list, listing, k)}
<1>1. n \in Nat /\ \A k \in 1 .. n : listing[k] \in FreshEntry  OBVIOUS
<1>2. /\ D \in [0 .. n -> T] /\ D[0] = b
      /\ \A k \in 1 .. n : D[k] = MergeEntry(remote, chunks, D[k - 1], listing[k])
  BY MergeSteps
<1> HIDE DEF D, T
<1>3. ASSUME NEW k \in 1 .. n, MergedRight(D[k - 1].list, listing, k - 1) PROVE MergedRight(D[k].list, listing, k)
  <2>1. D[k - 1] \in T /\ D[k] = MergeEntry(remote, chunks, D[k - 1], listing[k]) /\ listing[k] \in FreshEntry
    <3> HIDE DEF n
    <3> QED  BY <1>1, <1>2
  <2>2. D[k - 1].list \in Lists  BY <2>1 DEF T, MergeType, Merged
  <2>3. Appends(D[k - 1].list, D[k].list, listing[k])
    <3> DEFINE st == D[k - 1]
               e == listing[k]
    <3>1. st \in MergeType(S, token, remote, chunks) /\ e \in FreshEntry  BY <2>1 DEF T
    <3> HIDE DEF st, e
    <3>2. Appends(st.list, MergeEntry(remote, chunks, st, e).list, e)  BY <3>1, MergeAdds
    <3> QED  BY <2>1, <3>2 DEF st, e
  <2> QED  BY <1>3, <2>2, <2>3, MergedRightStep
<1> HIDE DEF n
<1>4. 0 \in G
  <2>1. D[0].list.entries = <<>> /\ D[0].list.modified = <<>>  BY <1>2 DEF CreateEntryList
  <2>2. Len(<<>>) = 0  OBVIOUS
  <2>3. MergedRight(D[0].list, listing, 0)  BY <2>1, <2>2, NoneInOrder DEF MergedRight
  <2> QED  BY <1>1, <2>3
<1>5. ASSUME NEW k \in 1 .. n, k - 1 \in G PROVE k \in G
  <2>1. k \in 0 .. n /\ MergedRight(D[k - 1].list, listing, k - 1)  BY <1>1, <1>5
  <2> QED  BY <1>3, <2>1
<1> HIDE DEF G
<1>6. n \in G
  <2>1. n \in 0 .. n  BY <1>1
  <2> QED  BY <1>1, <1>4, <1>5, <2>1, UpTo
<1>7. MergedRight(D[n].list, listing, n)  BY <1>6 DEF G
<1>8. Merge(token, listing, remote, chunks) = D[n].list  BY Zenon DEF Merge, D, n
<1> QED  BY <1>7, <1>8, Zenon DEF n

Distinct(entries) == \A j, k \in 1 .. Len(entries) : entries[j].path = entries[k].path => j = k

\* The root of hard links that is to be packed.
WaitingRoot(e) == e.link = Root /\ ~IsComplete(e)

\* Such roots are there and are not empty.
RootsThere(entries) ==
    \A k \in 1 .. Len(entries) :
        WaitingRoot(entries[k]) => entries[k].path \in present /\ data[Inode[entries[k].path]] # <<>>

\* The entries of a list, the files to be packed, and the hard links.
Linked(entries, mods) == (\E m : Roots(entries, m)) /\ InOrder(entries, mods) /\ Distinct(entries)

(* The list a backup starts with. *)
LEMMA LinkedStart ==
    ASSUME FilesOK, NEW S \in SUBSET Data, NEW token \in Nat, NEW chunks \in Seq(S), NEW remote \in Seq(EntryType),
           \A i \in DOMAIN remote : RightEntry(chunks, remote[i])
    PROVE  LET l == Merge(token, ListHardLinks(present, Inode, data, time, Links), remote, chunks)
           IN  Linked(l.entries, l.modified) /\ RootsThere(l.entries)
<1> DEFINE s == ListHardLinks(present, Inode, data, time, Links)
           l == Merge(token, s, remote, chunks)
           n == Len(s)
<1>1. /\ s \in Seq(FreshEntry) /\ n = Cardinality(present) /\ \E m : Roots(s, m)
      /\ \A j \in 1 .. n : /\ s[j].path = Nth(present, j)
                           /\ s[j].link = Root => s[j].size = Len(data[Inode[Nth(present, j)]])
  BY ListingRight, Zenon
<1> HIDE DEF s
<1>2. MergedRight(l, s, n)  BY <1>1, MergedWhole
<1> HIDE DEF l
<1>3. /\ Len(l.entries) = n /\ InOrder(l.entries, l.modified)
      /\ \A j \in 1 .. n : /\ l.entries[j].path = s[j].path /\ l.entries[j].link = s[j].link
                           /\ ~IsComplete(l.entries[j]) => s[j].size # 0
  BY <1>2 DEF MergedRight
<1>4. \E m : Roots(l.entries, m)
  <2>1. PICK m : Roots(s, m)  BY <1>1
  <2>2. \A k \in 1 .. Len(s) : s[k].link = l.entries[k].link  BY <1>3
  <2>3. Roots(l.entries, m)  BY <1>3, <2>1, <2>2, SameRoots
  <2> QED  BY <2>3
<1>5. Distinct(l.entries)
  <2> SUFFICES ASSUME NEW j \in 1 .. n, NEW k \in 1 .. n, l.entries[j].path = l.entries[k].path PROVE j = k
    BY <1>3 DEF Distinct
  <2>1. Nth(present, j) = Nth(present, k)  BY <1>1, <1>3
  <2> QED  BY <1>1, <2>1, NthDiffers
<1>6. RootsThere(l.entries)
  <2> SUFFICES ASSUME NEW k \in 1 .. n, WaitingRoot(l.entries[k])
               PROVE  l.entries[k].path \in present /\ data[Inode[l.entries[k].path]] # <<>>
    BY <1>3 DEF RootsThere
  <2> DEFINE p == Nth(present, k)
  <2>1. l.entries[k].path = p /\ Len(data[Inode[p]]) # 0  BY <1>1, <1>3 DEF WaitingRoot
  <2>2. p \in present  BY <1>1, NthDiffers
  <2> HIDE DEF p
  <2>3. data[Inode[p]] # <<>>
    <3>1. Len(<<>>) = 0  OBVIOUS
    <3> QED  BY <2>1, <3>1
  <2> QED  BY <2>1, <2>2, <2>3
<1>7. Linked(l.entries, l.modified)  BY <1>3, <1>4, <1>5 DEF Linked
<1> QED  BY <1>6, <1>7 DEF l, s

-----------------------------------------------------------------------------
(* Reading a list of which all files were packed and uploaded.             *)

(* How many bytes some of the new chunks have. *)
LEMMA NewLength ==
    ASSUME NEW l \in Lists, NEW c \in Nat, NEW k \in Int, k < Len(l.uploaded)
    PROVE  Length(Chunks(l), c + Len(l.preserved), k + Len(l.preserved)) = Length(l.uploaded, c, k)
<1> DEFINE up == l.uploaded
           n == Len(l.preserved)
           all == Chunks(l)
           x == c + 1
           y == k + 1
<1>1. up \in Seq(Data) /\ n \in Nat /\ Len(up) \in Nat /\ \A i \in 1 .. Len(up) : all[i + n] = up[i]
  <2>1. up \in Seq(Data)  BY DEF Lists
  <2> QED  BY <2>1, NewChunks
<1>2. x \in Int /\ y \in Int /\ \A i \in x .. y : i \in 1 .. Len(up)  BY <1>1
<1>3. (c + n) + 1 = x + n /\ (k + n) + 1 = y + n
  <2> HIDE DEF n
  <2> QED  BY <1>1
<1> HIDE DEF up, n, all, x, y
<1>4. \A i \in x .. y : up[i] \in Data /\ all[i + n] = up[i]  BY <1>1, <1>2
<1>5. SubSeq(all, x + n, y + n) = SubSeq(up, x, y)
  <2>1. n \in Int /\ x \in Int /\ y \in Int  BY <1>1, <1>2
  <2> QED  BY <1>4, <2>1, SameStretch
<1>6. Length(all, c + n, k + n) = Len(FlattenSeq(SubSeq(all, x + n, y + n)))  BY <1>3, Zenon DEF Length
<1>7. Length(up, c, k) = Len(FlattenSeq(SubSeq(up, x, y)))  BY Zenon DEF Length, x, y
<1> QED  BY <1>5, <1>6, <1>7, Zenon DEF all, n, up

(* A packed file passes the check of its entry. *)
LEMMA FilledChecks ==
    ASSUME NEW l \in Lists, NEW c \in Nat, NEW k \in Nat, c <= k, k < Len(l.uploaded),
           NEW from \in Nat, from < Len(l.uploaded[c + 1]), NEW size \in Nat, size > 0, NEW to \in Nat,
           Before(l.uploaded, k) + to = Before(l.uploaded, c) + (from + size),
           Before(l.uploaded, c) + (from + size) <= Before(l.uploaded, k + 1),
           NEW e, e.size = size, e.startChunk = c + Len(l.preserved), e.endChunk = k + Len(l.preserved),
           e.startOffset = from, e.endOffset = to
    PROVE  checkEntry(Chunks(l), e)
<1> DEFINE up == l.uploaded
           n == Len(l.preserved)
           all == Chunks(l)
           B(i) == Before(up, i)
           L(i, j) == Length(all, i, j)
<1>1. up \in Seq(Data) /\ n \in Nat /\ Len(up) \in Nat /\ Len(all) = n + Len(up)  BY NewChunks DEF Lists
<1>2. /\ B(c) \in Nat /\ B(k) \in Nat /\ B(k + 1) = B(k) + Len(up[k + 1]) /\ B(c + 1) = B(c) + Len(up[c + 1])
      /\ Len(up[k + 1]) \in Nat /\ Len(up[c + 1]) \in Nat
  <2>1. c < Len(up)  BY <1>1
  <2> QED  BY <1>1, <2>1, BeforeNext
<1>3. L(c + n, c + n) = Len(up[c + 1]) /\ L(k + n, k + n) = Len(up[k + 1]) /\ L(c + n, (k + n) - 1) = B(k) - B(c)
  <2>1. Length(up, c, c) = B(c + 1) - B(c)
    <3>1. c \in 0 .. Len(up) /\ c + 1 \in c .. Len(up) /\ (c + 1) - 1 = c  BY <1>1
    <3> QED  BY <1>1, <3>1, Parts
  <2>2. Length(up, k, k) = B(k + 1) - B(k)
    <3>1. k \in 0 .. Len(up) /\ k + 1 \in k .. Len(up) /\ (k + 1) - 1 = k  BY <1>1
    <3> QED  BY <1>1, <3>1, Parts
  <2>3. Length(up, c, k - 1) = B(k) - B(c)
    <3>1. c \in 0 .. Len(up) /\ k \in c .. Len(up)  BY <1>1
    <3> QED  BY <1>1, <3>1, Parts
  <2>4. L(c + n, c + n) = Length(up, c, c)
    <3>1. c \in Int /\ c < Len(l.uploaded)  BY <1>1
    <3> QED  BY <3>1, NewLength
  <2>5. L(k + n, k + n) = Length(up, k, k)
    <3>1. k \in Int  OBVIOUS
    <3> QED  BY <3>1, NewLength
  <2>6. L(c + n, (k + n) - 1) = Length(up, c, k - 1)
    <3> DEFINE j == k - 1
    <3>1. j \in Int /\ j < Len(l.uploaded) /\ (k + n) - 1 = j + n  BY <1>1
    <3> HIDE DEF j
    <3>2. L(c + n, j + n) = Length(up, c, j)  BY <3>1, NewLength
    <3> QED  BY <3>1, <3>2 DEF j
  <2> HIDE DEF B, L, up, n
  <2> QED  BY <1>2, <2>1, <2>2, <2>3, <2>4, <2>5, <2>6
<1> HIDE DEF up, n, B
<1>4. /\ Len(up) \in Nat /\ from < Len(up[c + 1]) /\ B(k) + to = B(c) + (from + size)
      /\ B(c) + (from + size) <= B(k + 1) /\ k < Len(up)
      /\ e.startChunk = c + n /\ e.endChunk = k + n
  BY <1>1 DEF up, B, n
<1>5. /\ 0 <= c + n /\ c + n <= k + n /\ k + n < Len(all)
      /\ from < L(c + n, c + n) /\ to <= L(k + n, k + n)
      /\ size = L(c + n, (k + n) - 1) - from + to
  <2> DEFINE u == Len(up[c + 1])
             v == Len(up[k + 1])
             x == B(c)
             y == B(k)
  <2>1. /\ x \in Nat /\ y \in Nat /\ B(k + 1) = y + v /\ v \in Nat /\ u \in Nat /\ n \in Nat /\ Len(up) \in Nat
        /\ y + to = x + (from + size) /\ x + (from + size) <= y + v /\ from < u
    BY <1>1, <1>2, <1>4
  <2>2. 0 <= c + n /\ c + n <= k + n /\ k + n < Len(all)  BY <1>1, <1>4
  <2>3. L(c + n, c + n) = u /\ L(k + n, k + n) = v /\ L(c + n, (k + n) - 1) = y - x  BY <1>3
  <2> HIDE DEF L, all, u, v, x, y
  <2>4. to <= v /\ size = (y - x) - from + to  BY <2>1
  <2> QED  BY <2>1, <2>2, <2>3, <2>4
<1> QED  BY <1>4, <1>5 DEF checkEntry, L

(* The places of the files do not come before those of earlier files. *)
LEMMA PlacesGrow ==
    ASSUME NEW n \in Nat, NEW pos \in [1 .. n + 1 -> Nat], \A j \in 1 .. n : pos[j] <= pos[j + 1]
    PROVE  \A j \in 1 .. n + 1 : pos[j] <= pos[n + 1]
<1> DEFINE G == {i \in 0 .. n : pos[(n + 1) - i] <= pos[n + 1]}
<1>1. 0 \in G
  <2>1. (n + 1) - 0 = n + 1 /\ pos[n + 1] \in Nat /\ 0 \in 0 .. n  OBVIOUS
  <2> QED  BY <2>1
<1>2. ASSUME NEW i \in 1 .. n, i - 1 \in G PROVE i \in G
  <2> DEFINE j == (n + 1) - i
  <2>1. j \in 1 .. n /\ (n + 1) - (i - 1) = j + 1 /\ i \in 0 .. n /\ j \in 1 .. n + 1 /\ j + 1 \in 1 .. n + 1  OBVIOUS
  <2>2. pos[j + 1] <= pos[n + 1] /\ pos[j] <= pos[j + 1]  BY <1>2, <2>1
  <2>3. pos[j] \in Nat /\ pos[j + 1] \in Nat /\ pos[n + 1] \in Nat  BY <2>1
  <2>4. pos[j] <= pos[n + 1]
    <3> HIDE DEF j
    <3> QED  BY <2>2, <2>3
  <2> QED  BY <2>1, <2>4
<1> HIDE DEF G
<1>3. \A i \in 0 .. n : i \in G  BY <1>1, <1>2, UpTo
<1>4. ASSUME NEW j \in 1 .. n + 1 PROVE pos[j] <= pos[n + 1]
  <2>1. (n + 1) - j \in 0 .. n /\ (n + 1) - ((n + 1) - j) = j  OBVIOUS
  <2>2. (n + 1) - j \in G  BY <1>3, <2>1
  <2> QED  BY <2>1, <2>2 DEF G
<1> QED  BY <1>4

\* All that was read is in the chunks that were uploaded.
Full(l, pos) ==
    /\ LaidOut(l, pos) /\ pos[Len(l.modified) + 1] = Len(FlattenSeq(l.uploaded))
    /\ \A i \in 1 .. Len(l.uploaded) : l.uploaded[i] # <<>>

\* The next file begins within its chunk.
InChunk(up, st) == st.chunk < Len(up) => st.offset < Len(up[st.chunk + 1])

\* From st to r the entry of one more packed file was sent.
Fills(l, st, r, e) ==
    \E f \in EntryType :
        /\ r.out = Append(st.out, f) /\ f.path = e.path /\ f.link = e.link
        /\ r.next = st.next + 1 /\ ~r.error /\ InChunk(l.uploaded, r)

(* Every file is before the end of what was uploaded. *)
LEMMA BeforeEnd ==
    ASSUME NEW l \in Lists, NEW pos, Full(l, pos), NEW j \in 1 .. Len(l.modified)
    PROVE  pos[j + 1] <= Before(l.uploaded, Len(l.uploaded)) /\ Before(l.uploaded, Len(l.uploaded)) \in Nat
<1> DEFINE n == Len(l.modified)
           up == l.uploaded
<1>1. /\ n \in Nat /\ pos \in [1 .. n + 1 -> Nat] /\ pos[n + 1] = Len(FlattenSeq(up)) /\ up \in Seq(Data)
      /\ \A i \in 1 .. n : pos[i + 1] = pos[i] + (IF l.modified[i].size > 0 THEN l.modified[i].size ELSE 0)
  BY DEF Lists, Full, LaidOut, LaidIn
<1>2. \A i \in 1 .. n : l.modified[i].size \in Int
  <2>1. l.modified \in Seq(ModifiedType)  BY DEF Lists
  <2>2. \A i \in 1 .. n : l.modified[i] \in ModifiedType  BY <2>1
  <2> QED  BY <2>2 DEF ModifiedType
<1>3. ASSUME NEW i \in 1 .. n PROVE pos[i] <= pos[i + 1]
  <2>1. pos[i] \in Nat /\ l.modified[i].size \in Int  BY <1>1, <1>2
  <2>2. pos[i + 1] = pos[i] + (IF l.modified[i].size > 0 THEN l.modified[i].size ELSE 0)  BY <1>1
  <2> QED  BY <2>1, <2>2
<1>4. j + 1 \in 1 .. n + 1 /\ n + 1 \in 1 .. n + 1  BY <1>1
<1>5. pos[j + 1] <= pos[n + 1] /\ pos[n + 1] \in Nat
  <2> HIDE DEF n
  <2> QED  BY <1>1, <1>3, <1>4, PlacesGrow
<1>6. Before(up, Len(up)) = Len(FlattenSeq(up))
  <2>1. SubSeq(up, 1, Len(up)) = up  BY <1>1, SubSeqFull
  <2> QED  BY <2>1 DEF Before
<1> QED  BY <1>1, <1>5, <1>6

(* A file that was packed is found in the chunks, and passes the check. *)
LEMMA FillGood ==
    ASSUME NEW l \in Lists, NEW pos, Full(l, pos), NEW st \in Reading(l, pos), ~st.error, InChunk(l.uploaded, st),
           NEW e \in EntryType, st.next \in 1 .. Len(l.modified), l.modified[st.next].size > 0
    PROVE  Fills(l, st, fillEntry(l, st, e), e)
<1> DEFINE j == st.next
           c == st.chunk
           from == st.offset
           m == l.modified[j]
           size == m.size
           end == from + size
           up == l.uploaded
           n == Len(l.preserved)
           holds == {i \in c .. (Len(up) - 1) : end <= Length(up, c, i)}
           kk == IF holds = {} THEN Len(up) ELSE Min(holds)
           endOffset == end - Length(up, c, kk - 1)
           filled == [e EXCEPT !.size = size, !.hash = m.hash, !.startChunk = c + n, !.startOffset = from,
                               !.endChunk = kk + n, !.endOffset = endOffset]
           after == AfterEntry(up, kk, endOffset)
           moved == [st EXCEPT !.next = j + 1, !.chunk = after.chunk, !.offset = after.offset]
           k == Min(holds)
           B(i) == Before(up, i)
<1>1. fillEntry(l, st, e) = IF holds = {} THEN [st EXCEPT !.error = TRUE] ELSE Send(l, moved, filled)
  BY Zenon DEF fillEntry
<1>2. up \in Seq(Data) /\ n \in Nat /\ Len(up) \in Nat  BY NewChunks DEF Lists
<1>3. /\ st \in ReadType /\ c \in 0 .. Len(up) /\ from \in Nat /\ B(c) + from = pos[j] /\ j \in Nat
  BY DEF Reading, ReadType
<1>4. m \in ModifiedType /\ size \in Nat /\ size > 0 /\ m.hash \in Data
  <2>1. l.modified \in Seq(ModifiedType)  BY DEF Lists
  <2>2. m \in ModifiedType  BY <2>1
  <2> QED  BY <2>2 DEF ModifiedType
<1>5. pos[j + 1] = pos[j] + size  BY <1>4 DEF Full, LaidOut, LaidIn
<1>6. end \in Nat /\ end > 0  BY <1>3, <1>4, SMTT(60)
<1>7. pos[j + 1] <= B(Len(up)) /\ B(Len(up)) \in Nat  BY BeforeEnd
<1>8. \A i \in 1 .. Len(up) : up[i] # <<>>  BY DEF Full
<1>9. c < Len(up) => from < Len(up[c + 1])  BY DEF InChunk
<1> HIDE DEF m, size, up, n, c, from, j
<1>10. B(c) \in Nat /\ B(c) + end = pos[j + 1]
  <2>1. B(c) \in Nat
    <3>1. Len(up) \in c .. Len(up)  BY <1>2, <1>3
    <3> QED  BY <1>2, <1>3, <3>1, Parts
  <2> HIDE DEF B
  <2>2. B(c) + (from + size) = (B(c) + from) + size  BY <1>3, <1>4, <2>1
  <2> QED  BY <1>3, <1>5, <2>1, <2>2
<1>11. c < Len(up)
  <2>1. CASE c = Len(up)
    <3>1. B(c) + end <= B(c)  BY <1>7, <1>10, <2>1
    <3> HIDE DEF B, end
    <3> QED  BY <1>6, <1>10, <3>1
  <2> QED  BY <1>2, <1>3, <2>1
<1>12. holds # {}
  <2>1. Len(up) - 1 \in c .. (Len(up) - 1)  BY <1>2, <1>3, <1>11
  <2>2. Length(up, c, Len(up) - 1) = B(Len(up)) - B(c)
    <3>1. Len(up) \in c .. Len(up)  BY <1>2, <1>3
    <3> QED  BY <1>2, <1>3, <3>1, Parts
  <2>3. end <= Length(up, c, Len(up) - 1)
    <3> HIDE DEF B, end
    <3> QED  BY <1>6, <1>7, <1>10, <2>2
  <2> QED  BY <2>1, <2>3
<1>13. kk = k  BY <1>12
<1> HIDE DEF kk
<1>14. /\ k \in c .. (Len(up) - 1) /\ Length(up, c, k - 1) = B(k) - B(c)
       /\ B(k) \in Nat /\ B(k + 1) \in Nat /\ B(k) < B(c) + end /\ B(c) + end <= B(k + 1)
  <2> HIDE DEF end, k
  <2>1. k = Min(holds)  BY DEF k
  <2>2. /\ holds \in SUBSET (c .. (Len(up) - 1))
        /\ \A i \in c .. (Len(up) - 1) : i \in holds <=> end <= Length(up, c, i)
    OBVIOUS
  <2>3. up \in Seq(Data) /\ c \in 0 .. Len(up) /\ end \in Nat /\ end > 0 /\ holds # {}  BY <1>2, <1>3, <1>6, <1>12
  <2> HIDE DEF holds
  <2> QED  BY <2>1, <2>2, <2>3, EndsIn, SMTT(120)
<1> HIDE DEF k, holds
<1>15. c \in Nat /\ k \in Nat /\ c <= k /\ k < Len(up)  BY <1>2, <1>3, <1>14
<1>16. B(k + 1) = B(k) + Len(up[k + 1]) /\ Len(up[k + 1]) \in Nat  BY <1>2, <1>15, BeforeNext
<1>17. /\ endOffset = (B(c) + end) - B(k) /\ endOffset \in Nat /\ B(k) + endOffset = B(c) + end
       /\ endOffset <= Len(up[k + 1])
  <2>1. endOffset = end - (B(k) - B(c))
    <3>1. Length(up, c, kk - 1) = B(k) - B(c)  BY <1>13, <1>14, Zenon
    <3> QED  BY <3>1, Zenon
  <2> HIDE DEF endOffset, B, end, moved, filled, after
  <2> DEFINE x == B(k)
             y == B(c)
             v == Len(up[k + 1])
  <2>2. x \in Nat /\ y \in Nat /\ v \in Nat /\ end \in Nat  BY <1>6, <1>10, <1>14, <1>16
  <2>3. x < y + end /\ y + end <= x + v  BY <1>14, <1>16
  <2> HIDE DEF x, y, v
  <2>4. end - (x - y) = (y + end) - x /\ (y + end) - x \in Nat /\ x + ((y + end) - x) = y + end /\ (y + end) - x <= v
    BY <2>2, <2>3
  <2> QED  BY <2>1, <2>4, Zenon DEF x, y, v
<1>18. filled \in EntryType /\ filled.size = size /\ filled.startChunk = c + n /\ filled.startOffset = from
       /\ filled.endChunk = k + n /\ filled.endOffset = endOffset /\ filled.path = e.path /\ filled.link = e.link
  <2>1. size \in Int /\ m.hash \in Data /\ c + n \in Int /\ from \in Int /\ k + n \in Int /\ endOffset \in Int
    BY <1>2, <1>3, <1>4, <1>15, <1>17
  <2> HIDE DEF endOffset
  <2> QED  BY <1>13, <2>1 DEF EntryType
<1>19. after.chunk < Len(up) => after.offset < Len(up[after.chunk + 1])
  <2>1. CASE endOffset = Len(up[k + 1])
    <3>1. after = [chunk |-> k + 1, offset |-> 0]  BY <1>13, <2>1, Zenon DEF AfterEntry
    <3> HIDE DEF after
    <3>2. after.chunk = k + 1 /\ after.offset = 0  BY <3>1
    <3>3. k + 1 < Len(up) => 0 < Len(up[(k + 1) + 1])
      <4>1. SUFFICES ASSUME k + 1 < Len(up) PROVE 0 < Len(up[(k + 1) + 1])  OBVIOUS
      <4> DEFINE i == (k + 1) + 1
      <4>2. i \in 1 .. Len(up)  BY <1>2, <1>15, <4>1
      <4> HIDE DEF i
      <4>3. up[i] \in Seq(Nat) /\ up[i] # <<>>  BY <1>2, <1>8, <4>2 DEF Data
      <4>4. Len(up[i]) \in Nat /\ Len(up[i]) # 0  BY <4>3
      <4> QED  BY <4>4 DEF i
    <3> QED  BY <3>2, <3>3
  <2>2. CASE endOffset # Len(up[k + 1])
    <3>1. after = [chunk |-> k, offset |-> endOffset]  BY <1>13, <2>2, Zenon DEF AfterEntry
    <3> HIDE DEF after, endOffset
    <3>2. after.chunk = k /\ after.offset = endOffset  BY <3>1
    <3>3. endOffset < Len(up[k + 1])  BY <1>16, <1>17, <2>2
    <3> QED  BY <3>2, <3>3
  <2> QED  BY <2>1, <2>2
<1> HIDE DEF filled, endOffset
<1>20. checkEntry(Chunks(l), filled)
  <2>1. from < Len(up[c + 1])  BY <1>9, <1>11
  <2>2. B(k) + endOffset = B(c) + (from + size) /\ B(c) + (from + size) <= B(k + 1)  BY <1>14, <1>17
  <2> QED  BY <1>3, <1>4, <1>15, <1>17, <1>18, <2>1, <2>2, FilledChecks DEF up, n
<1>21. fillEntry(l, st, e) = [moved EXCEPT !.out = Append(moved.out, filled)]
  <2>1. fillEntry(l, st, e) = Send(l, moved, filled)
    <3> HIDE DEF moved
    <3> QED  BY <1>1, <1>12 DEF holds, filled, moved, endOffset, kk, after
  <2> HIDE DEF moved
  <2> QED  BY <1>20, <2>1, Zenon DEF Send
<1> HIDE DEF after
<1> DEFINE r == fillEntry(l, st, e)
<1>22. /\ r.out = Append(st.out, filled) /\ r.next = j + 1 /\ r.chunk = after.chunk /\ r.offset = after.offset
       /\ r.error = st.error
  <2> DEFINE q == Append(st.out, filled)
  <2> HIDE DEF q
  <2>1. DOMAIN st = {"next", "chunk", "offset", "out", "error"}  BY <1>3 DEF ReadType
  <2>2. moved.out = st.out  BY <2>1
  <2>3. r = [moved EXCEPT !.out = q]  BY <1>21, <2>2, Zenon DEF q
  <2> HIDE DEF r
  <2>4. r.out = q /\ r.next = j + 1 /\ r.chunk = after.chunk /\ r.offset = after.offset /\ r.error = st.error
    BY <2>1, <2>3
  <2> QED  BY <2>4 DEF q
<1> HIDE DEF r
<1>23. InChunk(up, r)  BY <1>19, <1>22, Zenon DEF InChunk
<1> QED  BY <1>18, <1>22, <1>23, Zenon DEF Fills, r, up, j

\* The k-th entry of a list is not dropped.
Stays(l, nx, k) == IsComplete(l.entries[k]) \/ l.modified[nx[k]].size > 0

\* The paths of the first k entries that are not.
Staying(l, nx, k) == {l.entries[i].path : i \in {x \in 1 .. k : Stays(l, nx, x)}}

\* The first k entries were read.
SentRight(l, nx, rt, st, k) ==
    /\ ~st.error /\ st.next = nx[k + 1] /\ InChunk(l.uploaded, st)
    /\ {st.out[i].path : i \in DOMAIN st.out} = Staying(l, nx, k)
    /\ Roots(st.out, rt[k + 1])

(* One more entry is sent. *)
LEMMA SentMore ==
    ASSUME NEW l \in Lists, NEW nx, NEW rt, Numbered(l.entries, rt), NEW k \in 1 .. Len(l.entries), Stays(l, nx, k),
           NEW st, st.out \in Seq(EntryType), SentRight(l, nx, rt, st, k - 1),
           NEW r, NEW e \in EntryType, e.path = l.entries[k].path, e.link = l.entries[k].link,
           r.out = Append(st.out, e), r.next = nx[k + 1], ~r.error, InChunk(l.uploaded, r)
    PROVE  SentRight(l, nx, rt, r, k)
<1>1. k \in Nat /\ k >= 1 /\ (k - 1) + 1 = k
  <2>1. l.entries \in Seq(EntryType)  BY DEF Lists
  <2> QED  BY <2>1
<1>2. {st.out[i].path : i \in DOMAIN st.out} = Staying(l, nx, k - 1) /\ Roots(st.out, rt[k])  BY <1>1 DEF SentRight
<1> DEFINE s == st.out
           n == Len(s)
           q == Append(s, e)
           p == l.entries[k].path
<1>3. /\ s \in Seq(EntryType) /\ n \in Nat /\ DOMAIN s = 1 .. n /\ DOMAIN q = 1 .. n + 1 /\ q[n + 1] = e
      /\ \A i \in 1 .. n : q[i] = s[i]
  OBVIOUS
<1>4. {q[i].path : i \in DOMAIN q} = {s[i].path : i \in DOMAIN s} \cup {p}
  <2> HIDE DEF q, s, n, p
  <2>1. ASSUME NEW x PROVE x \in {q[i].path : i \in DOMAIN q} <=> x \in {s[i].path : i \in DOMAIN s} \cup {p}
    <3>1. ASSUME NEW i \in DOMAIN q, x = q[i].path PROVE x \in {s[j].path : j \in DOMAIN s} \cup {p}
      <4>1. CASE i = n + 1  BY <1>3, <3>1, <4>1 DEF p
      <4>2. CASE i # n + 1
        <5>1. i \in 1 .. n  BY <1>3, <4>2
        <5> QED  BY <1>3, <3>1, <5>1
      <4> QED  BY <4>1, <4>2
    <3>2. ASSUME NEW i \in DOMAIN s, x = s[i].path PROVE x \in {q[j].path : j \in DOMAIN q}
      <4>1. i \in DOMAIN q /\ q[i] = s[i]  BY <1>3
      <4> QED  BY <3>2, <4>1
    <3>3. p \in {q[j].path : j \in DOMAIN q}
      <4>1. n + 1 \in DOMAIN q /\ q[n + 1].path = p  BY <1>3 DEF p
      <4> QED  BY <4>1
    <3> QED  BY <3>1, <3>2, <3>3
  <2> QED  BY <2>1
<1>5. Staying(l, nx, k) = Staying(l, nx, k - 1) \cup {p}
  <2>1. {x \in 1 .. k : Stays(l, nx, x)} = {x \in 1 .. k - 1 : Stays(l, nx, x)} \cup {k}  BY <1>1
  <2> QED  BY <2>1 DEF Staying
<1>6. {r.out[i].path : i \in DOMAIN r.out} = Staying(l, nx, k)
  <2>1. r.out = q  OBVIOUS
  <2> HIDE DEF q, s, n, p
  <2> QED  BY <1>2, <1>4, <1>5, <2>1 DEF s
<1>7. Roots(r.out, rt[k + 1])
  <2>1. rt[k + 1] = rt[k] + (IF e.link = Root THEN 1 ELSE 0) /\ (e.link >= 0 => e.link < rt[k])  BY DEF Numbered
  <2>2. Roots(Append(st.out, e), rt[k] + (IF e.link = Root THEN 1 ELSE 0))  BY <1>2, <2>1, MoreRoots
  <2> QED  BY <2>1, <2>2
<1> QED  BY <1>6, <1>7 DEF SentRight

(* An entry is dropped that is no root. *)
LEMMA SentLess ==
    ASSUME NEW l \in Lists, NEW nx, NEW rt, Numbered(l.entries, rt), NEW k \in 1 .. Len(l.entries), ~Stays(l, nx, k),
           l.entries[k].link # Root, NEW st, SentRight(l, nx, rt, st, k - 1),
           NEW r, r.out = st.out, r.next = nx[k + 1], ~r.error, InChunk(l.uploaded, r)
    PROVE  SentRight(l, nx, rt, r, k)
<1>1. k \in Nat /\ k >= 1 /\ (k - 1) + 1 = k
  <2>1. l.entries \in Seq(EntryType)  BY DEF Lists
  <2> QED  BY <2>1
<1>2. {st.out[i].path : i \in DOMAIN st.out} = Staying(l, nx, k - 1) /\ Roots(st.out, rt[k])  BY <1>1 DEF SentRight
<1>3. Staying(l, nx, k) = Staying(l, nx, k - 1)
  <2>1. {x \in 1 .. k : Stays(l, nx, x)} = {x \in 1 .. k - 1 : Stays(l, nx, x)}
    <3>1. ASSUME NEW x \in 1 .. k, Stays(l, nx, x) PROVE x \in 1 .. k - 1
      <4>1. x # k  BY <3>1
      <4> QED  BY <1>1, <4>1
    <3>2. \A x \in 1 .. k - 1 : x \in 1 .. k  BY <1>1
    <3> QED  BY <3>1, <3>2
  <2> QED  BY <2>1, Zenon DEF Staying
<1>4. rt[k + 1] = rt[k]
  <2>1. rt[k + 1] = rt[k] + 0  BY DEF Numbered
  <2>2. rt[k] \in Nat
    <3>1. rt \in [1 .. Len(l.entries) + 1 -> Nat]  BY DEF Numbered
    <3>2. Len(l.entries) \in Nat  BY DEF Lists
    <3> QED  BY <3>1, <3>2
  <2> QED  BY <2>1, <2>2
<1> QED  BY <1>2, <1>3, <1>4 DEF SentRight

(* One more entry of a list that was packed to its end. *)
LEMMA ReadMore ==
    ASSUME NEW l \in Lists, NEW pos, Full(l, pos), KeptRight(l), NEW nx, Matched(l.entries, l.modified, nx),
           NEW rt, Numbered(l.entries, rt), NEW k \in 1 .. Len(l.entries), l.entries[k].link = Root => Stays(l, nx, k),
           NEW st \in Reading(l, pos), SentRight(l, nx, rt, st, k - 1)
    PROVE  SentRight(l, nx, rt, fillAndSendEntry(l, st, l.entries[k]), k)
<1> DEFINE e == l.entries[k]
           j == st.next
           m == l.modified[j]
           r == fillAndSendEntry(l, st, e)
<1>1. k \in Nat /\ (k - 1) + 1 = k /\ e \in EntryType
  <2>1. l.entries \in Seq(EntryType)  BY DEF Lists
  <2> QED  BY <2>1
<1>2. /\ ~st.error /\ j = nx[k] /\ InChunk(l.uploaded, st)  BY <1>1 DEF SentRight
<1>3. st \in ReadType /\ st.out \in Seq(EntryType) /\ j \in Nat  BY DEF Reading, ReadType
<1>4. /\ nx[k + 1] = nx[k] + (IF IsComplete(e) THEN 0 ELSE 1)
      /\ ~IsComplete(e) => nx[k] \in 1 .. Len(l.modified) /\ l.modified[nx[k]].path = e.path
  BY DEF Matched
<1>5. CASE IsComplete(e)
  <2>1. checkEntry(Chunks(l), e)
    <3>1. Placed(l.preserved, e) /\ l.preserved \in Seq(Data)  BY <1>5 DEF KeptRight, Lists
    <3>2. /\ Chunks(l) \in Seq(Data) /\ Len(l.preserved) <= Len(Chunks(l))
          /\ \A i \in 1 .. Len(l.preserved) : Chunks(l)[i] = l.preserved[i]
      BY NewChunks
    <3> HIDE DEF e
    <3>3. Placed(Chunks(l), e)  BY <1>1, <3>1, <3>2, StillPlaced
    <3> QED  BY <3>3 DEF Placed, RightEntry
  <2> DEFINE q == Append(st.out, e)
  <2>2. r = [st EXCEPT !.out = q]
    <3>1. r = Send(l, st, e)  BY <1>2, <1>5, Zenon DEF fillAndSendEntry
    <3> QED  BY <2>1, <3>1, Zenon DEF Send
  <2> HIDE DEF q, r
  <2>3. r.out = q /\ r.next = j /\ r.chunk = st.chunk /\ r.offset = st.offset /\ r.error = st.error
    <3> HIDE DEF e
    <3> QED  BY <1>3, <2>2 DEF ReadType
  <2>4. r.next = nx[k + 1]  BY <1>2, <1>3, <1>4, <1>5, <2>3
  <2>5. InChunk(l.uploaded, r) /\ Stays(l, nx, k)  BY <1>2, <1>5, <2>3 DEF InChunk, Stays
  <2>6. SentRight(l, nx, rt, r, k)  BY <1>1, <1>2, <1>3, <2>3, <2>4, <2>5, SentMore DEF q
  <2> QED  BY <2>6 DEF r
<1>6. CASE ~IsComplete(e)
  <2>1. /\ j \in 1 .. Len(l.modified) /\ m.path = e.path /\ nx[k + 1] = j + 1 /\ ~(j > Len(l.modified)) /\ m.size \in Int
    <3>1. l.modified \in Seq(ModifiedType) /\ Len(l.modified) \in Nat  BY DEF Lists
    <3>2. /\ j \in 1 .. Len(l.modified) /\ m.path = e.path /\ nx[k + 1] = j + 1 /\ ~(j > Len(l.modified))
      BY <1>2, <1>4, <1>6, <3>1
    <3>3. m \in ModifiedType  BY <3>1, <3>2
    <3> QED  BY <3>2, <3>3 DEF ModifiedType
  <2>2. r = IF m.size <= 0 THEN [st EXCEPT !.next = @ + 1] ELSE fillEntry(l, st, e)
    BY <1>2, <1>6, <2>1, Zenon DEF fillAndSendEntry
  <2>3. CASE m.size <= 0
    <3>1. r = [st EXCEPT !.next = j + 1]  BY <2>2, <2>3, Zenon
    <3> HIDE DEF r
    <3>2. r.out = st.out /\ r.next = j + 1 /\ r.chunk = st.chunk /\ r.offset = st.offset /\ r.error = st.error
      <4> HIDE DEF m
      <4> QED  BY <1>3, <3>1 DEF ReadType
    <3>3. InChunk(l.uploaded, r)  BY <1>2, <3>2 DEF InChunk
    <3>4. ~Stays(l, nx, k)  BY <1>2, <1>6, <2>1, <2>3 DEF Stays
    <3>5. e.link # Root  BY <3>4
    <3>6. SentRight(l, nx, rt, r, k)  BY <1>2, <2>1, <3>2, <3>3, <3>4, <3>5, SentLess
    <3> QED  BY <3>6 DEF r
  <2>4. CASE ~(m.size <= 0)
    <3>1. r = fillEntry(l, st, e) /\ m.size > 0  BY <2>1, <2>2, <2>4
    <3>2. Fills(l, st, r, e)
      <4>1. st.next \in 1 .. Len(l.modified) /\ l.modified[st.next].size > 0  BY <2>1, <3>1
      <4>2. Fills(l, st, fillEntry(l, st, e), e)  BY <1>1, <1>2, <4>1, FillGood
      <4> QED  BY <3>1, <4>2
    <3> HIDE DEF r
    <3>3. PICK f \in EntryType : /\ r.out = Append(st.out, f) /\ f.path = e.path /\ f.link = e.link
                                 /\ r.next = st.next + 1 /\ ~r.error /\ InChunk(l.uploaded, r)
      BY <3>2 DEF Fills
    <3>4. Stays(l, nx, k)  BY <1>2, <3>1 DEF Stays
    <3>5. SentRight(l, nx, rt, r, k)  BY <1>3, <2>1, <3>3, <3>4, SentMore
    <3> QED  BY <3>5 DEF r
  <2> QED  BY <2>3, <2>4
<1> QED  BY <1>5, <1>6

(* Of a list that was packed to its end everything that stays is sent. *)
LEMMA ReadWhole ==
    ASSUME NEW l \in Lists, NEW pos, Full(l, pos), KeptRight(l), NEW nx, Matched(l.entries, l.modified, nx),
           NEW rt, Numbered(l.entries, rt), \A k \in 1 .. Len(l.entries) : l.entries[k].link = Root => Stays(l, nx, k)
    PROVE  SentRight(l, nx, rt, ReadEntries(l), Len(l.entries))
<1> DEFINE n == Len(l.entries)
           D == ReadStates(l)
           T == Reading(l, pos)
           b == [next |-> 1, chunk |-> 0, offset |-> 0, out |-> <<>>, error |-> FALSE]
           G == {k \in 0 .. n : SentRight(l, nx, rt, D[k], k)}
<1>1. n \in Nat  BY DEF Lists
<1>2. LaidOut(l, pos)  BY DEF Full
<1>3. /\ D \in [0 .. n -> T] /\ D[0] = b /\ \A k \in 1 .. n : D[k] = fillAndSendEntry(l, D[k - 1], l.entries[k])
  BY <1>2, ReadSteps
<1> HIDE DEF D, T
<1>4. 0 \in G
  <2>1. D[0].next = 1 /\ D[0].chunk = 0 /\ D[0].offset = 0 /\ D[0].out = <<>> /\ D[0].error = FALSE  BY <1>3
  <2>2. nx[0 + 1] = 1 /\ rt[0 + 1] = 0  BY DEF Matched, Numbered
  <2>3. InChunk(l.uploaded, D[0])
    <3>1. SUFFICES ASSUME 0 < Len(l.uploaded) PROVE 0 < Len(l.uploaded[0 + 1])  BY <2>1, Zenon DEF InChunk
    <3>2. l.uploaded \in Seq(Data) /\ 1 \in 1 .. Len(l.uploaded)
      <4>1. l.uploaded \in Seq(Data)  BY DEF Lists
      <4> QED  BY <3>1, <4>1
    <3>3. l.uploaded[1] \in Seq(Nat) /\ l.uploaded[1] # <<>>  BY <3>2 DEF Full, Data
    <3> DEFINE c == l.uploaded[1]
    <3>4. c \in Seq(Nat) /\ c # <<>>  BY <3>3
    <3> HIDE DEF c
    <3>5. 0 < Len(c)  BY <3>4
    <3> QED  BY <3>5 DEF c
  <2>4. {D[0].out[i].path : i \in DOMAIN D[0].out} = {} /\ Staying(l, nx, 0) = {}  BY <2>1 DEF Staying
  <2>5. SentRight(l, nx, rt, D[0], 0)  BY <2>1, <2>2, <2>3, <2>4, NoRoots DEF SentRight
  <2> QED  BY <1>1, <2>5
<1>5. ASSUME NEW k \in 1 .. n, k - 1 \in G PROVE k \in G
  <2>1. k \in 0 .. n /\ k - 1 \in 0 .. n /\ SentRight(l, nx, rt, D[k - 1], k - 1)  BY <1>1, <1>5
  <2>2. D[k - 1] \in Reading(l, pos) /\ D[k] = fillAndSendEntry(l, D[k - 1], l.entries[k])  BY <1>3, <2>1 DEF T
  <2>3. SentRight(l, nx, rt, fillAndSendEntry(l, D[k - 1], l.entries[k]), k)  BY <2>1, <2>2, ReadMore
  <2> QED  BY <2>1, <2>2, <2>3
<1> HIDE DEF G
<1>6. n \in G
  <2> HIDE DEF n
  <2>1. n \in 0 .. n  BY <1>1
  <2> QED  BY <1>1, <1>4, <1>5, <2>1, UpTo
<1>7. SentRight(l, nx, rt, D[n], n)  BY <1>6 DEF G
<1>8. ReadEntries(l) = D[n]  BY Zenon DEF ReadEntries, D, n
<1> QED  BY <1>7, <1>8, Zenon DEF n

(* One more entry is coded: its root is there. *)
LEMMA CodeOnward ==
    ASSUME NEW S, NEW chunks, NEW st \in Coding(S, chunks), ~st.panic, NEW e \in EntryType,
           e.link >= 0 => e.link < Len(st.roots)
    PROVE  LET r == uploadEntryInfo(chunks, st, e)
           IN  ~r.panic /\ Len(r.roots) = Len(st.roots) + (IF e.link = Root THEN 1 ELSE 0)
<1> DEFINE r == uploadEntryInfo(chunks, st, e)
           one == IF e.link = Root THEN 1 ELSE 0
           shared == e.startChunk = st.last
           used == SubSeq(chunks, e.startChunk + (IF shared THEN 2 ELSE 1), e.endChunk + 1)
           start == Len(st.chunks) - (IF shared THEN 1 ELSE 0)
           end == start + e.endChunk - e.startChunk
           coded == [e EXCEPT !.startChunk = start - st.end, !.endChunk = end - start]
           root == st.roots[e.link + 1]
           linked == [root.entry EXCEPT !.path = e.path, !.link = e.link,
                               !.startChunk = IF root.entry.size > 0 THEN root.start - st.end ELSE 0,
                               !.endChunk = IF root.entry.size > 0 THEN @ ELSE 0]
           with(x) == IF e.link = Root THEN Append(st.roots, x) ELSE st.roots
<1>1. r = CASE st.panic -> st
            [] ~st.panic /\ e.size > 0 ->
                  [st EXCEPT !.chunks = @ \o used, !.last = e.endChunk, !.end = end, !.out = Append(@, coded),
                             !.roots = with([entry |-> coded, start |-> start])]
            [] ~st.panic /\ e.size <= 0 /\ e.link >= 0 ->
                  IF e.link >= Len(st.roots) THEN [st EXCEPT !.panic = TRUE]
                  ELSE [st EXCEPT !.out = Append(@, linked), !.end = EndAfterLink(st, root)]
            [] OTHER -> [st EXCEPT !.out = Append(@, e), !.roots = with([entry |-> e, start |-> 0])]
  BY Zenon DEF uploadEntryInfo
<1>2. /\ DOMAIN st = {"chunks", "last", "end", "out", "roots", "panic"} /\ st.roots \in Seq(RootType)
      /\ Len(st.roots) \in Nat /\ e.size \in Int /\ e.link \in Int
  <2>1. st \in CodeType(S)  BY DEF Coding
  <2>2. st.roots \in Seq(RootType) /\ DOMAIN st = {"chunks", "last", "end", "out", "roots", "panic"}  BY <2>1 DEF CodeType
  <2> QED  BY <2>2 DEF EntryType
<1>3. ASSUME NEW x PROVE Len(with(x)) = Len(st.roots) + one
  <2>1. Len(Append(st.roots, x)) = Len(st.roots) + 1
    <3> DEFINE s == st.roots
    <3>1. s \in Seq(RootType)  BY <1>2
    <3> HIDE DEF s
    <3>2. Len(Append(s, x)) = Len(s) + 1  BY <3>1, LenProperties
    <3> QED  BY <3>2 DEF s
  <2> QED  BY <1>2, <2>1
<1> HIDE DEF with, used, end, coded, linked, root, start, shared, r
<1>4. CASE e.size > 0
  <2> DEFINE x == with([entry |-> coded, start |-> start])
  <2>1. r = [st EXCEPT !.chunks = @ \o used, !.last = e.endChunk, !.end = end, !.out = Append(@, coded), !.roots = x]
    <3>1. ~(e.size <= 0)  BY <1>2, <1>4
    <3> QED  BY <1>1, <1>4, <3>1, Zenon
  <2>2. Len(x) = Len(st.roots) + one  BY <1>3
  <2> HIDE DEF x
  <2>3. r.panic = st.panic /\ r.roots = x  BY <1>2, <2>1
  <2> QED  BY <2>2, <2>3 DEF r
<1>5. CASE ~(e.size > 0) /\ e.link >= 0
  <2> DEFINE x == EndAfterLink(st, root)
  <2>1. e.size <= 0 /\ ~(e.link >= Len(st.roots)) /\ e.link # Root  BY <1>2, <1>5 DEF Root
  <2>2. r = [st EXCEPT !.out = Append(@, linked), !.end = x]  BY <1>1, <1>5, <2>1, Zenon
  <2> HIDE DEF x
  <2>3. r.panic = st.panic /\ r.roots = st.roots  BY <1>2, <2>2
  <2>4. Len(r.roots) = Len(st.roots) + one  BY <1>2, <2>1, <2>3
  <2> QED  BY <2>3, <2>4 DEF r
<1>6. CASE ~(e.size > 0) /\ ~(e.link >= 0)
  <2> DEFINE x == with([entry |-> e, start |-> 0])
  <2>1. r = [st EXCEPT !.out = Append(@, e), !.roots = x]  BY <1>1, <1>6, Zenon
  <2>2. Len(x) = Len(st.roots) + one  BY <1>3
  <2> HIDE DEF x
  <2>3. r.panic = st.panic /\ r.roots = x  BY <1>2, <2>1
  <2> QED  BY <2>2, <2>3 DEF r
<1> QED  BY <1>4, <1>5, <1>6

(* The encoding of entries whose hard links refer to earlier roots. *)
LEMMA EncodeWhole ==
    ASSUME NEW S \in SUBSET Data, NEW chunks \in Seq(S), NEW sent \in Seq(EntryType),
           \A i \in DOMAIN sent : Placed(chunks, sent[i]), NEW m, Roots(sent, m)
    PROVE  ~EncodeStates(chunks, sent)[Len(sent)].panic
<1> DEFINE n == Len(sent)
           D == EncodeStates(chunks, sent)
           T == Coding(S, chunks)
           b == [chunks |-> <<>>, last |-> -1, end |-> 0, out |-> <<>>, roots |-> <<>>, panic |-> FALSE]
<1>1. n \in Nat /\ \A k \in 1 .. n : sent[k] \in EntryType  OBVIOUS
<1>2. PICK rt : Numbered(sent, rt)  BY DEF Roots
<1>3. /\ D \in [0 .. n -> T] /\ D[0] = b /\ \A k \in 1 .. n : D[k] = uploadEntryInfo(chunks, D[k - 1], sent[k])
  BY EncodeSteps
<1>4. /\ rt[1] = 0
      /\ \A k \in 1 .. n : /\ rt[k + 1] = rt[k] + (IF sent[k].link = Root THEN 1 ELSE 0)
                           /\ sent[k].link >= 0 => sent[k].link < rt[k]
  BY <1>2 DEF Numbered
<1> HIDE DEF D, T, n
<1> DEFINE G == {k \in 0 .. n : ~D[k].panic /\ Len(D[k].roots) = rt[k + 1]}
<1>5. 0 \in G
  <2>1. ~D[0].panic /\ D[0].roots = <<>>  BY <1>3
  <2>2. Len(<<>>) = 0 /\ rt[0 + 1] = 0  BY <1>4
  <2> QED  BY <1>1, <2>1, <2>2
<1>6. ASSUME NEW k \in 1 .. n, k - 1 \in G PROVE k \in G
  <2> DEFINE st == D[k - 1]
             e == sent[k]
  <2>1. k \in 0 .. n /\ k - 1 \in 0 .. n /\ (k - 1) + 1 = k  BY <1>1
  <2>2. st \in T /\ e \in EntryType /\ ~st.panic /\ Len(st.roots) = rt[k] /\ D[k] = uploadEntryInfo(chunks, st, e)
    BY <1>1, <1>3, <1>6, <2>1
  <2>3. rt[k + 1] = rt[k] + (IF e.link = Root THEN 1 ELSE 0) /\ (e.link >= 0 => e.link < rt[k])  BY <1>4
  <2> HIDE DEF st, e
  <2>4. ~D[k].panic /\ Len(D[k].roots) = Len(st.roots) + (IF e.link = Root THEN 1 ELSE 0)
    <3>1. st \in Coding(S, chunks) /\ (e.link >= 0 => e.link < Len(st.roots))  BY <2>2, <2>3 DEF T
    <3> DEFINE x == uploadEntryInfo(chunks, st, e)
    <3>2. ~x.panic /\ Len(x.roots) = Len(st.roots) + (IF e.link = Root THEN 1 ELSE 0)
      BY <2>2, <3>1, CodeOnward, Zenon
    <3> QED  BY <2>2, <3>2, Zenon
  <2> QED  BY <2>1, <2>2, <2>3, <2>4
<1> HIDE DEF G
<1>7. n \in G
  <2>1. n \in 0 .. n  BY <1>1
  <2> QED  BY <1>1, <1>5, <1>6, <2>1, UpTo
<1>8. ~D[n].panic  BY <1>7 DEF G
<1> QED  BY <1>8 DEF D, n

-----------------------------------------------------------------------------
(* Hard links throughout a backup.                                         *)

\* Roots that were packed were not empty, and neither is the one that is being packed.
RootsPacked(p, entries, mods, k, rd) ==
    \A i \in 1 .. Len(entries), j \in 1 .. Len(mods) :
        WaitingRoot(entries[i]) /\ mods[j].path = entries[i].path =>
            /\ j < k \/ (j = k /\ p = "hash") => mods[j].size > 0
            /\ j = k /\ p = "read" => rd # <<>>

LinkInv ==
    pc # "idle" =>
        /\ Linked(list.entries, list.modified) /\ RootsThere(list.entries)
        /\ RootsPacked(pc, list.entries, list.modified, at, read)

(* Where neither the files nor the entries change. *)
LEMMA LinkKept ==
    ASSUME LinkInv, pc # "idle", files' = files, list'.entries = list.entries, list'.modified = list.modified,
           at' = at, read' = read, pc' = pc \/ pc' \in {"failed", "delete"}
    PROVE  LinkInv'
<1>1. /\ Linked(list.entries, list.modified) /\ RootsThere(list.entries)
      /\ RootsPacked(pc, list.entries, list.modified, at, read)
  BY DEF LinkInv
<1>2. RootsThere(list.entries)'  BY <1>1 DEF RootsThere, files
<1>3. RootsPacked(pc', list.entries, list.modified, at, read)
  <2>1. CASE pc' = pc  BY <1>1, <2>1
  <2>2. CASE pc' \in {"failed", "delete"}
    <3>1. pc' # "hash" /\ pc' # "read"  BY <2>2
    <3> QED  BY <1>1, <3>1, Zenon DEF RootsPacked
  <2> QED  BY <2>1, <2>2
<1> QED  BY <1>1, <1>2, <1>3 DEF LinkInv

(* A file changes: a root does not become empty. *)
LEMMA LinkChange ==
    ASSUME IInv, LinkInv, ~RootsMayFail, NEW i \in Inodes, NEW content \in Contents, ChangeFile(i, content)
    PROVE  LinkInv'
<1>1. /\ content = <<>> /\ pc # "idle" /\ (\E p \in Paths : Inode[p] = i /\ IsRootPath(p)) => RootsMayFail
      /\ data' = [data EXCEPT ![i] = content] /\ present' = present
      /\ pc' = pc /\ list' = list /\ at' = at /\ read' = read
  BY DEF ChangeFile, process
<1>2. SUFFICES ASSUME pc # "idle" PROVE LinkInv'  BY <1>1 DEF LinkInv
<1>3. /\ Linked(list.entries, list.modified) /\ RootsThere(list.entries)
      /\ RootsPacked(pc, list.entries, list.modified, at, read)
  BY <1>2 DEF LinkInv
<1>4. FilesOK /\ list.entries \in Seq(EntryType)  BY <1>2 DEF IInv, Running, ListInv, Lists
<1> DEFINE s == list.entries
<1>5. ASSUME NEW k \in 1 .. Len(s), WaitingRoot(s[k])
      PROVE  s[k].path \in present' /\ data'[Inode[s[k].path]] # <<>>
  <2> DEFINE p == s[k].path
  <2>1. p \in present /\ data[Inode[p]] # <<>>  BY <1>3, <1>5 DEF RootsThere
  <2>2. p \in Paths /\ data \in [Inodes -> Contents]  BY <1>4, <2>1 DEF FilesOK
  <2>3. IsRootPath(p)  BY <1>4, <1>5 DEF IsRootPath, WaitingRoot
  <2> HIDE DEF p
  <2>4. CASE Inode[p] = i
    <3>1. content # <<>>  BY <1>1, <1>2, <2>2, <2>3, <2>4
    <3> QED  BY <1>1, <2>1, <2>2, <2>4, <3>1 DEF p
  <2>5. CASE Inode[p] # i
    <3>1. Inode[p] \in Inodes  BY <2>2 DEF Inodes
    <3> QED  BY <1>1, <2>1, <2>2, <2>5, <3>1 DEF p
  <2> QED  BY <2>4, <2>5
<1>6. RootsThere(list.entries)'  BY <1>1, <1>5 DEF RootsThere
<1> QED  BY <1>1, <1>3, <1>6 DEF LinkInv

(* A path disappears: it is not that of a root. *)
LEMMA LinkRemove ==
    ASSUME IInv, LinkInv, ~RootsMayFail, NEW p \in Paths, RemovePath(p)
    PROVE  LinkInv'
<1>1. /\ pc # "idle" => ~IsRootPath(p)
      /\ data' = data /\ present' = present \ {p} /\ pc' = pc /\ list' = list /\ at' = at /\ read' = read
  BY DEF RemovePath, process
<1>2. SUFFICES ASSUME pc # "idle" PROVE LinkInv'  BY <1>1 DEF LinkInv
<1>3. /\ Linked(list.entries, list.modified) /\ RootsThere(list.entries)
      /\ RootsPacked(pc, list.entries, list.modified, at, read)
  BY <1>2 DEF LinkInv
<1>4. list.entries \in Seq(EntryType)  BY <1>2 DEF IInv, Running, ListInv, Lists
<1> DEFINE s == list.entries
<1>5. ASSUME NEW k \in 1 .. Len(s), WaitingRoot(s[k])
      PROVE  s[k].path \in present' /\ data'[Inode[s[k].path]] # <<>>
  <2>1. s[k].path \in present /\ data[Inode[s[k].path]] # <<>>  BY <1>3, <1>5 DEF RootsThere
  <2>2. IsRootPath(s[k].path)  BY <1>4, <1>5 DEF IsRootPath, WaitingRoot
  <2> QED  BY <1>1, <1>2, <2>1, <2>2
<1>6. RootsThere(list.entries)'  BY <1>1, <1>5 DEF RootsThere
<1> QED  BY <1>1, <1>3, <1>6 DEF LinkInv

(* A backup starts. *)
LEMMA LinkStart ==
    ASSUME IInv, NEW quick \in BOOLEAN, StartBackup(quick)
    PROVE  LinkInv'
<1> DEFINE hash == snapshot.revision = 0 \/ ~quick
           remote == IF Resumes(hash) THEN ReadEntries(loadIncompleteSnapshot).out
                     ELSE IF hash THEN <<>> ELSE ListRemoteFiles(snapshot.entries)
           chunks == IF Resumes(hash) THEN Chunks(loadIncompleteSnapshot) ELSE snapshot.chunks
           listing == ListHardLinks(present, Inode, data, time, Links)
<1>1. /\ pc = "idle" /\ pc' = "pack" /\ list' = Merge(runs + 1, listing, remote, chunks) /\ at' = 1
      /\ files' = files
  BY Zenon DEF StartBackup
<1>2. SnapshotInv /\ SavedInv /\ FilesOK /\ runs \in 0 .. MaxRuns  BY DEF IInv
<1>3. Ever \in SUBSET Data  BY <1>2, SafeData
<1>4. hash \in BOOLEAN  OBVIOUS
<1> HIDE DEF hash
<1>5. chunks \in Seq(Ever) /\ remote \in Seq(EntryType) /\ \A k \in DOMAIN remote : RightEntry(chunks, remote[k])
  BY <1>1, <1>2, <1>4, OfferedRight
<1> HIDE DEF remote, chunks
<1>6. runs + 1 \in Nat  BY <1>2
<1>7. Linked(list'.entries, list'.modified) /\ RootsThere(list'.entries)
  <2> DEFINE l == Merge(runs + 1, listing, remote, chunks)
  <2>1. Linked(l.entries, l.modified) /\ RootsThere(l.entries)  BY <1>2, <1>3, <1>5, <1>6, LinkedStart, Zenon
  <2> QED  BY <1>1, <2>1, Zenon
<1>8. RootsThere(list.entries)'  BY <1>1, <1>7 DEF RootsThere, files
<1>9. RootsPacked(pc', list'.entries, list'.modified, at', read')  BY <1>1 DEF RootsPacked
<1> QED  BY <1>7, <1>8, <1>9 DEF LinkInv

(* A file is opened: a root is there, and not empty. *)
LEMMA LinkOpen ==
    ASSUME IInv, LinkInv, OpenFile
    PROVE  LinkInv'
<1> DEFINE s == list.entries
           mods == list.modified
           p == mods[at].path
<1>1. /\ pc = "pack" /\ at <= Len(mods) /\ files' = files /\ list' = list
      /\ \/ Vanished(p) /\ at' = at + 1 /\ pc' = pc /\ read' = read
         \/ ~Vanished(p) /\ pc' = "read" /\ read' = data[Inode[p]] /\ at' = at
  BY DEF OpenFile, Modified
<1>2. Linked(s, mods) /\ RootsThere(s) /\ RootsPacked(pc, s, mods, at, read)  BY <1>1 DEF LinkInv
<1>3. at \in Nat /\ Len(mods) \in Nat
  <2>1. PackInv  BY <1>1 DEF IInv, Running
  <2>2. PICK r, pos : Packing(pc, mods, at, read, r, pos)  BY <2>1 DEF PackInv
  <2>3. Places(mods, at, read, r, pos)  BY <2>2, PackingIs
  <2>4. mods \in Seq(ModifiedType) /\ at \in 1 .. Len(mods) + 1  BY <2>3 DEF Places
  <2> HIDE DEF mods
  <2> QED  BY <2>4
<1>4. ASSUME NEW i \in 1 .. Len(s), WaitingRoot(s[i]), p = s[i].path PROVE ~Vanished(p) /\ data[Inode[p]] # <<>>
  <2>1. s[i].path \in present /\ data[Inode[s[i].path]] # <<>>  BY <1>2, <1>4 DEF RootsThere
  <2> QED  BY <1>4, <2>1 DEF Vanished
<1> HIDE DEF p
<1>5. RootsPacked(pc', s, mods, at', read')
  <2> SUFFICES ASSUME NEW i \in 1 .. Len(s), NEW j \in 1 .. Len(mods), WaitingRoot(s[i]), mods[j].path = s[i].path
               PROVE  /\ j < at' \/ (j = at' /\ pc' = "hash") => mods[j].size > 0
                      /\ j = at' /\ pc' = "read" => read' # <<>>
    BY DEF RootsPacked
  <2>1. j < at => mods[j].size > 0  BY <1>2 DEF RootsPacked
  <2>2. j = at => p = s[i].path  BY DEF p
  <2>3. CASE Vanished(p) /\ at' = at + 1 /\ pc' = pc
    <3>1. j # at  BY <1>4, <2>2, <2>3
    <3> HIDE DEF mods, s
    <3> QED  BY <1>1, <1>3, <2>1, <2>3, <3>1
  <2>4. CASE pc' = "read" /\ read' = data[Inode[p]] /\ at' = at  BY <1>4, <2>1, <2>2, <2>4
  <2> QED  BY <1>1, <2>3, <2>4
<1>6. RootsThere(list.entries)'  BY <1>1, <1>2 DEF RootsThere, files
<1> QED  BY <1>1, <1>2, <1>5, <1>6 DEF LinkInv

\* new is mods but for the size of the k-th file, if there is a size.
Sized(mods, k, new, size) ==
    /\ Len(new) = Len(mods)
    /\ \A j \in 1 .. Len(mods) : /\ new[j].path = mods[j].path
                                 /\ j # k => new[j].size = mods[j].size
                                 /\ j = k => new[j].size = size

(* The files are the same. *)
LEMMA LinkedStill ==
    ASSUME NEW s, NEW mods, NEW k, NEW new, NEW size, Linked(s, mods), Sized(mods, k, new, size)
    PROVE  Linked(s, new)
<1>1. InOrder(s, mods)  BY DEF Linked
<1>2. Len(new) = Len(mods) /\ \A j \in 1 .. Len(mods) : new[j].path = mods[j].path  BY DEF Sized
<1>3. InOrder(s, new)  BY <1>1, <1>2, StillInOrder
<1> QED  BY <1>3 DEF Linked

(* The size or the hash of a file is recorded. *)
LEMMA SizedIs ==
    ASSUME NEW mods \in Seq(ModifiedType), NEW k \in 1 .. Len(mods), NEW size \in Int, NEW hash \in Data
    PROVE  /\ Sized(mods, k, [mods EXCEPT ![k].size = size], size)
           /\ Sized(mods, k, [mods EXCEPT ![k].hash = hash], mods[k].size)
<1> DEFINE m == mods[k]
           a == [m EXCEPT !.size = size]
           b == [m EXCEPT !.hash = hash]
<1>1. m \in ModifiedType  OBVIOUS
<1>2. [mods EXCEPT ![k].size = size] = [mods EXCEPT ![k] = a] /\ [mods EXCEPT ![k].hash = hash] = [mods EXCEPT ![k] = b]
  OBVIOUS
<1>3. a.path = m.path /\ a.size = size /\ b.path = m.path /\ b.size = m.size
  <2> HIDE DEF m
  <2> QED  BY <1>1 DEF ModifiedType
<1> HIDE DEF a, b
<1>4. ASSUME NEW x PROVE /\ Len([mods EXCEPT ![k] = x]) = Len(mods) /\ [mods EXCEPT ![k] = x][k] = x
                         /\ \A j \in 1 .. Len(mods) : j # k => [mods EXCEPT ![k] = x][j] = mods[j]
  OBVIOUS
<1>5. Sized(mods, k, [mods EXCEPT ![k] = a], size)  BY <1>3, <1>4 DEF Sized
<1>6. Sized(mods, k, [mods EXCEPT ![k] = b], m.size)  BY <1>3, <1>4 DEF Sized
<1> QED  BY <1>2, <1>5, <1>6

(* Size and hash are recorded: the size of a root is that of what was read. *)
LEMMA LinkSize ==
    ASSUME IInv, LinkInv, SetSize \/ SetHash
    PROVE  LinkInv'
<1> DEFINE s == list.entries
           mods == list.modified
           new == list'.modified
           size == IF pc = "read" THEN Len(read) ELSE mods[at].size
<1>1. /\ files' = files
      /\ \/ pc = "read" /\ pc' = "hash" /\ list' = [list EXCEPT !.modified[at].size = Len(read)] /\ at' = at /\ read' = read
         \/ pc = "hash" /\ pc' = "pack" /\ list' = [list EXCEPT !.modified[at].hash = read] /\ at' = at + 1
  BY Zenon DEF SetSize, SetHash
<1>2. Linked(s, mods) /\ RootsThere(s) /\ RootsPacked(pc, s, mods, at, read)  BY <1>1 DEF LinkInv
<1>3. at \in 1 .. Len(mods) /\ at \in Nat /\ Len(mods) \in Nat /\ mods \in Seq(ModifiedType) /\ read \in Data
  <2>1. PackInv  BY <1>1 DEF IInv, Running
  <2>2. PICK r, pos : Packing(pc, mods, at, read, r, pos)  BY <2>1 DEF PackInv
  <2>3. Places(mods, at, read, r, pos) /\ at <= Len(mods)  BY <1>1, <2>2, PackingIs
  <2>4. mods \in Seq(ModifiedType) /\ at \in 1 .. Len(mods) + 1 /\ read \in Data  BY <2>3 DEF Places
  <2> HIDE DEF mods
  <2> QED  BY <2>3, <2>4
<1>4. list'.entries = s /\ Sized(mods, at, new, size)
  <2>1. list \in Lists  BY <1>1 DEF IInv, Running, ListInv
  <2>2. CASE pc = "read" /\ list' = [list EXCEPT !.modified[at].size = Len(read)]
    <3> DEFINE x == [mods EXCEPT ![at].size = Len(read)]
    <3>1. Sized(mods, at, x, size)
      <4>1. Len(read) \in Int  BY <1>3 DEF Data
      <4>2. Sized(mods, at, x, Len(read))
        <5> HIDE DEF mods
        <5>1. NoHash \in Data  BY DEF NoHash, Data
        <5> QED  BY <1>3, <4>1, <5>1, SizedIs
      <4> QED  BY <2>2, <4>2
    <3>2. list' = [list EXCEPT !.modified = x]  BY <2>2, Zenon
    <3> HIDE DEF x
    <3>3. list'.entries = s /\ list'.modified = x  BY <2>1, <3>2 DEF Lists
    <3> QED  BY <3>1, <3>3
  <2>3. CASE pc # "read" /\ list' = [list EXCEPT !.modified[at].hash = read]
    <3> DEFINE x == [mods EXCEPT ![at].hash = read]
    <3>1. Sized(mods, at, x, size)
      <4>1. 0 \in Int  OBVIOUS
      <4>2. Sized(mods, at, x, mods[at].size)
        <5> HIDE DEF mods
        <5> QED  BY <1>3, <4>1, SizedIs
      <4> QED  BY <2>3, <4>2
    <3>2. list' = [list EXCEPT !.modified = x]  BY <2>3, Zenon
    <3> HIDE DEF x
    <3>3. list'.entries = s /\ list'.modified = x  BY <2>1, <3>2 DEF Lists
    <3> QED  BY <3>1, <3>3
  <2> QED  BY <1>1, <2>2, <2>3
<1>5. Linked(s, new)  BY <1>2, <1>4, LinkedStill
<1>6. RootsPacked(pc', s, new, at', read')
  <2> SUFFICES ASSUME NEW i \in 1 .. Len(s), NEW j \in 1 .. Len(new), WaitingRoot(s[i]), new[j].path = s[i].path
               PROVE  /\ j < at' \/ (j = at' /\ pc' = "hash") => new[j].size > 0
                      /\ j = at' /\ pc' = "read" => read' # <<>>
    BY DEF RootsPacked
  <2>1. /\ j \in 1 .. Len(mods) /\ mods[j].path = s[i].path /\ (j # at => new[j].size = mods[j].size)
        /\ (j = at => new[j].size = size)
    BY <1>4 DEF Sized
  <2>2. /\ j < at \/ (j = at /\ pc = "hash") => mods[j].size > 0
        /\ j = at /\ pc = "read" => read # <<>>
    BY <1>2, <2>1 DEF RootsPacked
  <2>3. j = at => new[j].size > 0
    <3>1. CASE pc = "read"
      <4>1. j = at => Len(read) > 0  BY <1>3, <2>2, <3>1 DEF Data
      <4> QED  BY <2>1, <3>1, <4>1
    <3>2. CASE pc = "hash"  BY <2>1, <2>2, <3>2
    <3> QED  BY <1>1, <3>1, <3>2
  <2>4. j < at => new[j].size > 0  BY <1>3, <2>1, <2>2
  <2>5. pc' # "read" /\ (j < at' \/ (j = at' /\ pc' = "hash") => j <= at)
    <3> HIDE DEF mods, new
    <3> QED  BY <1>1, <1>3, <2>1
  <2> HIDE DEF mods, new
  <2> QED  BY <1>3, <2>1, <2>3, <2>4, <2>5
<1>7. RootsThere(list.entries)'  BY <1>1, <1>2, <1>4 DEF RootsThere, files
<1> QED  BY <1>4, <1>5, <1>6, <1>7 DEF LinkInv

(* Chunks are sent to the workers and reported: the files of the list are the same. *)
LEMMA LinkReport ==
    ASSUME IInv, LinkInv, CutChunk \/ FlushChunk \/ \E u \in uploads : UploadChunk(u)
    PROVE  LinkInv'
<1>1. pc = "idle" => uploads = {}  BY DEF IInv, NoProcess
<1>2. pc # "idle"  BY <1>1 DEF CutChunk, FlushChunk
<1>3. list \in Lists  BY <1>2 DEF IInv, Running, ListInv
<1>4. /\ files' = files /\ pc' = pc /\ at' = at /\ read' = read
      /\ list' = list \/ \E i, c : list' = AddUploadedChunk(list, i, c)
  <2>1. ASSUME NEW n, SendChunk(n)
        PROVE  /\ files' = files /\ pc' = pc /\ at' = at /\ read' = read
               /\ list' = list \/ \E i, c : list' = AddUploadedChunk(list, i, c)
    BY <2>1, Zenon DEF SendChunk
  <2>2. CASE CutChunk
    <3>1. SendChunk(Min(Cuts(buffer)))  BY <2>2 DEF CutChunk
    <3> QED  BY <2>1, <3>1
  <2>3. CASE FlushChunk
    <3>1. SendChunk(IF Cuts(buffer) = {} THEN Len(buffer) ELSE Min(Cuts(buffer)))  BY <2>3 DEF FlushChunk
    <3> QED  BY <2>1, <3>1
  <2>4. CASE \E u \in uploads : UploadChunk(u)
    <3>1. PICK u \in uploads : UploadChunk(u)  BY <2>4
    <3>2. files' = files /\ pc' = pc /\ at' = at /\ read' = read /\ list' = AddUploadedChunk(list, u.index, u.chunk)
      BY <3>1 DEF UploadChunk
    <3> QED  BY <3>2
  <2> QED  BY <2>2, <2>3, <2>4
<1>5. list'.entries = list.entries /\ list'.modified = list.modified
  <2>1. CASE list' = list  BY <2>1
  <2>2. CASE \E i, c : list' = AddUploadedChunk(list, i, c)
    <3>1. PICK i, c : list' = AddUploadedChunk(list, i, c)  BY <2>2
    <3> DEFINE x == [j \in 1..Max({Len(list.uploaded), i + 1}) |->
                       IF j = i + 1 THEN c ELSE IF j <= Len(list.uploaded) THEN list.uploaded[j] ELSE <<>>]
    <3>2. list' = [list EXCEPT !.uploaded = x]  BY <3>1, Zenon DEF AddUploadedChunk
    <3> HIDE DEF x
    <3> QED  BY <1>3, <3>2 DEF Lists
  <2> QED  BY <1>4, <2>1, <2>2
<1> QED  BY <1>2, <1>4, <1>5, LinkKept

(* Errors, the incomplete snapshot, and the end. *)
LEMMA LinkEnd ==
    ASSUME IInv, LinkInv,
           \/ (\E u \in uploads : UploadFails(u)) \/ ReadFails \/ SaveFiles \/ CalculateChecksum \/ SaveChunks
           \/ Kill \/ UploadSnapshot \/ SnapshotFails \/ deleteIncompleteSnapshot \/ PruneUnused
    PROVE  LinkInv'
<1>0. pc = "idle" => uploads = {} /\ saving.step = "no"  BY DEF IInv, NoProcess, NotSaving
<1>1. \/ pc' = "idle"
      \/ files' = files /\ list' = list /\ at' = at /\ read' = read /\ (pc' = pc \/ pc' \in {"failed", "delete"})
  <2>1. ASSUME NEW then \in {pc, "failed"}, RunAtError(then)
        PROVE  pc' = "idle" \/ (list' = list /\ at' = at /\ read' = read /\ (pc' = pc \/ pc' \in {"failed", "delete"}))
    BY <2>1 DEF RunAtError, Exit
  <2>2. CASE (\E u \in uploads : UploadFails(u)) \/ ReadFails \/ SnapshotFails
    <3>1. files' = files /\ (RunAtError(pc) \/ RunAtError("failed"))  BY <2>2 DEF UploadFails, ReadFails, SnapshotFails
    <3> QED  BY <2>1, <3>1
  <2>3. CASE SaveFiles \/ CalculateChecksum \/ UploadSnapshot
    BY <2>3 DEF SaveFiles, CalculateChecksum, UploadSnapshot
  <2>4. CASE SaveChunks \/ Kill \/ deleteIncompleteSnapshot
    BY <2>4 DEF SaveChunks, Kill, deleteIncompleteSnapshot, Exit
  <2>5. CASE PruneUnused  BY <2>5 DEF PruneUnused, process
  <2> QED  BY <2>2, <2>3, <2>4, <2>5
<1>2. CASE pc' = "idle"  BY <1>2 DEF LinkInv
<1>3. CASE pc' # "idle"
  <2>1. files' = files /\ list' = list /\ at' = at /\ read' = read /\ (pc' = pc \/ pc' \in {"failed", "delete"})
    BY <1>1, <1>3
  <2>2. CASE pc = "idle"
    <3>1. uploads = {} /\ saving.step = "no"  BY <1>0, <2>2
    <3>2. PruneUnused
      <4>1. ~UploadSnapshot /\ ~SnapshotFails  BY <2>2 DEF UploadSnapshot, SnapshotFails, Packed
      <4>2. ~ReadFails /\ ~Kill /\ ~deleteIncompleteSnapshot  BY <2>2 DEF ReadFails, Kill, deleteIncompleteSnapshot
      <4>3. ~SaveFiles /\ ~CalculateChecksum /\ ~SaveChunks  BY <3>1 DEF SaveFiles, CalculateChecksum, SaveChunks
      <4> QED  BY <3>1, <4>1, <4>2, <4>3
    <3>3. pc' = pc  BY <3>2 DEF PruneUnused, process
    <3> QED  BY <1>3, <2>2, <3>3
  <2>3. CASE pc # "idle"  BY <2>1, <2>3, LinkKept
  <2> QED  BY <2>2, <2>3
<1> QED  BY <1>2, <1>3


(* Every step. *)
LEMMA NextLink ==
    ASSUME IInv, LinkInv, ~RootsMayFail, [Next]_vars
    PROVE  LinkInv'
<1>1. CASE UNCHANGED vars
  <2>1. files' = files /\ pc' = pc /\ list' = list /\ at' = at /\ read' = read
    BY <1>1 DEF vars, process
  <2>2. CASE pc = "idle"  BY <2>1, <2>2 DEF LinkInv
  <2>3. CASE pc # "idle"  BY <2>1, <2>3, LinkKept
  <2> QED  BY <2>2, <2>3
<1>2. CASE \E i \in Inodes : \E content \in Contents : ChangeFile(i, content)  BY <1>2, LinkChange
<1>3. CASE \E p \in Paths : RemovePath(p)  BY <1>3, LinkRemove
<1>4. CASE \E quick \in BOOLEAN : StartBackup(quick)  BY <1>4, LinkStart
<1>5. CASE OpenFile \/ CutChunk \/ SetSize \/ SetHash \/ FlushChunk
  BY <1>5, LinkOpen, LinkReport, LinkSize
<1>6. CASE \E u \in uploads : UploadChunk(u) \/ UploadFails(u)  BY <1>6, LinkReport, LinkEnd
<1>7. CASE ReadFails \/ SaveFiles \/ CalculateChecksum \/ SaveChunks \/ Kill  BY <1>7, LinkEnd
<1>8. CASE UploadSnapshot \/ SnapshotFails \/ deleteIncompleteSnapshot \/ PruneUnused  BY <1>8, LinkEnd
<1> QED  BY <1>1, <1>2, <1>3, <1>4, <1>5, <1>6, <1>7, <1>8, Zenon DEF Next

\* The paths of the files that vanished, or were empty when they were packed.
Dropped(mods) == {mods[k].path : k \in {j \in DOMAIN mods : mods[j].size <= 0}}

(* What stays of a list is what was not dropped. *)
LEMMA StayingIs ==
    ASSUME NEW l \in Lists, NEW nx, Matched(l.entries, l.modified, nx), Distinct(l.entries)
    PROVE  Staying(l, nx, Len(l.entries)) = {l.entries[k].path : k \in DOMAIN l.entries} \ Dropped(l.modified)
<1> DEFINE s == l.entries
           mods == l.modified
           n == Len(s)
<1>1. s \in Seq(EntryType) /\ mods \in Seq(ModifiedType) /\ n \in Nat /\ DOMAIN s = 1 .. n /\ DOMAIN mods = 1 .. Len(mods)
  BY DEF Lists
<1>2. \A j \in 1 .. Len(mods) : mods[j].size \in Int
  <2> HIDE DEF mods
  <2>1. \A j \in 1 .. Len(mods) : mods[j] \in ModifiedType  BY <1>1
  <2> QED  BY <2>1 DEF ModifiedType
<1>3. /\ \A k \in 1 .. n : ~IsComplete(s[k]) => nx[k] \in 1 .. Len(mods) /\ mods[nx[k]].path = s[k].path
      /\ \A j \in 1 .. Len(mods) : \E k \in 1 .. n : ~IsComplete(s[k]) /\ nx[k] = j
  BY DEF Matched
<1>4. \A j, k \in 1 .. n : s[j].path = s[k].path => j = k  BY DEF Distinct
<1> DEFINE N == 1 .. n
           M == 1 .. Len(mods)
<1>5. /\ \A j \in M : mods[j].size \in Int
      /\ \A k \in N : ~IsComplete(s[k]) => nx[k] \in M /\ mods[nx[k]].path = s[k].path
      /\ \A j \in M : \E k \in N : ~IsComplete(s[k]) /\ nx[k] = j
      /\ \A j, k \in N : s[j].path = s[k].path => j = k
  BY <1>2, <1>3, <1>4
<1>6. /\ Staying(l, nx, n) = {s[i].path : i \in {x \in N : IsComplete(s[x]) \/ mods[nx[x]].size > 0}}
      /\ {l.entries[k].path : k \in DOMAIN l.entries} = {s[k].path : k \in N}
      /\ Dropped(l.modified) = {mods[k].path : k \in {j \in M : mods[j].size <= 0}}
  BY <1>1, Zenon DEF Staying, Stays, Dropped
<1> HIDE DEF s, mods, n, N, M
<1>7. ASSUME NEW k \in N, NEW j \in M, IsComplete(s[k]) \/ mods[nx[k]].size > 0, mods[j].size <= 0
      PROVE  s[k].path # mods[j].path
  <2>1. PICK i \in N : ~IsComplete(s[i]) /\ nx[i] = j  BY <1>5
  <2>2. mods[j].path = s[i].path  BY <1>5, <2>1
  <2>3. ASSUME s[k].path = mods[j].path PROVE FALSE
    <3>1. i = k  BY <1>5, <2>2, <2>3
    <3> QED  BY <1>5, <1>7, <2>1, <3>1
  <2> QED  BY <2>3
<1>8. ASSUME NEW k \in N, ~(IsComplete(s[k]) \/ mods[nx[k]].size > 0)
      PROVE  \E j \in M : mods[j].size <= 0 /\ mods[j].path = s[k].path
  <2>1. nx[k] \in M /\ mods[nx[k]].path = s[k].path  BY <1>5, <1>8
  <2>2. mods[nx[k]].size <= 0  BY <1>5, <1>8, <2>1
  <2> QED  BY <2>1, <2>2
<1>9. {s[i].path : i \in {x \in N : IsComplete(s[x]) \/ mods[nx[x]].size > 0}}
        = {s[k].path : k \in N} \ {mods[k].path : k \in {j \in M : mods[j].size <= 0}}
  BY <1>7, <1>8
<1>10. Staying(l, nx, n) = {l.entries[k].path : k \in DOMAIN l.entries} \ Dropped(l.modified)  BY <1>6, <1>9
<1> QED  BY <1>10, Zenon DEF n, s

(* All files are packed and all chunks uploaded: the list has what was read, to its end. *)
LEMMA PackedFull ==
    ASSUME IInv, Packed
    PROVE  list \in Lists /\ KeptRight(list) /\ \E pos : Full(list, pos)
<1>1. pc = "pack" /\ at > Len(list.modified) /\ buffer = <<>> /\ uploads = {}  BY DEF Packed, Modified
<1>2. ListInv /\ StepInv /\ PackInv  BY <1>1 DEF IInv, Running
<1>3. PICK C : /\ Uploading(C, list.uploaded, uploads, chunkIndex)
               /\ \E pos : Packing(pc, list.modified, at, read, FlattenSeq(C) \o buffer, pos)
  BY <1>2 DEF PackInv
<1>4. PICK pos : Packing(pc, list.modified, at, read, FlattenSeq(C) \o buffer, pos)  BY <1>3
<1>5. list \in Lists /\ KeptRight(list) /\ buffer \in Data /\ chunkIndex \in Int  BY <1>2 DEF ListInv, StepInv
<1>6. list.uploaded = C /\ \A i \in 1 .. Len(list.uploaded) : list.uploaded[i] # <<>>
  BY <1>1, <1>3, <1>5, UploadingOver
<1>7. Truncated(list.uploaded) = list.uploaded
  <2>1. list.uploaded \in Seq(Data)  BY <1>5 DEF Lists
  <2> QED  BY <1>6, <2>1, TruncatedIs
<1>8. LaidOut(list, pos)  BY <1>3, <1>4, <1>5, <1>7, SavedLaid DEF LaidOut
<1>9. at \in 1 .. Len(list.modified) + 1 /\ pos[at] = Len(FlattenSeq(C) \o buffer)
  BY <1>1, <1>4, PackingIs DEF Places
<1>10. at = Len(list.modified) + 1
  <2>1. Len(list.modified) \in Nat  BY <1>5 DEF Lists
  <2> QED  BY <1>1, <1>9, <2>1
<1>11. FlattenSeq(C) \o buffer = FlattenSeq(C)
  <2>1. Extends(Data, C, C)
    <3>1. C \in Seq(Data)  BY <1>3 DEF Uploading
    <3> QED  BY <3>1 DEF Extends
  <2>2. FlattenSeq(C) \in Data
    <3>1. C \in Seq(Data)  BY <1>3 DEF Uploading
    <3> QED  BY <2>1, <3>1, FlattenExtends
  <2> DEFINE c == FlattenSeq(C)
  <2>3. c \in Seq(Nat)  BY <2>2 DEF Data
  <2> HIDE DEF c
  <2>4. c \o <<>> = c  BY <2>3
  <2> QED  BY <1>1, <2>4 DEF c
<1>12. Full(list, pos)  BY <1>6, <1>8, <1>9, <1>10, <1>11 DEF Full
<1> QED  BY <1>5, <1>12

(* A list that is packed can be read to its end, and encoded. *)
LEMMA PackedWhole ==
    ASSUME IInv, LinkInv
    PROVE  NothingForgotten
<1> DEFINE s == list.entries
           mods == list.modified
           sent == ReadEntries(list)
<1>1. SUFFICES ASSUME Packed
               PROVE  /\ ~sent.error
                      /\ {sent.out[k].path : k \in DOMAIN sent.out} = {s[k].path : k \in DOMAIN s} \ Dropped(mods)
                      /\ ~EncodeEntries(list).panic
  BY Zenon DEF NothingForgotten, Dropped, Modified
<1>2. list \in Lists /\ KeptRight(list) /\ \E pos : Full(list, pos)  BY <1>1, PackedFull
<1>3. PICK pos : Full(list, pos)  BY <1>2
<1>4. pc = "pack" /\ at > Len(mods)  BY <1>1 DEF Packed, Modified
<1>5. Linked(s, mods) /\ RootsPacked(pc, s, mods, at, read)  BY <1>4 DEF LinkInv
<1>6. (\E m : Roots(s, m)) /\ InOrder(s, mods) /\ Distinct(s)  BY <1>5 DEF Linked
<1>7. PICK rt : Numbered(s, rt)  BY <1>6 DEF Roots
<1>8. PICK nx : Matched(s, mods, nx)  BY <1>6 DEF InOrder
<1>9. \A k \in 1 .. Len(s) : s[k].link = Root => Stays(list, nx, k)
  <2> SUFFICES ASSUME NEW k \in 1 .. Len(s), s[k].link = Root, ~IsComplete(s[k])
               PROVE  mods[nx[k]].size > 0
    BY DEF Stays
  <2>1. nx[k] \in 1 .. Len(mods) /\ mods[nx[k]].path = s[k].path  BY <1>8 DEF Matched
  <2>2. nx[k] < at
    <3>1. Len(mods) \in Nat /\ at \in Int
      <4>1. list.modified \in Seq(ModifiedType)  BY <1>2 DEF Lists
      <4>2. PackInv  BY <1>4 DEF IInv, Running
      <4>3. PICK r, q : Packing(pc, list.modified, at, read, r, q)  BY <4>2 DEF PackInv
      <4>4. at \in 1 .. Len(list.modified) + 1  BY <4>3, PackingIs DEF Places
      <4> QED  BY <4>1, <4>4
    <3> QED  BY <1>4, <2>1, <3>1
  <2>3. WaitingRoot(s[k])  BY DEF WaitingRoot
  <2> QED  BY <1>5, <2>1, <2>2, <2>3 DEF RootsPacked
<1>10. SentRight(list, nx, rt, sent, Len(s))  BY <1>2, <1>3, <1>7, <1>8, <1>9, ReadWhole, Zenon
<1>11. /\ ~sent.error /\ {sent.out[k].path : k \in DOMAIN sent.out} = Staying(list, nx, Len(s))
       /\ Roots(sent.out, rt[Len(s) + 1])
  BY <1>10, Zenon DEF SentRight
<1>12. Staying(list, nx, Len(s)) = {s[k].path : k \in DOMAIN s} \ Dropped(mods)  BY <1>2, <1>6, <1>8, StayingIs, Zenon
<1>13. ~EncodeEntries(list).panic
  <2> DEFINE chunks == Chunks(list)
             out == sent.out
  <2>1. out \in Seq(EntryType) /\ \A k \in DOMAIN out : Placed(chunks, out[k])
    BY <1>2, <1>3, ReadRight, Zenon DEF Full
  <2>2. chunks \in Seq(Data)  BY <1>2 DEF Chunks, Lists
  <2>3. Roots(out, rt[Len(s) + 1])  BY <1>11
  <2>4. EncodeEntries(list) = EncodeStates(chunks, out)[Len(out)]  BY Zenon DEF EncodeEntries
  <2> HIDE DEF chunks, out
  <2>5. ~EncodeStates(chunks, out)[Len(out)].panic  BY <2>1, <2>2, <2>3, EncodeWhole
  <2> QED  BY <2>4, <2>5, Zenon
<1> QED  BY <1>11, <1>12, <1>13, Zenon


(* If the files of hard-linked roots stay where they are, and do not become empty, while a backup *)
(* runs, then, when all files are packed, the list can be read to its end, every file that was     *)
(* listed is in it, but for those that vanished or were empty, and the hard links find their roots *)
(* when it is encoded.                                                                             *)
THEOREM NothingLost == ASSUME ~RootsMayFail PROVE Spec => []NothingForgotten
<1>1. Init => LinkInv  BY DEF Init, NoProcess, LinkInv
<1>2. IInv /\ LinkInv /\ [Next]_vars => IInv' /\ LinkInv'  BY NextInv, NextLink
<1>3. IInv /\ LinkInv => NothingForgotten  BY PackedWhole
<1> QED  BY <1>1, <1>2, <1>3, InitInv, PTL DEF Spec

=============================================================================
