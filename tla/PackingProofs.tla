--------------------------- MODULE PackingProofs ----------------------------
(***************************************************************************)
(* Proofs about the chunk maker of module LocalFiles, for files of every   *)
(* length and content, every pair of chunk sizes, every hash and reads of  *)
(* every length.                                                           *)
(***************************************************************************)
EXTENDS LocalFiles, CommonLemmas, SequenceTheorems

-----------------------------------------------------------------------------
(* The ring buffer.                                                        *)

LEMMA FunctionsAreSequences ==
    ASSUME NEW S, NEW n \in Nat, NEW f \in [1 .. n -> S]
    PROVE  f \in Seq(S) /\ Len(f) = n
OBVIOUS

LEMMA Wrapped ==
    ASSUME NEW c \in Nat \ {0}, NEW a \in Nat, a < 2 * c
    PROVE  a % c = IF a < c THEN a ELSE a - c
OBVIOUS

(* What is buffered, and where. *)
LEMMA BufferedBytes ==
    ASSUME NEW m, Sound(m)
    PROVE  /\ Buffered(m) \in Seq(Nat) /\ Len(Buffered(m)) = m.size
           /\ \A i \in 1 .. m.size :
                 /\ m.start + i - 1 < 2 * m.min => Buffered(m)[i] = m.buffer[m.start + i - 1]
                 /\ m.start + i - 1 >= 2 * m.min => Buffered(m)[i] = m.buffer[m.start + i - 1 - 2 * m.min]
<1> DEFINE c == 2 * m.min
           Place(i) == (m.start + (i - 1)) % c
<1>1. /\ c \in Nat \ {0} /\ m.start \in Nat /\ m.start < c /\ m.size \in Nat /\ m.size <= c
      /\ m.buffer \in [0 .. c - 1 -> Nat]
  BY DEF Sound
<1>2. ASSUME NEW i \in 1 .. m.size
      PROVE  /\ Place(i) = IF m.start + i - 1 < c THEN m.start + i - 1 ELSE m.start + i - 1 - c
             /\ Place(i) \in 0 .. c - 1
  <2> HIDE DEF c
  <2>1. /\ m.start + (i - 1) \in Nat /\ m.start + (i - 1) < 2 * c
        /\ m.start + i - 1 = m.start + (i - 1)  BY <1>1, SMTT(60)
  <2>2. Place(i) = IF m.start + (i - 1) < c THEN m.start + (i - 1) ELSE m.start + (i - 1) - c
    BY <1>1, <2>1, Wrapped, SMTT(60)
  <2> QED  BY <1>1, <2>1, <2>2
<1>3. Buffered(m) = [i \in 1 .. m.size |-> m.buffer[Place(i)]]
  BY DEF Buffered, At, Capacity
<1> HIDE DEF c, Place
<1>4. \A i \in 1 .. m.size : m.buffer[Place(i)] \in Nat  BY <1>1, <1>2
<1>5. Buffered(m) \in Seq(Nat) /\ Len(Buffered(m)) = m.size
  <2>1. Buffered(m) \in [1 .. m.size -> Nat]  BY <1>3, <1>4
  <2> QED  BY <1>1, <2>1, FunctionsAreSequences
<1>6. ASSUME NEW i \in 1 .. m.size
      PROVE  /\ m.start + i - 1 < 2 * m.min => Buffered(m)[i] = m.buffer[m.start + i - 1]
             /\ m.start + i - 1 >= 2 * m.min => Buffered(m)[i] = m.buffer[m.start + i - 1 - 2 * m.min]
  <2>1. Buffered(m)[i] = m.buffer[Place(i)]  BY <1>3
  <2>2. /\ m.start + i - 1 < 2 * m.min => Place(i) = m.start + i - 1
        /\ m.start + i - 1 >= 2 * m.min => Place(i) = m.start + i - 1 - 2 * m.min
    BY <1>1, <1>2 DEF c
  <2> QED  BY <2>1, <2>2, ZenonT(60)
<1> QED  BY <1>5, <1>6

(* A read that fits goes behind what is buffered. *)
LEMMA PutBuffers ==
    ASSUME NEW m, Sound(m), NEW d \in Seq(Nat), Len(d) <= Space(m)
    PROVE  /\ Sound(Put(m, d)) /\ Buffered(Put(m, d)) = Buffered(m) \o d
           /\ Put(m, d).min = m.min /\ Put(m, d).max = m.max /\ Put(m, d).start = m.start
           /\ Put(m, d).size = m.size + Len(d) /\ Put(m, d).reached = m.reached
           /\ Put(m, d).chunk = m.chunk /\ Put(m, d).sent = m.sent
<1> DEFINE c == 2 * m.min
           st == m.start
           sz == m.size
           e == m.start + m.size
           from == e % c
           n == Len(d)
           r == Put(m, d)
           b == [i \in 0 .. c - 1 |-> IF i >= from /\ i < from + n THEN d[i - from + 1] ELSE m.buffer[i]]
<1>1. /\ c \in Nat \ {0} /\ m.start \in Nat /\ m.start < c /\ m.size \in Nat /\ m.size <= c
      /\ m.buffer \in [0 .. c - 1 -> Nat] /\ n \in Nat /\ e \in Nat /\ e = m.start + m.size /\ e < 2 * c
  BY SMTT(60) DEF Sound
<1>2. /\ DOMAIN r = DOMAIN m /\ r.min = m.min /\ r.max = m.max /\ r.start = m.start /\ r.size = m.size + n
      /\ r.reached = m.reached /\ r.chunk = m.chunk /\ r.sent = m.sent
  BY DEF Put, Sound
<1>3. r.buffer = b
  <2>1. DOMAIN m.buffer = 0 .. c - 1  BY <1>1
  <2>2. r.buffer = [i \in DOMAIN m.buffer |-> IF i >= from /\ i < from + n THEN d[i - from + 1] ELSE m.buffer[i]]
    BY DEF Put, Sound, Capacity
  <2> QED  BY <2>1, <2>2
<1>4. /\ from \in Nat
      /\ e < c => from = e /\ n <= c - e
      /\ e >= c => from = e - c /\ n <= m.start - (e - c)
  <2>1. from = IF e < c THEN e ELSE e - c
    <3> HIDE DEF c, e
    <3> QED  BY <1>1, Wrapped
  <2>2. n <= IF e >= c THEN m.start - (e - c) ELSE c - e  BY DEF Space, Capacity
  <2> HIDE DEF c, e, n, from, r, b
  <2>0. e \in Nat /\ c \in Nat  BY <1>1
  <2>3. CASE e < c
    <3>1. ~(e >= c)  BY <2>0, <2>3
    <3>2. from = e /\ n <= c - e  BY <2>1, <2>2, <2>3, <3>1
    <3> QED  BY <2>0, <3>1, <3>2
  <2>4. CASE e >= c
    <3>1. ~(e < c)  BY <2>0, <2>4
    <3>2. from = e - c /\ n <= m.start - (e - c)  BY <2>1, <2>2, <2>4, <3>1
    <3> QED  BY <2>0, <2>4, <3>1, <3>2
  <2> QED  BY <2>0, <2>3, <2>4
<1> HIDE DEF c, e, from, n, r, b
<1>5. m.size + n \in Nat /\ m.size + n <= c
  <2>1. ASSUME NEW f \in Nat, NEW a \in Nat, NEW u \in Nat, NEW k \in Nat, u <= f,
               a + u < f => k <= f - (a + u), a + u >= f => k <= a - (a + u - f)
        PROVE  u + k \in Nat /\ u + k <= f
    <3>1. CASE a + u < f  BY <2>1, <3>1
    <3>2. CASE a + u >= f  BY <2>1, <3>2
    <3> QED  BY <3>1, <3>2
  <2>2. /\ m.size <= c /\ m.start + m.size < c => n <= c - (m.start + m.size)
        /\ m.start + m.size >= c => n <= m.start - (m.start + m.size - c)
    BY <1>1, <1>4, SMTT(60)
  <2> QED  BY <1>1, <2>1, <2>2
<1>6. b \in [0 .. c - 1 -> Nat]
  <2>1. ASSUME NEW i \in 0 .. c - 1 PROVE (IF i >= from /\ i < from + n THEN d[i - from + 1] ELSE m.buffer[i]) \in Nat
    <3>1. CASE i >= from /\ i < from + n
      <4>1. i - from + 1 \in 1 .. n  BY <1>1, <1>4, <3>1
      <4>2. d[i - from + 1] \in Nat  BY <4>1 DEF n
      <4> QED  BY <3>1, <4>2
    <3>2. CASE ~(i >= from /\ i < from + n)  BY <1>1, <3>2
    <3> QED  BY <3>1, <3>2
  <2> QED  BY <2>1 DEF b
<1>7. Sound(r)
  <2>1. m.size + n \in 0 .. c  BY <1>1, <1>5
  <2>2. r.buffer \in [0 .. 2 * r.min - 1 -> Nat] /\ r.size \in 0 .. (2 * r.min)  BY <1>2, <1>3, <1>6, <2>1 DEF c
  <2> QED  BY <1>2, <2>2 DEF Sound
<1>9. /\ c \in Nat /\ st \in Nat /\ st < c /\ sz \in Nat /\ sz <= c /\ n \in Nat /\ from \in Nat
      /\ st + sz < c => from = st + sz /\ n <= c - (st + sz)
      /\ st + sz >= c => from = st + sz - c /\ n <= st - (st + sz - c)
  BY <1>1, <1>4, SMTT(60)
<1> HIDE DEF st, sz
<1>8. Buffered(r) = Buffered(m) \o d
  <2> DEFINE u == Buffered(r)
             v == Buffered(m)
  <2>1. /\ u \in Seq(Nat) /\ Len(u) = sz + n
        /\ \A i \in 1 .. sz + n :
              /\ st + i - 1 < c => u[i] = b[st + i - 1]
              /\ st + i - 1 >= c => u[i] = b[st + i - 1 - c]
    <3>1. /\ u \in Seq(Nat) /\ Len(u) = r.size
          /\ \A i \in 1 .. r.size :
                /\ r.start + i - 1 < 2 * r.min => u[i] = r.buffer[r.start + i - 1]
                /\ r.start + i - 1 >= 2 * r.min => u[i] = r.buffer[r.start + i - 1 - 2 * r.min]
      BY <1>7, BufferedBytes
    <3>2. r.size = sz + n /\ r.start = st /\ 2 * r.min = c /\ r.buffer = b  BY <1>2, <1>3 DEF c, st, sz
    <3> HIDE DEF u
    <3> QED  BY <3>1, <3>2
  <2>2. /\ v \in Seq(Nat) /\ Len(v) = sz
        /\ \A i \in 1 .. sz :
              /\ st + i - 1 < c => v[i] = m.buffer[st + i - 1]
              /\ st + i - 1 >= c => v[i] = m.buffer[st + i - 1 - c]
    BY BufferedBytes DEF c, st, sz
  <2> HIDE DEF u, v
  <2>3. v \o d \in Seq(Nat) /\ Len(v \o d) = sz + n  BY <2>2, ConcatProperties DEF n
  <2>4. \A j \in 0 .. c - 1 :
           /\ \A k : j >= from /\ j < from + n /\ j - from + 1 = k => b[j] = d[k]
           /\ ~(j >= from /\ j < from + n) => b[j] = m.buffer[j]
    BY DEF b
  <2>5. ASSUME NEW i \in 1 .. sz + n PROVE u[i] = (v \o d)[i]
    <3>0. i \in Nat /\ 1 <= i /\ i <= sz + n  BY <1>9
    <3>3. (i <= sz \/ i > sz) /\ (st + i - 1 < c \/ st + i - 1 >= c)  BY <1>9, <3>0
    <3>1. CASE i <= sz
      <4>1. (v \o d)[i] = v[i]  BY <1>9, <2>2, <3>1
      <4>2. CASE st + i - 1 < c
        <5>1. st + i - 1 \in 0 .. c - 1 /\ ~(st + i - 1 >= from /\ st + i - 1 < from + n)
          BY <1>9, <3>0, <3>1, <4>2
        <5>2. u[i] = b[st + i - 1]  BY <2>1, <4>2
        <5>3. v[i] = m.buffer[st + i - 1]  BY <2>2, <3>0, <3>1, <4>2, <1>9
        <5>4. b[st + i - 1] = m.buffer[st + i - 1]  BY <2>4, <5>1, ZenonT(60)
        <5> QED  BY <4>1, <5>2, <5>3, <5>4
      <4>3. CASE st + i - 1 >= c
        <5>1. st + i - 1 - c \in 0 .. c - 1 /\ ~(st + i - 1 - c >= from /\ st + i - 1 - c < from + n)
          BY <1>9, <3>0, <3>1, <4>3
        <5>2. u[i] = b[st + i - 1 - c]  BY <2>1, <4>3
        <5>3. v[i] = m.buffer[st + i - 1 - c]  BY <2>2, <3>0, <3>1, <4>3, <1>9
        <5>4. b[st + i - 1 - c] = m.buffer[st + i - 1 - c]  BY <2>4, <5>1
        <5> QED  BY <4>1, <5>2, <5>3, <5>4
      <4> QED  BY <3>3, <4>2, <4>3, ZenonT(60)
    <3>2. CASE i > sz
      <4>1. (v \o d)[i] = d[i - sz]  BY <1>9, <2>2, <3>2, SMTT(60) DEF n
      <4>2. CASE st + i - 1 < c
        <5>1. /\ st + i - 1 \in 0 .. c - 1 /\ st + i - 1 >= from /\ st + i - 1 < from + n
              /\ st + i - 1 - from + 1 = i - sz
          BY <1>9, <3>0, <3>2, <4>2
        <5>2. u[i] = b[st + i - 1]  BY <2>1, <4>2
        <5>3. b[st + i - 1] = d[i - sz]
          <6>1. PICK j \in 0 .. c - 1 : j = st + i - 1  BY <5>1
          <6>2. j >= from /\ j < from + n /\ j - from + 1 = i - sz  BY <1>9, <3>0, <5>1, <6>1
          <6>3. b[j] = d[i - sz]  BY <2>4, <6>2, ZenonT(60)
          <6> QED  BY <6>1, <6>3
        <5> QED  BY <4>1, <5>1, <5>2, <5>3
      <4>3. CASE st + i - 1 >= c
        <5>1. /\ st + i - 1 - c \in 0 .. c - 1 /\ st + i - 1 - c >= from /\ st + i - 1 - c < from + n
              /\ st + i - 1 - c - from + 1 = i - sz
          BY <1>9, <3>0, <3>2, <4>3
        <5>2. u[i] = b[st + i - 1 - c]  BY <2>1, <4>3
        <5>3. b[st + i - 1 - c] = d[i - sz]
          <6>1. PICK j \in 0 .. c - 1 : j = st + i - 1 - c  BY <5>1
          <6>2. j >= from /\ j < from + n /\ j - from + 1 = i - sz  BY <1>9, <3>0, <5>1, <6>1
          <6>3. b[j] = d[i - sz]  BY <2>4, <6>2, ZenonT(60)
          <6> QED  BY <6>1, <6>3
        <5> QED  BY <4>1, <5>1, <5>2, <5>3
      <4> QED  BY <3>3, <4>2, <4>3, ZenonT(60)
    <3> QED  BY <3>3, <3>1, <3>2, ZenonT(60)
  <2>6. u = v \o d  BY <2>1, <2>3, <2>5, SeqEqual
  <2> QED  BY <2>6 DEF u, v
<1> QED  BY <1>2, <1>7, <1>8 DEF r, n

(* Filling the chunk takes the first bytes out of the buffer. *)
LEMMA FillMoves ==
    ASSUME NEW m, Sound(m), NEW count \in 0 .. m.size
    PROVE  /\ Sound(fill(m, count)) /\ fill(m, count).chunk \o Buffered(fill(m, count)) = m.chunk \o Buffered(m)
           /\ fill(m, count).min = m.min /\ fill(m, count).max = m.max /\ fill(m, count).reached = m.reached
           /\ fill(m, count).sent = m.sent /\ fill(m, count).size = m.size - count
           /\ Len(fill(m, count).chunk) = Len(m.chunk) + count
<1> DEFINE c == 2 * m.min
           st == m.start
           sz == m.size
           to == IF st + count < c THEN st + count ELSE count - (c - st)
           v == Buffered(m)
           r == fill(m, count)
<1>1. /\ c \in Nat \ {0} /\ st \in Nat /\ st < c /\ sz \in Nat /\ sz <= c /\ count \in Nat /\ count <= sz
  BY SMTT(60) DEF Sound
<1>2. /\ DOMAIN r = DOMAIN m /\ r.min = m.min /\ r.max = m.max /\ r.buffer = m.buffer /\ r.reached = m.reached
      /\ r.sent = m.sent /\ r.size = sz - count /\ r.start = to /\ r.chunk = m.chunk \o SubSeq(v, 1, count)
  BY DEF fill, Sound, Capacity
<1>3. /\ v \in Seq(Nat) /\ Len(v) = sz
      /\ \A i \in 1 .. sz :
            /\ st + i - 1 < c => v[i] = m.buffer[st + i - 1]
            /\ st + i - 1 >= c => v[i] = m.buffer[st + i - 1 - c]
  BY BufferedBytes
<1>4. m.chunk \in Seq(Nat)  BY DEF Sound
<1> HIDE DEF c, v, r, st, sz
<1>5. to \in 0 .. c - 1 /\ (st + count < c => to = st + count) /\ (st + count >= c => to = st + count - c)  BY <1>1
<1> HIDE DEF to
<1>6. SubSeq(v, 1, count) \in Seq(Nat) /\ Len(SubSeq(v, 1, count)) = count
  <2>1. \A i \in 1 .. count : v[i] \in Nat  BY <1>1, <1>3
  <2>2. SubSeq(v, 1, count) \in Seq(Nat) /\ Len(SubSeq(v, 1, count)) = IF 1 <= count THEN count - 1 + 1 ELSE 0
    BY <1>1, <2>1, SubSeqProperties
  <2> HIDE DEF v
  <2>3. (IF 1 <= count THEN count - 1 + 1 ELSE 0) = count  BY <1>1
  <2> QED  BY <2>2, <2>3
<1>7. r.chunk \in Seq(Nat) /\ Len(r.chunk) = Len(m.chunk) + count
  <2> DEFINE a == SubSeq(v, 1, count)
  <2>1. a \in Seq(Nat) /\ Len(a) = count /\ r.chunk = m.chunk \o a  BY <1>2, <1>6
  <2> HIDE DEF a
  <2> QED  BY <1>4, <2>1, ConcatProperties
<1>8. Sound(r)
  <2>1. r.size \in 0 .. 2 * r.min /\ r.start \in 0 .. (2 * r.min - 1)  BY <1>1, <1>2, <1>5 DEF c
  <2> QED  BY <1>2, <1>7, <2>1 DEF Sound
<1>9. Buffered(r) = SubSeq(v, count + 1, sz)
  <2> DEFINE u == Buffered(r)
             w == SubSeq(v, count + 1, sz)
  <2>1. /\ u \in Seq(Nat) /\ Len(u) = sz - count
        /\ \A i \in 1 .. sz - count :
              /\ to + i - 1 < c => u[i] = m.buffer[to + i - 1]
              /\ to + i - 1 >= c => u[i] = m.buffer[to + i - 1 - c]
    <3>1. /\ u \in Seq(Nat) /\ Len(u) = r.size
          /\ \A i \in 1 .. r.size :
                /\ r.start + i - 1 < 2 * r.min => u[i] = r.buffer[r.start + i - 1]
                /\ r.start + i - 1 >= 2 * r.min => u[i] = r.buffer[r.start + i - 1 - 2 * r.min]
      BY <1>8, BufferedBytes
    <3>2. r.size = sz - count /\ r.start = to /\ 2 * r.min = c /\ r.buffer = m.buffer  BY <1>2 DEF c
    <3> HIDE DEF u
    <3> QED  BY <3>1, <3>2
  <2>2. w \in Seq(Nat) /\ Len(w) = sz - count /\ \A i \in 1 .. sz - count : w[i] = v[count + i]
    <3>1. \A i \in count + 1 .. sz : v[i] \in Nat  BY <1>1, <1>3
    <3>2. /\ w \in Seq(Nat) /\ Len(w) = IF count + 1 <= sz THEN sz - (count + 1) + 1 ELSE 0
          /\ \A i \in 1 .. sz - (count + 1) + 1 : w[i] = v[count + 1 + i - 1]
      BY <1>1, <3>1, SubSeqProperties
    <3> HIDE DEF w
    <3>3. (IF count + 1 <= sz THEN sz - (count + 1) + 1 ELSE 0) = sz - count  BY <1>1
    <3>4. ASSUME NEW i \in 1 .. sz - count PROVE w[i] = v[count + i]
      <4>1. i \in 1 .. sz - (count + 1) + 1 /\ count + 1 + i - 1 = count + i  BY <1>1
      <4> QED  BY <3>2, <4>1
    <3> QED  BY <3>2, <3>3, <3>4
  <2> HIDE DEF u, w
  <2>3. ASSUME NEW i \in 1 .. sz - count PROVE u[i] = w[i]
    <3>1. i \in Nat /\ 1 <= i /\ count + i \in 1 .. sz /\ i <= sz - count  BY <1>1
    <3>2. w[i] = v[count + i]  BY <2>2
    <3> DEFINE k == count + i
    <3>3. /\ st + k - 1 < c => v[k] = m.buffer[st + k - 1]
          /\ st + k - 1 >= c => v[k] = m.buffer[st + k - 1 - c]
      <4> HIDE DEF k
      <4> QED  BY <1>3, <3>1 DEF k
    <3>4. CASE to + i - 1 < c
      <4>1. u[i] = m.buffer[to + i - 1]  BY <2>1, <3>4
      <4>2. CASE st + k - 1 < c
        <5>1. st + k - 1 = to + i - 1  BY <1>1, <1>5, <3>1, <3>4, <4>2
        <5> QED  BY <3>2, <3>3, <4>1, <4>2, <5>1
      <4>3. CASE st + k - 1 >= c
        <5>1. st + k - 1 - c = to + i - 1  BY <1>1, <1>5, <3>1, <3>4, <4>3
        <5> QED  BY <3>2, <3>3, <4>1, <4>3, <5>1
      <4>4. st + k - 1 < c \/ st + k - 1 >= c  BY <1>1, <3>1
      <4> QED  BY <4>2, <4>3, <4>4, ZenonT(60)
    <3>5. CASE to + i - 1 >= c
      <4>1. u[i] = m.buffer[to + i - 1 - c]  BY <2>1, <3>5
      <4>2. st + k - 1 >= c /\ st + k - 1 - c = to + i - 1 - c  BY <1>1, <1>5, <3>1, <3>5
      <4> QED  BY <3>2, <3>3, <4>1, <4>2
    <3>6. to + i - 1 < c \/ to + i - 1 >= c  BY <1>1, <1>5, <3>1
    <3> QED  BY <3>4, <3>5, <3>6, ZenonT(60)
  <2>4. u = w  BY <2>1, <2>2, <2>3, SeqEqual
  <2> QED  BY <2>4 DEF u, w
<1>10. r.chunk \o Buffered(r) = m.chunk \o v
  <2> DEFINE a == SubSeq(v, 1, count)
             b == SubSeq(v, count + 1, sz)
  <2>1. a \o b = v
    <3>1. 1 \in 1 .. Len(v) + 1 /\ count \in 1 - 1 .. Len(v) /\ Len(v) \in count .. Len(v)  BY <1>1, <1>3
    <3>2. a \o b = SubSeq(v, 1, Len(v))  BY <1>3, <3>1, ConcatAdjacentSubSeq
    <3> QED  BY <1>3, <3>2, SubSeqFull
  <2>2. a \in Seq(Nat) /\ b \in Seq(Nat)
    <3>1. Buffered(r) \in Seq(Nat)  BY <1>8, BufferedBytes
    <3> QED  BY <1>6, <1>9, <3>1
  <2> HIDE DEF a, b
  <2>3. (m.chunk \o a) \o b = m.chunk \o (a \o b)
    <3> DEFINE d == m.chunk
    <3>1. d \in Seq(Nat)  BY <1>4
    <3> HIDE DEF d
    <3>2. (d \o a) \o b = d \o (a \o b)  BY <2>2, <3>1, Joined, ZenonT(60)
    <3> QED  BY <3>2 DEF d
  <2> QED  BY <1>2, <1>9, <2>1, <2>3 DEF a, b
<1> QED  BY <1>2, <1>7, <1>8, <1>10 DEF r, v, sz

-----------------------------------------------------------------------------
(* What the operations of the chunk maker do with the stream.              *)

\* r is a chunk maker of the same sizes into which the same has gone.
Keeps(m, r) == Sound(r) /\ r.min = m.min /\ r.max = m.max /\ Stream(r) = Stream(m)

LEMMA SameBuffer ==
    ASSUME NEW m, NEW r, r.min = m.min, r.buffer = m.buffer, r.start = m.start, r.size = m.size
    PROVE  Buffered(r) = Buffered(m)
BY DEF Buffered, At, Capacity

LEMMA StreamParts ==
    ASSUME NEW m, Sound(m)
    PROVE  /\ FlattenSeq(m.sent) \in Seq(Nat) /\ m.chunk \in Seq(Nat) /\ Buffered(m) \in Seq(Nat)
           /\ Stream(m) \in Seq(Nat)
           /\ Stream(m) = FlattenSeq(m.sent) \o (m.chunk \o Buffered(m))
           /\ m.chunk = <<>> => Stream(m) = FlattenSeq(m.sent) \o Buffered(m)
<1> DEFINE f == FlattenSeq(m.sent)
           c == m.chunk
           b == Buffered(m)
<1>1. f \in Seq(Nat)
  <2>1. m.sent \in Seq(Seq(Nat)) /\ <<>> \in Seq(Nat)  BY DEF Sound
  <2> QED  BY <2>1, FlattenAppend
<1>2. c \in Seq(Nat)  BY DEF Sound
<1>3. b \in Seq(Nat)  BY BufferedBytes
<1>4. Stream(m) = f \o c \o b  BY DEF Stream
<1> HIDE DEF f, c, b
<1>5. f \o c \o b \in Seq(Nat) /\ f \o c \o b = f \o (c \o b)
  <2>1. f \o c \in Seq(Nat)  BY <1>1, <1>2, <1>3, Joined, ZenonT(60)
  <2>2. f \o c \o b \in Seq(Nat)  BY <1>1, <1>3, <2>1, Joined, ZenonT(60)
  <2>3. f \o c \o b = f \o (c \o b)  BY <1>1, <1>2, <1>3, Joined, ZenonT(60)
  <2> QED  BY <2>2, <2>3, ZenonT(60)
<1>6. c = <<>> => f \o (c \o b) = f \o b  BY <1>3
<1> QED  BY <1>1, <1>2, <1>3, <1>4, <1>5, <1>6 DEF f, c, b

LEMMA FillKeeps ==
    ASSUME NEW m, Sound(m), NEW count \in 0 .. m.size
    PROVE  Keeps(m, fill(m, count))
<1> DEFINE r == fill(m, count)
<1>1. Sound(r) /\ r.chunk \o Buffered(r) = m.chunk \o Buffered(m) /\ r.min = m.min /\ r.max = m.max /\ r.sent = m.sent
  BY FillMoves
<1> HIDE DEF r
<1>2. Stream(r) = FlattenSeq(r.sent) \o (r.chunk \o Buffered(r))  BY <1>1, StreamParts
<1>3. Stream(m) = FlattenSeq(m.sent) \o (m.chunk \o Buffered(m))  BY StreamParts
<1>4. Stream(r) = Stream(m)  BY <1>1, <1>2, <1>3, ZenonT(60)
<1> QED  BY <1>1, <1>4 DEF Keeps, r

LEMMA SendKeeps ==
    ASSUME NEW m, Sound(m)
    PROVE  /\ Keeps(m, sendChunk(m)) /\ sendChunk(m).chunk = <<>> /\ sendChunk(m).sent = Append(m.sent, m.chunk)
           /\ sendChunk(m).reached = m.reached /\ sendChunk(m).size = m.size /\ sendChunk(m).start = m.start
<1> DEFINE r == sendChunk(m)
<1>1. /\ DOMAIN r = DOMAIN m /\ r.min = m.min /\ r.max = m.max /\ r.buffer = m.buffer /\ r.start = m.start
      /\ r.size = m.size /\ r.reached = m.reached /\ r.chunk = <<>> /\ r.sent = Append(m.sent, m.chunk)
  BY DEF sendChunk, Sound
<1> HIDE DEF r
<1>2. m.chunk \in Seq(Nat) /\ m.sent \in Seq(Seq(Nat))  BY DEF Sound
<1>3. Sound(r)  BY <1>1, <1>2 DEF Sound
<1>4. FlattenSeq(r.sent) = FlattenSeq(m.sent) \o m.chunk
  <2>1. FlattenSeq(Append(m.sent, m.chunk)) = FlattenSeq(m.sent) \o m.chunk  BY <1>2, FlattenAppend
  <2> QED  BY <1>1, <2>1
<1>5. Buffered(r) = Buffered(m)  BY <1>1, SameBuffer
<1>6. Stream(r) = FlattenSeq(r.sent) \o Buffered(r)  BY <1>1, <1>3, StreamParts
<1>7. Stream(m) = FlattenSeq(m.sent) \o m.chunk \o Buffered(m)  BY DEF Stream
<1>8. Stream(r) = Stream(m)  BY <1>4, <1>5, <1>6, <1>7, ZenonT(60)
<1> QED  BY <1>1, <1>3, <1>8 DEF Keeps, r

LEMMA NewKeeps ==
    ASSUME NEW m, Sound(m), m.chunk = <<>>
    PROVE  /\ Keeps(m, startNewChunk(m)) /\ startNewChunk(m).chunk = <<>> /\ startNewChunk(m).sent = m.sent
           /\ startNewChunk(m).reached = FALSE /\ startNewChunk(m).size = m.size /\ startNewChunk(m).start = m.start
<1> DEFINE r == startNewChunk(m)
<1>1. /\ DOMAIN r = DOMAIN m /\ r.min = m.min /\ r.max = m.max /\ r.buffer = m.buffer /\ r.start = m.start
      /\ r.size = m.size /\ r.reached = FALSE /\ r.chunk = <<>> /\ r.sent = m.sent
  BY DEF startNewChunk, Sound
<1> HIDE DEF r
<1>2. Sound(r)  BY <1>1 DEF Sound
<1>3. Buffered(r) = Buffered(m)  BY <1>1, SameBuffer
<1>4. Stream(r) = Stream(m)  BY <1>1, <1>3 DEF Stream
<1> QED  BY <1>1, <1>2, <1>4 DEF Keeps, r

(* The hash is no part of the stream. *)
LEMMA HashKeeps ==
    ASSUME NEW m, Sound(m), NEW h
    PROVE  /\ LET r == [m EXCEPT !.sum = h]
              IN  /\ Keeps(m, r) /\ r.chunk = m.chunk /\ r.sent = m.sent /\ r.size = m.size /\ r.reached = m.reached
           /\ LET r == [m EXCEPT !.reached = TRUE, !.sum = h]
              IN  /\ Keeps(m, r) /\ r.chunk = m.chunk /\ r.sent = m.sent /\ r.size = m.size /\ r.reached = TRUE
<1>1. ASSUME NEW r, DOMAIN r = DOMAIN m, r.min = m.min, r.max = m.max, r.buffer = m.buffer, r.start = m.start,
             r.size = m.size, r.chunk = m.chunk, r.sent = m.sent, r.reached \in BOOLEAN
      PROVE  Keeps(m, r)
  <2>1. Sound(r)  BY <1>1 DEF Sound
  <2>2. Buffered(r) = Buffered(m)  BY <1>1, SameBuffer
  <2> QED  BY <1>1, <2>1, <2>2 DEF Keeps, Stream
<1>2. LET r == [m EXCEPT !.sum = h]
      IN  /\ DOMAIN r = DOMAIN m /\ r.min = m.min /\ r.max = m.max /\ r.buffer = m.buffer /\ r.start = m.start
          /\ r.size = m.size /\ r.chunk = m.chunk /\ r.sent = m.sent /\ r.reached = m.reached /\ r.reached \in BOOLEAN
  BY DEF Sound
<1>3. LET r == [m EXCEPT !.reached = TRUE, !.sum = h]
      IN  /\ DOMAIN r = DOMAIN m /\ r.min = m.min /\ r.max = m.max /\ r.buffer = m.buffer /\ r.start = m.start
          /\ r.size = m.size /\ r.chunk = m.chunk /\ r.sent = m.sent /\ r.reached = TRUE /\ r.reached \in BOOLEAN
  BY DEF Sound
<1> QED  BY <1>1, <1>2, <1>3

-----------------------------------------------------------------------------
(* A round of the loop.                                                    *)

(* Where the hash ends a chunk: behind the smallest size and not behind the largest. *)
LEMMA ScanBytes ==
    ASSUME NEW m, Sound(m), m.min <= m.size, Len(m.chunk) + m.min < m.max
    PROVE  /\ Scan(m).found \in BOOLEAN
           /\ Scan(m).found => /\ Scan(m).bytes \in m.min + 1 .. m.size
                               /\ Len(m.chunk) + Scan(m).bytes <= m.max
           /\ ~Scan(m).found => Scan(m).bytes = m.size - m.min /\ Len(m.chunk) + m.size < m.max
<1> DEFINE last == m.max - Len(m.chunk) - m.min - 1
           hash[i \in -1..(m.size - m.min - 1)] ==
               IF i = -1 THEN m.sum ELSE buzhashUpdate(hash[i - 1], At(m, i), At(m, i + m.min), m.min)
           ends == {i \in 0..(m.size - m.min - 1) : EndsChunk(hash[i]) \/ i = last}
<1>1. Scan(m) = IF ends = {}
                THEN [found |-> FALSE, sum |-> hash[m.size - m.min - 1], bytes |-> m.size - m.min]
                ELSE [found |-> TRUE, sum |-> hash[Min(ends)], bytes |-> Min(ends) + 1 + m.min]
  BY ZenonT(60) DEF Scan
<1> HIDE DEF hash
<1>2. m.min \in Nat \ {0} /\ m.max \in Nat /\ m.size \in Nat /\ Len(m.chunk) \in Nat  BY DEF Sound
<1>3. last \in Nat /\ last = m.max - Len(m.chunk) - m.min - 1  BY <1>2
<1> HIDE DEF last
<1>4. CASE ends = {}
  <2>1. Scan(m).found = FALSE /\ Scan(m).bytes = m.size - m.min  BY <1>1, <1>4
  <2>2. last \notin 0 .. m.size - m.min - 1  BY <1>4
  <2>3. Len(m.chunk) + m.size < m.max  BY <1>2, <1>3, <2>2
  <2> QED  BY <2>1, <2>3
<1>5. CASE ends # {}
  <2>1. ends \in SUBSET Nat  BY <1>2
  <2> DEFINE n == Min(ends)
  <2>2. Scan(m).found = TRUE /\ Scan(m).bytes = n + 1 + m.min  BY <1>1, <1>5
  <2>3. n \in ends /\ \A k \in ends : n <= k
    <3> HIDE DEF ends
    <3>1. \E k \in ends : \A j \in ends : k <= j  BY <1>5, <2>1, SmallestExists
    <3> QED  BY <3>1 DEF Min
  <2> HIDE DEF n
  <2>4. n \in Nat /\ n <= m.size - m.min - 1  BY <1>2, <2>3
  <2>5. n <= last
    <3>1. CASE last <= m.size - m.min - 1
      <4>1. last \in ends  BY <1>2, <1>3, <3>1
      <4> QED  BY <2>3, <4>1
    <3>2. CASE ~(last <= m.size - m.min - 1)  BY <1>2, <1>3, <2>4, <3>2
    <3> QED  BY <3>1, <3>2
  <2>6. n + 1 + m.min \in m.min + 1 .. m.size /\ Len(m.chunk) + (n + 1 + m.min) <= m.max
    BY <1>2, <1>3, <2>4, <2>5, SMTT(60)
  <2> QED  BY <2>2, <2>6
<1> QED  BY <1>4, <1>5

LEMMA KeepsTransitive ==
    ASSUME NEW m, NEW k, NEW r, Keeps(m, k), Keeps(k, r)
    PROVE  Keeps(m, r)
BY DEF Keeps

(* A chunk that is sent, and the chunk maker begins a new one. *)
LEMMA SendAndStart ==
    ASSUME NEW m, Sound(m)
    PROVE  LET r == startNewChunk(sendChunk(m))
           IN  /\ Keeps(m, r) /\ r.chunk = <<>> /\ r.reached = FALSE /\ r.size = m.size
               /\ r.sent = Append(m.sent, m.chunk)
<1> DEFINE k == sendChunk(m)
           r == startNewChunk(k)
<1>1. Keeps(m, k) /\ k.chunk = <<>> /\ k.sent = Append(m.sent, m.chunk) /\ k.size = m.size  BY SendKeeps
<1> HIDE DEF k
<1>2. Sound(k)  BY <1>1 DEF Keeps
<1>3. Keeps(k, r) /\ r.chunk = <<>> /\ r.reached = FALSE /\ r.size = k.size /\ r.sent = k.sent  BY <1>1, <1>2, NewKeeps
<1>4. Keeps(m, r)  BY <1>1, <1>3, KeepsTransitive
<1> QED  BY <1>1, <1>3, <1>4 DEF k

\* What a round may have sent: nothing, or one chunk of a size that is allowed.
SendsChunk(m, r, least) ==
    \/ r.sent = m.sent
    \/ \E c \in Seq(Nat) : r.sent = Append(m.sent, c) /\ Len(c) \in least .. m.max

LEMMA TooShortKeeps ==
    ASSUME NEW m, Sound(m), Fits(m), m.size < m.min, NEW ended \in BOOLEAN, NEW flush \in BOOLEAN
    PROVE  LET t == TooShort(m, ended, flush)
           IN  /\ t.more \in BOOLEAN /\ Keeps(m, t.maker) /\ Fits(t.maker)
               /\ flush => ~t.more /\ t.maker.size = 0 /\ t.maker.chunk = <<>> /\ SendsChunk(m, t.maker, 1)
               /\ ~flush => t.more = ~ended /\ t.maker.sent = m.sent
<1> DEFINE all == fill(m, m.size)
           r == IF all.chunk = <<>> THEN all ELSE sendChunk(all)
           t == TooShort(m, ended, flush)
<1>1. m.size \in 0 .. m.size /\ m.size \in Nat /\ m.min \in Nat /\ m.max \in Nat /\ m.min <= m.max  BY DEF Sound
<1>2. ~m.reached /\ m.chunk = <<>>  BY <1>1 DEF Fits
<1>3. CASE ~flush
  <2>1. t.more = ~ended /\ t.maker = m  BY <1>3 DEF TooShort
  <2> HIDE DEF t
  <2>2. Keeps(m, m)  BY DEF Keeps
  <2> QED  BY <1>3, <2>1, <2>2 DEF t
<1>4. CASE flush
  <2>1. t.more = FALSE /\ t.maker = r  BY <1>4 DEF TooShort
  <2>2. Keeps(m, all) /\ Sound(all)  BY <1>1, FillKeeps DEF Keeps
  <2>3. all.size = 0 /\ all.sent = m.sent /\ all.reached = m.reached /\ Len(all.chunk) = m.size
    <3>1. all.size = m.size - m.size /\ all.sent = m.sent /\ all.reached = m.reached /\ Len(all.chunk) = Len(m.chunk) + m.size
      BY <1>1, FillMoves
    <3>2. Len(m.chunk) = 0  BY <1>2
    <3> QED  BY <1>1, <3>1, <3>2
  <2> HIDE DEF all, t
  <2>4. all.chunk \in Seq(Nat)  BY <2>2 DEF Sound
  <2>5. CASE all.chunk = <<>>
    <3>1. r = all  BY <2>5
    <3> QED  BY <1>2, <1>4, <2>1, <2>2, <2>3, <2>5, <3>1 DEF Fits, SendsChunk, t
  <2>6. CASE all.chunk # <<>>
    <3>1. r = sendChunk(all)  BY <2>6
    <3> HIDE DEF r
    <3>2. Keeps(all, r) /\ r.chunk = <<>> /\ r.sent = Append(m.sent, all.chunk) /\ r.reached = m.reached /\ r.size = 0
      BY <2>2, <2>3, <3>1, SendKeeps
    <3>3. Keeps(m, r)  BY <2>2, <3>2, KeepsTransitive
    <3>4. Len(all.chunk) \in 1 .. m.max
      <4>1. Len(all.chunk) # 0  BY <2>4, <2>6
      <4> QED  BY <1>1, <2>3, <4>1
    <3>5. SendsChunk(m, r, 1)  BY <2>4, <3>2, <3>4 DEF SendsChunk
    <3> QED  BY <1>2, <1>4, <2>1, <3>2, <3>3, <3>5 DEF Fits, t
  <2> QED  BY <2>5, <2>6
<1> QED  BY <1>3, <1>4

\* What is said of a round with its result t.
RoundFine(m, ended, flush, t) ==
    /\ t.more \in BOOLEAN /\ Keeps(m, t.maker) /\ Fits(t.maker)
    /\ ~flush /\ ~t.more => ended
    /\ flush /\ ~t.more => t.maker.size = 0 /\ t.maker.chunk = <<>>
    /\ SendsChunk(m, t.maker, IF flush /\ ~t.more THEN 1 ELSE m.min)

(* A round that has found the end of a chunk or flushes the last one. *)
LEMMA SentFine ==
    ASSUME NEW m, Sound(m), NEW k, Keeps(m, k), k.sent = m.sent, Len(k.chunk) \in m.min .. m.max,
           NEW ended \in BOOLEAN, NEW flush \in BOOLEAN, NEW more \in BOOLEAN,
           ~flush /\ ~more => ended, flush /\ ~more => k.size = 0
    PROVE  RoundFine(m, ended, flush, [more |-> more, maker |-> startNewChunk(sendChunk(k))])
<1> DEFINE r == startNewChunk(sendChunk(k))
           t == [more |-> more, maker |-> r]
<1>1. Sound(k)  BY DEF Keeps
<1>2. Keeps(k, r) /\ r.chunk = <<>> /\ r.reached = FALSE /\ r.size = k.size /\ r.sent = Append(k.sent, k.chunk)
  BY <1>1, SendAndStart
<1> HIDE DEF r
<1>3. t.more = more /\ t.maker = r  OBVIOUS
<1> HIDE DEF t
<1>4. Keeps(m, r)  BY <1>2, KeepsTransitive
<1>5. Fits(r)  BY <1>2 DEF Fits
<1>6. m.min \in Nat \ {0} /\ m.max \in Nat /\ k.chunk \in Seq(Nat)  BY <1>1 DEF Sound
<1>7. Len(k.chunk) \in 1 .. m.max  BY <1>6
<1>8. SendsChunk(m, r, IF flush /\ ~more THEN 1 ELSE m.min)
  <2>1. Len(k.chunk) \in (IF flush /\ ~more THEN 1 ELSE m.min) .. m.max  BY <1>7
  <2> QED  BY <1>2, <1>6, <2>1 DEF SendsChunk
<1>9. flush /\ ~more => r.size = 0 /\ r.chunk = <<>>  BY <1>2
<1>10. RoundFine(m, ended, flush, t)  BY <1>3, <1>4, <1>5, <1>8, <1>9 DEF RoundFine
<1> QED  BY <1>10 DEF t, r

LEMMA RoundKeeps ==
    ASSUME NEW m, Sound(m), Fits(m), ~FixedSize(m), NEW ended \in BOOLEAN, NEW flush \in BOOLEAN, ~(flush /\ ended)
    PROVE  RoundFine(m, ended, flush, Round(m, ended, flush))
<1> DEFINE first == buzhashSum(Zero, SubSeq(Buffered(m), 1, m.min))
           hashed == IF m.reached THEN m ELSE [m EXCEPT !.reached = TRUE, !.sum = first]
           scan == Scan(hashed)
           summed == [hashed EXCEPT !.sum = scan.sum]
           filled == fill(summed, scan.bytes)
           t == Round(m, ended, flush)
<1>1. t = CASE m.size < m.min -> TooShort(m, ended, flush)
            [] m.size >= m.min /\ ~m.reached /\ EndsChunk(first) ->
                  [more |-> TRUE, maker |-> startNewChunk(sendChunk(fill([m EXCEPT !.sum = first], m.min)))]
            [] OTHER ->
                  CASE scan.found -> [more |-> ~ended, maker |-> startNewChunk(sendChunk(filled))]
                    [] ~scan.found /\ flush -> [more |-> FALSE, maker |-> startNewChunk(sendChunk(fill(filled, m.min)))]
                    [] ~scan.found /\ ~flush -> [more |-> ~ended, maker |-> filled]
  BY ZenonT(60) DEF Round
<1>2. /\ m.min \in Nat \ {0} /\ m.max \in Nat /\ m.min < m.max /\ m.size \in Nat
      /\ m.chunk \in Seq(Nat) /\ Len(m.chunk) \in Nat
  BY DEF Sound, FixedSize
<1> HIDE DEF first, t
<1>3. CASE m.size < m.min
  <2>1. t = TooShort(m, ended, flush)  BY <1>1, <1>2, <1>3
  <2>2. /\ t.more \in BOOLEAN /\ Keeps(m, t.maker) /\ Fits(t.maker)
        /\ flush => ~t.more /\ t.maker.size = 0 /\ t.maker.chunk = <<>> /\ SendsChunk(m, t.maker, 1)
        /\ ~flush => t.more = ~ended /\ t.maker.sent = m.sent
    BY <1>3, <2>1, TooShortKeeps, ZenonT(60)
  <2>3. SendsChunk(m, t.maker, IF flush /\ ~t.more THEN 1 ELSE m.min)
    <3>1. CASE flush  BY <2>2, <3>1
    <3>2. CASE ~flush  BY <2>2, <3>2 DEF SendsChunk
    <3> QED  BY <3>1, <3>2
  <2> QED  BY <2>2, <2>3 DEF RoundFine, t
<1>4. CASE m.size >= m.min /\ ~m.reached /\ EndsChunk(first)
  <2> DEFINE s == [m EXCEPT !.sum = first]
             k == fill(s, m.min)
  <2>1. t = [more |-> TRUE, maker |-> startNewChunk(sendChunk(k))]  BY <1>1, <1>2, <1>4
  <2>2. Keeps(m, s) /\ Sound(s) /\ s.chunk = m.chunk /\ s.sent = m.sent /\ s.size = m.size
    BY HashKeeps, ZenonT(60) DEF Keeps
  <2> HIDE DEF s
  <2>3. m.min \in 0 .. s.size  BY <1>2, <1>4, <2>2
  <2>4. Keeps(s, k) /\ k.sent = s.sent /\ Len(k.chunk) = Len(s.chunk) + m.min  BY <2>2, <2>3, FillKeeps, FillMoves
  <2> HIDE DEF k
  <2>5. Keeps(m, k) /\ k.sent = m.sent  BY <2>2, <2>4, KeepsTransitive
  <2>6. m.chunk = <<>> /\ Len(m.chunk) = 0  BY <1>4 DEF Fits
  <2>7. Len(k.chunk) \in m.min .. m.max  BY <1>2, <2>2, <2>4, <2>6
  <2>8. RoundFine(m, ended, flush, [more |-> TRUE, maker |-> startNewChunk(sendChunk(k))])  BY <2>5, <2>7, SentFine
  <2> QED  BY <2>1, <2>8 DEF t
<1>5. CASE ~(m.size < m.min) /\ ~(m.size >= m.min /\ ~m.reached /\ EndsChunk(first))
  <2>1. /\ scan.found => t = [more |-> ~ended, maker |-> startNewChunk(sendChunk(filled))]
        /\ ~scan.found /\ flush => t = [more |-> FALSE, maker |-> startNewChunk(sendChunk(fill(filled, m.min)))]
        /\ ~scan.found /\ ~flush => t = [more |-> ~ended, maker |-> filled]
    BY <1>1, <1>5, ZenonT(60)
  <2>2. m.size >= m.min  BY <1>2, <1>5
  <2>3. /\ Keeps(m, hashed) /\ hashed.chunk = m.chunk /\ hashed.sent = m.sent /\ hashed.size = m.size
        /\ hashed.reached = TRUE
    <3>1. CASE m.reached
      <4>1. hashed = m /\ Keeps(m, m)  BY <3>1 DEF Keeps
      <4>2. m.reached = TRUE  BY <3>1 DEF Sound
      <4> QED  BY <4>1, <4>2
    <3>2. CASE ~m.reached
      <4>1. hashed = [m EXCEPT !.reached = TRUE, !.sum = first]  BY <3>2
      <4>2. LET r == [m EXCEPT !.reached = TRUE, !.sum = first]
            IN  Keeps(m, r) /\ r.chunk = m.chunk /\ r.sent = m.sent /\ r.size = m.size /\ r.reached = TRUE
        BY HashKeeps, ZenonT(60)
      <4> QED  BY <4>1, <4>2, ZenonT(60)
    <3> QED  BY <3>1, <3>2
  <2> HIDE DEF hashed
  <2>4. Sound(hashed) /\ hashed.min = m.min /\ hashed.max = m.max  BY <2>3 DEF Keeps
  <2>5. Len(m.chunk) + m.min < m.max
    <3>1. CASE m.reached  BY <3>1 DEF Fits
    <3>2. CASE ~m.reached
      <4>1. m.chunk = <<>> /\ Len(m.chunk) = 0  BY <3>2 DEF Fits
      <4> QED  BY <1>2, <4>1
    <3> QED  BY <3>1, <3>2
  <2>6. /\ scan.found \in BOOLEAN
        /\ scan.found => scan.bytes \in m.min + 1 .. m.size /\ Len(m.chunk) + scan.bytes <= m.max
        /\ ~scan.found => scan.bytes = m.size - m.min /\ Len(m.chunk) + m.size < m.max
    <3>1. hashed.min <= hashed.size /\ Len(hashed.chunk) + hashed.min < hashed.max  BY <1>2, <2>2, <2>3, <2>4, <2>5
    <3>2. /\ Scan(hashed).found \in BOOLEAN
          /\ Scan(hashed).found => /\ Scan(hashed).bytes \in hashed.min + 1 .. hashed.size
                                   /\ Len(hashed.chunk) + Scan(hashed).bytes <= hashed.max
          /\ ~Scan(hashed).found => /\ Scan(hashed).bytes = hashed.size - hashed.min
                                    /\ Len(hashed.chunk) + hashed.size < hashed.max
      BY <2>4, <3>1, ScanBytes
    <3>3. /\ hashed.min = m.min /\ hashed.max = m.max /\ hashed.size = m.size
          /\ Len(hashed.chunk) = Len(m.chunk) /\ scan = Scan(hashed)
      BY <2>3, <2>4 DEF scan
    <3> HIDE DEF scan
    <3> QED  BY <3>2, <3>3
  <2> HIDE DEF scan
  <2>7. /\ Keeps(hashed, summed) /\ summed.chunk = m.chunk /\ summed.sent = m.sent /\ summed.size = m.size
        /\ summed.reached = TRUE
    <3>1. /\ summed.chunk = hashed.chunk /\ summed.sent = hashed.sent /\ summed.size = hashed.size
          /\ summed.reached = hashed.reached /\ Keeps(hashed, summed)
      BY <2>4, HashKeeps, ZenonT(60)
    <3> HIDE DEF summed
    <3> QED  BY <2>3, <3>1, ZenonT(60)
  <2> HIDE DEF summed
  <2>8. Keeps(m, summed) /\ Sound(summed) /\ summed.min = m.min /\ summed.max = m.max
    BY <2>3, <2>7, KeepsTransitive DEF Keeps
  <2>9. scan.bytes \in 0 .. m.size /\ scan.bytes \in Nat  BY <1>2, <2>2, <2>6
  <2>10. /\ Keeps(summed, filled) /\ filled.sent = m.sent /\ filled.size = m.size - scan.bytes
         /\ Len(filled.chunk) = Len(m.chunk) + scan.bytes /\ filled.reached = TRUE
    <3>1. scan.bytes \in 0 .. summed.size  BY <2>7, <2>9
    <3>2. Keeps(summed, filled)  BY <2>8, <3>1, FillKeeps
    <3>3. /\ filled.sent = summed.sent /\ filled.size = summed.size - scan.bytes
          /\ Len(filled.chunk) = Len(summed.chunk) + scan.bytes /\ filled.reached = summed.reached
      BY <2>8, <3>1, FillMoves
    <3> HIDE DEF filled
    <3> QED  BY <2>7, <3>2, <3>3
  <2> HIDE DEF filled
  <2>11. Keeps(m, filled) /\ Sound(filled) /\ filled.min = m.min /\ filled.max = m.max
    BY <2>8, <2>10, KeepsTransitive DEF Keeps
  <2>12. CASE scan.found
    <3>1. Len(filled.chunk) \in m.min .. m.max  BY <1>2, <2>6, <2>9, <2>10, <2>12
    <3> DEFINE more == ~ended
    <3>2. /\ more \in BOOLEAN /\ (~flush /\ ~more => ended) /\ ~(flush /\ ~more)
          /\ t = [more |-> more, maker |-> startNewChunk(sendChunk(filled))]
      BY <2>1, <2>12
    <3> HIDE DEF more
    <3>3. RoundFine(m, ended, flush, [more |-> more, maker |-> startNewChunk(sendChunk(filled))])
      BY <2>10, <2>11, <3>1, <3>2, SentFine
    <3> QED  BY <3>2, <3>3 DEF t
  <2>13. CASE ~scan.found /\ flush
    <3> DEFINE k == fill(filled, m.min)
    <3>1. filled.size = m.min /\ m.min \in 0 .. filled.size /\ filled.size \in Nat  BY <1>2, <2>2, <2>6, <2>10, <2>13
    <3>2. /\ Keeps(filled, k) /\ k.sent = filled.sent /\ k.size = filled.size - m.min
          /\ Len(k.chunk) = Len(filled.chunk) + m.min
      BY <2>11, <3>1, FillKeeps, FillMoves
    <3> HIDE DEF k
    <3>3. Keeps(m, k) /\ k.sent = m.sent  BY <2>10, <2>11, <3>2, KeepsTransitive
    <3>4. k.size = 0 /\ Len(k.chunk) \in m.min .. m.max
      BY <1>2, <2>2, <2>6, <2>10, <2>13, <3>1, <3>2, SMTT(60)
    <3>5. RoundFine(m, ended, flush, [more |-> FALSE, maker |-> startNewChunk(sendChunk(k))])
      BY <2>13, <3>3, <3>4, SentFine
    <3> QED  BY <2>1, <2>13, <3>5 DEF t, k
  <2>14. CASE ~scan.found /\ ~flush
    <3>1. t.more = ~ended /\ t.maker = filled  BY <2>1, <2>14
    <3>2. Len(filled.chunk) + m.min < m.max /\ m.min <= filled.size  BY <1>2, <2>2, <2>6, <2>10, <2>14
    <3>3. Fits(filled)  BY <2>10, <2>11, <3>2 DEF Fits
    <3> QED  BY <2>10, <2>11, <2>14, <3>1, <3>3 DEF RoundFine, SendsChunk, t
  <2> QED  BY <2>6, <2>12, <2>13, <2>14
<1> QED  BY <1>2, <1>3, <1>4, <1>5

(* The buffer becomes a chunk of one size. *)
LEMMA SendFixedKeeps ==
    ASSUME NEW m, Sound(m), FixedSize(m), FitsFixed(m)
    PROVE  LET r == SendFixed(m) IN Keeps(m, r) /\ FitsFixed(r) /\ r.size = 0 /\ SendsChunk(m, r, 1)
<1> DEFINE b == Buffered(m)
           full == [startNewChunk(m) EXCEPT !.chunk = SubSeq(Buffered(m), 1, m.size)]
           k == IF m.size > 0 THEN sendChunk(full) ELSE full
           r == SendFixed(m)
<1>1. m.size \in Nat /\ m.min \in Nat \ {0} /\ m.max = m.min /\ m.size <= m.min /\ m.sent \in Seq(Seq(Nat)) /\ m.chunk = <<>>
  BY DEF Sound, FixedSize, FitsFixed
<1>2. b \in Seq(Nat) /\ Len(b) = m.size  BY BufferedBytes
<1>3. SubSeq(Buffered(m), 1, m.size) = b  BY <1>2, SubSeqFull
<1> HIDE DEF b
<1>4. /\ DOMAIN full = DOMAIN m /\ full.min = m.min /\ full.max = m.max /\ full.buffer = m.buffer
      /\ full.reached = FALSE /\ full.sent = m.sent /\ full.chunk = b /\ full.start = m.start /\ full.size = m.size
  BY <1>3 DEF startNewChunk, Sound
<1>5. r = [k EXCEPT !.size = 0, !.start = 0]  BY DEF SendFixed
<1> HIDE DEF full, r
<1>6. /\ DOMAIN k = DOMAIN m /\ k.min = m.min /\ k.max = m.max /\ k.buffer = m.buffer /\ k.reached = FALSE
      /\ k.chunk = <<>> /\ k.sent = IF m.size > 0 THEN Append(m.sent, b) ELSE m.sent
  <2>1. CASE m.size > 0
    <3>1. k = [full EXCEPT !.sent = Append(m.sent, b), !.chunk = <<>>]  BY <1>4, <2>1 DEF sendChunk
    <3> QED  BY <1>4, <2>1, <3>1 DEF Sound
  <2>2. CASE ~(m.size > 0)
    <3>1. k = full /\ b = <<>>  BY <1>1, <1>2, <2>2
    <3> QED  BY <1>4, <2>2, <3>1
  <2> QED  BY <2>1, <2>2
<1> HIDE DEF k
<1>7. /\ DOMAIN r = DOMAIN m /\ r.min = m.min /\ r.max = m.max /\ r.buffer = m.buffer /\ r.reached = FALSE
      /\ r.chunk = <<>> /\ r.sent = k.sent /\ r.size = 0 /\ r.start = 0
  BY <1>5, <1>6 DEF Sound
<1>8. r.sent \in Seq(Seq(Nat))  BY <1>1, <1>2, <1>6, <1>7
<1>9. Sound(r)
  <2>1. r.size \in 0 .. 2 * r.min /\ r.start \in 0 .. (2 * r.min - 1)  BY <1>1, <1>7
  <2>2. r.chunk \in Seq(Nat) /\ r.reached \in BOOLEAN
    <3>1. <<>> \in Seq(Nat) /\ FALSE \in BOOLEAN  OBVIOUS
    <3> QED  BY <1>7, <3>1, ZenonT(60)
  <2> QED  BY <1>7, <1>8, <2>1, <2>2 DEF Sound
<1>10. Buffered(r) = <<>>
  <2>1. Buffered(r) \in Seq(Nat) /\ Len(Buffered(r)) = 0  BY <1>7, <1>9, BufferedBytes
  <2> QED  BY <2>1
<1>11. Stream(m) = FlattenSeq(m.sent) \o b  BY <1>1, StreamParts DEF b
<1>12. Stream(r) = FlattenSeq(r.sent) \o Buffered(r)  BY <1>7, <1>9, StreamParts
<1>13. FlattenSeq(r.sent) \in Seq(Nat)  BY <1>9, StreamParts
<1>14. Stream(r) = FlattenSeq(r.sent)  BY <1>10, <1>12, <1>13, ConcatEmptySeq
<1>15. Stream(r) = Stream(m)
  <2>1. CASE m.size > 0
    <3>1. r.sent = Append(m.sent, b)  BY <1>6, <1>7, <2>1
    <3>2. FlattenSeq(Append(m.sent, b)) = FlattenSeq(m.sent) \o b  BY <1>1, <1>2, FlattenAppend, ZenonT(60)
    <3> QED  BY <1>11, <1>14, <3>1, <3>2
  <2>2. CASE ~(m.size > 0)
    <3>1. r.sent = m.sent /\ b = <<>>  BY <1>1, <1>2, <1>6, <1>7, <2>2
    <3>2. FlattenSeq(m.sent) \o b = FlattenSeq(m.sent)  BY <1>13, <3>1, ConcatEmptySeq
    <3> QED  BY <1>11, <1>14, <3>1, <3>2
  <2> QED  BY <2>1, <2>2
<1>16. SendsChunk(m, r, 1)
  <2>1. CASE m.size > 0
    <3>1. r.sent = Append(m.sent, b)  BY <1>6, <1>7, <2>1
    <3>2. Len(b) \in 1 .. m.max  BY <1>1, <1>2, <2>1
    <3> QED  BY <1>2, <3>1, <3>2 DEF SendsChunk
  <2>2. CASE ~(m.size > 0)
    <3>1. r.sent = m.sent  BY <1>6, <1>7, <2>2
    <3> QED  BY <3>1 DEF SendsChunk
  <2> QED  BY <2>1, <2>2
<1> QED  BY <1>1, <1>7, <1>9, <1>15, <1>16 DEF Keeps, FitsFixed, r

-----------------------------------------------------------------------------
(* The behaviour.                                                          *)

LEMMA ContentsNext ==
    ASSUME \A f \in DOMAIN data : data[f] \in Seq(Nat), NEW n \in Nat
    PROVE  /\ Contents(n) \in Seq(Nat) /\ Contents(0) = <<>>
           /\ Bytes(listed[n + 1]) \in Seq(Nat)
           /\ Contents(n + 1) = Contents(n) \o Bytes(listed[n + 1])
<1> DEFINE g(k) == [i \in 1 .. k |-> Bytes(listed[i])]
           c == Bytes(listed[n + 1])
<1>1. \A f : Bytes(f) \in Seq(Nat)  BY DEF Bytes
<1>2. ASSUME NEW k \in Nat PROVE g(k) \in Seq(Seq(Nat)) /\ Len(g(k)) = k /\ \A i \in 1 .. k : g(k)[i] = Bytes(listed[i])
  <2>1. g(k) \in [1 .. k -> Seq(Nat)] /\ \A i \in 1 .. k : g(k)[i] = Bytes(listed[i])  BY <1>1
  <2> HIDE DEF g
  <2> QED  BY <2>1, FunctionsAreSequences
<1>3. Contents(n) = FlattenSeq(g(n)) /\ Contents(n + 1) = FlattenSeq(g(n + 1)) /\ Contents(0) = FlattenSeq(g(0))
  BY DEF Contents
<1> HIDE DEF g
<1>4. c \in Seq(Nat)  BY <1>1
<1> HIDE DEF c
<1>5. /\ g(n) \in Seq(Seq(Nat)) /\ Len(g(n)) = n /\ \A i \in 1 .. n : g(n)[i] = Bytes(listed[i])  BY <1>2
<1>6. /\ g(n + 1) \in Seq(Seq(Nat)) /\ Len(g(n + 1)) = n + 1 /\ \A i \in 1 .. n + 1 : g(n + 1)[i] = Bytes(listed[i])
  <2>1. n + 1 \in Nat  OBVIOUS
  <2> QED  BY <1>2, <2>1
<1>7. g(n + 1) = Append(g(n), c)
  <2> DEFINE u == g(n)
             w == g(n + 1)
             x == Append(u, c)
  <2>1. x \in Seq(Seq(Nat)) /\ Len(x) = n + 1 /\ x[n + 1] = c /\ \A i \in 1 .. n : x[i] = u[i]
    BY <1>4, <1>5, AppendProperties
  <2> HIDE DEF x, u, w
  <2>2. ASSUME NEW i \in 1 .. n + 1 PROVE w[i] = x[i]
    <3>1. w[i] = Bytes(listed[i])  BY <1>6 DEF w
    <3>2. CASE i = n + 1  BY <2>1, <3>1, <3>2 DEF c
    <3>3. CASE i # n + 1
      <4>1. i \in 1 .. n  BY <3>3
      <4> QED  BY <1>5, <2>1, <3>1, <4>1 DEF u
    <3> QED  BY <3>2, <3>3
  <2>3. w \in Seq(Seq(Nat)) /\ Len(w) = n + 1  BY <1>6 DEF w
  <2>4. w = x  BY <2>1, <2>2, <2>3, SeqEqual
  <2> QED  BY <2>4 DEF w, x, u
<1>8. FlattenSeq(g(n)) \in Seq(Nat) /\ FlattenSeq(Append(g(n), c)) = FlattenSeq(g(n)) \o c  BY <1>4, <1>5, FlattenAppend
<1>9. FlattenSeq(g(0)) = <<>>
  <2>1. g(0) \in Seq(Seq(Nat)) /\ Len(g(0)) = 0  BY <1>2
  <2>2. g(0) = <<>>  BY <2>1
  <2> QED  BY <1>4, <2>1, <2>2, FlattenAppend
<1> QED  BY <1>3, <1>4, <1>7, <1>8, <1>9 DEF c

(* The chunks sent in a step that sends at most one keep to the sizes. *)
LEMMA SizesStep ==
    ASSUME Sound(maker), Sound(maker'), maker'.min = maker.min, maker'.max = maker.max,
           ChunkSizes, pc # "done", NEW least \in Nat \ {0}, SendsChunk(maker, maker', least),
           maker.min <= least \/ FixedSize(maker) \/ pc' = "done"
    PROVE  ChunkSizes'
<1> DEFINE q == maker.sent
           r == maker'.sent
           lo == maker.min
           hi == maker.max
           one == FixedSize(maker)
           end == pc' = "done"
<1>1. lo \in Nat /\ hi \in Nat /\ q \in Seq(Seq(Nat))  BY DEF Sound
<1>2. \A i \in DOMAIN q : Len(q[i]) \in 1 .. hi /\ (Len(q[i]) < lo => one)  BY DEF ChunkSizes
<1>3. r = q \/ \E c \in Seq(Nat) : r = Append(q, c) /\ Len(c) \in least .. hi  BY DEF SendsChunk
<1>4. lo <= least \/ one \/ end  OBVIOUS
<1>5. one <=> FixedSize(maker')  BY DEF FixedSize
<1>6. SUFFICES \A i \in DOMAIN r : Len(r[i]) \in 1 .. hi /\ (Len(r[i]) < lo => one \/ (end /\ i = Len(r)))
  BY <1>5 DEF ChunkSizes
<1> HIDE DEF q, r, lo, hi, one, end
<1>7. CASE r = q  BY <1>2, <1>7
<1>8. ASSUME NEW c \in Seq(Nat), r = Append(q, c), Len(c) \in least .. hi, NEW i \in DOMAIN r
      PROVE  Len(r[i]) \in 1 .. hi /\ (Len(r[i]) < lo => one \/ (end /\ i = Len(r)))
  <2>1. Len(r) = Len(q) + 1 /\ Len(q) \in Nat /\ DOMAIN r = 1 .. Len(q) + 1 /\ DOMAIN q = 1 .. Len(q)  BY <1>1, <1>8
  <2>2. CASE i = Len(q) + 1
    <3>1. r[i] = c  BY <1>1, <1>8, <2>2
    <3>2. Len(c) \in 1 .. hi /\ (Len(c) < lo => ~(lo <= least))  BY <1>1, <1>8
    <3> QED  BY <1>4, <2>1, <2>2, <3>1, <3>2
  <2>3. CASE i # Len(q) + 1
    <3>1. i \in DOMAIN q  BY <2>1, <2>3
    <3>2. r[i] = q[i]  BY <1>1, <1>8, <2>1, <3>1
    <3> QED  BY <1>2, <3>1, <3>2
  <2> QED  BY <2>2, <2>3
<1> QED  BY <1>3, <1>7, <1>8

\* The inductive invariant.
Packed == PackingInv /\ StreamKept /\ ChunkSizes

LEMMA PackedInit == Init => Packed
<1> SUFFICES ASSUME Init PROVE Packed  OBVIOUS
<1>1. PICK i \in Inputs : data = i.data /\ maker = CreateFileChunkMaker(i.min, i.max)  BY DEF Init
<1>2. i.min \in Nat \ {0} /\ i.max \in Nat /\ i.min <= i.max /\ \A f \in DOMAIN data : data[f] \in Seq(Nat)
  BY <1>1, InputsAssumption
<1>3. pc = "list" /\ at = 1 /\ rest = <<>> /\ eof = FALSE  BY DEF Init
<1>4. /\ DOMAIN maker = {"min", "max", "buffer", "start", "size", "reached", "sum", "chunk", "sent"}
      /\ maker.min = i.min /\ maker.max = i.max /\ maker.buffer = [j \in 0 .. (2 * i.min - 1) |-> 0] /\ maker.start = 0
      /\ maker.size = 0 /\ maker.reached = FALSE /\ maker.chunk = <<>> /\ maker.sent = <<>>
  BY <1>1 DEF CreateFileChunkMaker
<1>5. Sound(maker)
  <2>1. maker.start \in 0 .. (2 * maker.min - 1) /\ maker.size \in 0 .. 2 * maker.min  BY <1>2, <1>4
  <2>2. maker.buffer \in [0 .. (2 * maker.min - 1) -> Nat]  BY <1>4
  <2>3. maker.chunk \in Seq(Nat) /\ maker.sent \in Seq(Seq(Nat)) /\ maker.reached \in BOOLEAN
    <3>1. <<>> \in Seq(Nat) /\ <<>> \in Seq(Seq(Nat)) /\ FALSE \in BOOLEAN  OBVIOUS
    <3> QED  BY <1>4, <3>1, ZenonT(60)
  <2> QED  BY <1>2, <1>4, <2>1, <2>2, <2>3 DEF Sound
<1>6. Fits(maker) /\ FitsFixed(maker)  BY <1>2, <1>4 DEF Fits, FitsFixed
<1>7. PackingInv  BY <1>2, <1>3, <1>4, <1>5, <1>6 DEF PackingInv
<1>8. StreamKept
  <2>1. Stream(maker) = FlattenSeq(maker.sent) \o Buffered(maker)  BY <1>4, <1>5, StreamParts
  <2>2. Buffered(maker) = <<>>
    <3>1. Buffered(maker) \in Seq(Nat) /\ Len(Buffered(maker)) = 0  BY <1>4, <1>5, BufferedBytes
    <3> QED  BY <3>1
  <2>3. FlattenSeq(maker.sent) = <<>>
    <3>1. <<>> \in Seq(Seq(Nat)) /\ <<>> \in Seq(Nat)  OBVIOUS
    <3> QED  BY <1>4, <3>1, FlattenAppend
  <2>4. Stream(maker) \o rest = <<>>  BY <1>3, <2>1, <2>2, <2>3
  <2>5. Contents(at - 1) = <<>>
    <3>1. at - 1 = 0 /\ 0 \in Nat  BY <1>3
    <3> QED  BY <1>2, <3>1, ContentsNext
  <2> QED  BY <2>4, <2>5 DEF StreamKept
<1>9. ChunkSizes  BY <1>4 DEF ChunkSizes
<1> QED  BY <1>7, <1>8, <1>9 DEF Packed

LEMMA PutStream ==
    ASSUME NEW m, Sound(m), NEW d \in Seq(Nat), Len(d) <= Space(m)
    PROVE  Stream(Put(m, d)) = Stream(m) \o d
<1> DEFINE r == Put(m, d)
           f == FlattenSeq(m.sent) \o m.chunk
           b == Buffered(m)
<1>1. Buffered(r) = b \o d /\ r.chunk = m.chunk /\ r.sent = m.sent  BY PutBuffers
<1>2. b \in Seq(Nat) /\ FlattenSeq(m.sent) \in Seq(Nat) /\ m.chunk \in Seq(Nat)  BY StreamParts
<1>3. f \in Seq(Nat)  BY <1>2, ConcatProperties, ZenonT(60)
<1>4. Stream(r) = f \o (b \o d) /\ Stream(m) = f \o b  BY <1>1 DEF Stream
<1> HIDE DEF r, f, b
<1>5. (f \o b) \o d = f \o (b \o d)
  <2>1. b \in Seq(Nat)  BY <1>2
  <2> QED  BY <1>3, <2>1, Joined, ZenonT(60)
<1> QED  BY <1>4, <1>5 DEF r

LEMMA ContentsNone == Contents(0) = <<>> /\ Contents(0)' = <<>>
<1>1. \A q : q = [i \in 1 .. 0 |-> q[i]] => FlattenSeq(q) = <<>>
  <2>1. TAKE q
  <2>2. HAVE q = [i \in 1 .. 0 |-> q[i]]
  <2>3. q = <<>>  BY <2>2
  <2>4. <<>> \in Seq(Seq(Nat)) /\ <<>> \in Seq(Nat)  OBVIOUS
  <2> QED  BY <2>3, <2>4, FlattenAppend
<1>2. ASSUME NEW q, q = [i \in 1 .. 0 |-> Bytes(listed[i])] PROVE FlattenSeq(q) = <<>>
  <2>1. q = [i \in 1 .. 0 |-> q[i]]  BY <1>2
  <2> QED  BY <1>1, <2>1
<1>3. ASSUME NEW q, q = [i \in 1 .. 0 |-> Bytes(listed[i])'] PROVE FlattenSeq(q) = <<>>
  <2>1. q = [i \in 1 .. 0 |-> q[i]]  BY <1>3
  <2> QED  BY <1>1, <2>1
<1>4. Contents(0) = <<>>  BY <1>2 DEF Contents
<1>5. Contents(0)' = <<>>  BY <1>3 DEF Contents
<1> QED  BY <1>4, <1>5

(* A step of the chunk maker that keeps the stream keeps StreamKept. *)
LEMMA StreamStep ==
    ASSUME StreamKept, data' = data, listed' = listed, at' = at, rest' = rest, Stream(maker') = Stream(maker)
    PROVE  StreamKept'
<1>1. Contents(at - 1)' = Contents(at - 1)  BY DEF Contents, Bytes
<1> QED  BY <1>1 DEF StreamKept

(* While the directories are listed. *)
LEMMA ListStep ==
    ASSUME Packed, ListDirectory \/ ListFails \/ CloseListing
    PROVE  Packed'
<1>1. /\ pc = "list" /\ at' = at /\ rest' = rest /\ eof' = eof /\ maker' = maker /\ data' = data
      /\ pc' \in {"list", "open", "failed"}
  BY DEF ListDirectory, ListFails, CloseListing, repository
<1>2. at = 1 /\ rest = <<>>  BY <1>1 DEF Packed, PackingInv
<1>3. PackingInv'  BY <1>1, <1>2 DEF Packed, PackingInv
<1>4. StreamKept'
  <2>1. at - 1 = 0  BY <1>2
  <2>2. Stream(maker) \o rest = <<>>  BY <2>1, ContentsNone DEF Packed, StreamKept
  <2>3. Contents(at - 1)' = <<>>
    <3>1. Contents(at - 1)' = Contents(0)'  BY <1>1, <2>1 DEF Contents
    <3> QED  BY <3>1, ContentsNone
  <2> QED  BY <1>1, <2>2, <2>3 DEF StreamKept
<1>5. ChunkSizes'  BY <1>1 DEF Packed, ChunkSizes
<1> QED  BY <1>3, <1>4, <1>5 DEF Packed

LEMMA OpenStep ==
    ASSUME Packed, OpenNext
    PROVE  Packed'
<1>1. pc = "open" /\ maker' = maker /\ data' = data /\ listed' = listed  BY DEF OpenNext, repository, listing
<1>2. /\ at \in Nat \ {0} /\ rest = <<>> /\ rest \in Seq(Nat) /\ Sound(maker)
      /\ \A f \in DOMAIN data : data[f] \in Seq(Nat)
  BY <1>1 DEF Packed, PackingInv
<1>3. CASE at > Len(listed)
  <2>1. pc' = (IF FixedSize(maker) THEN "done" ELSE "flush") /\ at' = at /\ rest' = rest /\ eof' = eof
    BY <1>3 DEF OpenNext
  <2>2. PackingInv'  BY <1>1, <1>2, <1>3, <2>1 DEF Packed, PackingInv
  <2>3. StreamKept'  BY <1>1, <2>1, StreamStep DEF Packed
  <2>4. ChunkSizes'  BY <1>1 DEF Packed, ChunkSizes
  <2> QED  BY <2>2, <2>3, <2>4 DEF Packed
<1>4. CASE ~(at > Len(listed))
  <2> DEFINE b == Bytes(listed[at])
  <2>1. at' = at + 1 /\ rest' = b /\ (pc' = "open" \/ (pc' = "read" /\ eof' = FALSE)) /\ (pc' = "open" => rest' = <<>> /\ eof' = eof)
    BY <1>2, <1>4 DEF OpenNext, Bytes
  <2>2. at - 1 \in Nat /\ at - 1 + 1 = at /\ at' - 1 = at /\ at' \in Nat \ {0}  BY <1>2, <2>1
  <2>3. b \in Seq(Nat) /\ Contents(at) = Contents(at - 1) \o b
    <3>1. /\ Bytes(listed[at - 1 + 1]) \in Seq(Nat)
          /\ Contents(at - 1 + 1) = Contents(at - 1) \o Bytes(listed[at - 1 + 1])
      BY <1>2, <2>2, ContentsNext
    <3> QED  BY <2>2, <3>1
  <2>4. Contents(at - 1)' = Contents(at)
    <3>1. Contents(at - 1)' = FlattenSeq([i \in 1 .. at' - 1 |-> Bytes(listed[i])])  BY <1>1 DEF Contents, Bytes
    <3> QED  BY <2>2, <3>1 DEF Contents
  <2>5. Stream(maker) = Contents(at - 1)
    <3>1. Stream(maker) \in Seq(Nat)  BY <1>2, StreamParts
    <3>2. Stream(maker) \o rest = Stream(maker)  BY <1>2, <3>1, ConcatEmptySeq
    <3> QED  BY <3>2 DEF Packed, StreamKept
  <2> HIDE DEF b
  <2>6. StreamKept'  BY <1>1, <2>1, <2>3, <2>4, <2>5 DEF StreamKept
  <2>7. PackingInv'  BY <1>1, <1>2, <2>1, <2>2, <2>3 DEF Packed, PackingInv
  <2>8. ChunkSizes'  BY <1>1, <2>1 DEF Packed, ChunkSizes
  <2> QED  BY <2>6, <2>7, <2>8 DEF Packed
<1> QED  BY <1>3, <1>4

LEMMA ReadStep ==
    ASSUME Packed, NEW count \in 1 .. Len(rest), Read(count)
    PROVE  Packed'
<1> DEFINE d == SubSeq(rest, 1, count)
           e == SubSeq(rest, count + 1, Len(rest))
<1>1. /\ pc = "read" /\ ~eof /\ pc' = pc /\ eof' = eof /\ at' = at /\ data' = data /\ listed' = listed
      /\ maker' = Put(maker, d) /\ rest' = e
      /\ count <= IF FixedSize(maker) THEN maker.min - maker.size ELSE Space(maker)
  BY DEF Read, repository, listing
<1>2. /\ rest \in Seq(Nat) /\ Len(rest) \in Nat /\ at \in Nat \ {0} /\ Sound(maker)
      /\ IF FixedSize(maker) THEN FitsFixed(maker) ELSE Fits(maker)
  BY DEF Packed, PackingInv
<1>3. /\ maker.min \in Nat \ {0} /\ maker.size \in Nat /\ maker.start \in Nat /\ maker.size <= 2 * maker.min
  BY <1>2, SMTT(60) DEF Sound
<1>4. d \in Seq(Nat) /\ Len(d) = count /\ e \in Seq(Nat) /\ d \o e = rest
  <2>1. count \in Nat /\ 1 <= count /\ count <= Len(rest)  BY <1>2
  <2>2. \A i \in 1 .. count : rest[i] \in Nat  BY <1>2, <2>1
  <2>3. \A i \in count + 1 .. Len(rest) : rest[i] \in Nat  BY <1>2, <2>1
  <2>4. d \in Seq(Nat) /\ Len(d) = count
    <3>1. d \in Seq(Nat) /\ Len(d) = IF 1 <= count THEN count - 1 + 1 ELSE 0  BY <2>1, <2>2, SubSeqProperties
    <3> HIDE DEF d
    <3> QED  BY <2>1, <3>1
  <2>5. e \in Seq(Nat)  BY <1>2, <2>1, <2>3, SubSeqProperties
  <2>6. d \o e = SubSeq(rest, 1, Len(rest))
    <3>1. 1 \in 1 .. Len(rest) + 1 /\ count \in 1 - 1 .. Len(rest) /\ Len(rest) \in count .. Len(rest)  BY <1>2, <2>1
    <3> QED  BY <1>2, <3>1, ConcatAdjacentSubSeq
  <2>7. SubSeq(rest, 1, Len(rest)) = rest  BY <1>2, SubSeqFull
  <2> QED  BY <2>4, <2>5, <2>6, <2>7, ZenonT(60)
<1> HIDE DEF d, e
<1>5. Len(d) <= Space(maker)
  <2>1. CASE ~FixedSize(maker)  BY <1>1, <1>4, <2>1
  <2>2. CASE FixedSize(maker)
    <3>1. maker.start = 0 /\ maker.size <= maker.min  BY <1>2, <2>2 DEF FitsFixed
    <3>2. Space(maker) = 2 * maker.min - maker.size  BY <1>3, <3>1 DEF Space, Capacity
    <3>3. Len(d) \in Nat /\ Len(d) <= maker.min - maker.size  BY <1>1, <1>4, <2>2
    <3> QED  BY <1>3, <3>2, <3>3
  <2> QED  BY <2>1, <2>2
<1>6. /\ Sound(maker') /\ maker'.min = maker.min /\ maker'.max = maker.max /\ maker'.start = maker.start
      /\ maker'.size = maker.size + Len(d) /\ maker'.reached = maker.reached /\ maker'.chunk = maker.chunk
      /\ maker'.sent = maker.sent
  BY <1>1, <1>2, <1>4, <1>5, PutBuffers
<1>7. Stream(maker') = Stream(maker) \o d  BY <1>1, <1>2, <1>4, <1>5, PutStream
<1>8. StreamKept'
  <2> DEFINE v == Stream(maker)
  <2>1. v \in Seq(Nat)  BY <1>2, StreamParts
  <2>2. v \o rest = Contents(at - 1)  BY DEF Packed, StreamKept
  <2>3. Contents(at - 1)' = Contents(at - 1)  BY <1>1 DEF Contents, Bytes
  <2> HIDE DEF v
  <2>4. (v \o d) \o e = v \o (d \o e)
    <3>1. d \in Seq(Nat) /\ e \in Seq(Nat)  BY <1>4
    <3> QED  BY <2>1, <3>1, Joined, ZenonT(60)
  <2>5. Stream(maker') \o rest' = Contents(at - 1)'  BY <1>1, <1>4, <1>7, <2>2, <2>3, <2>4 DEF v
  <2> QED  BY <2>5 DEF StreamKept
<1>9. FixedSize(maker') <=> FixedSize(maker)  BY <1>6 DEF FixedSize
<1>10. IF FixedSize(maker') THEN FitsFixed(maker') ELSE Fits(maker')
  <2>1. CASE FixedSize(maker)
    <3>1. Len(d) \in Nat /\ Len(d) <= maker.min - maker.size  BY <1>1, <1>4, <2>1
    <3>2. maker'.size <= maker'.min  BY <1>3, <1>6, <3>1
    <3> QED  BY <1>2, <1>6, <1>9, <2>1, <3>2 DEF FitsFixed
  <2>2. CASE ~FixedSize(maker)
    <3>1. maker.min <= maker.size => maker'.min <= maker'.size  BY <1>3, <1>4, <1>6
    <3> QED  BY <1>2, <1>6, <1>9, <2>2, <3>1 DEF Fits
  <2> QED  BY <2>1, <2>2
<1>11. PackingInv'  BY <1>1, <1>4, <1>6, <1>10 DEF Packed, PackingInv
<1>12. ChunkSizes'
  <2>1. \A i \in DOMAIN maker.sent :
           Len(maker.sent[i]) \in 1 .. maker.max /\ (Len(maker.sent[i]) < maker.min => FixedSize(maker))
    BY <1>1 DEF Packed, ChunkSizes
  <2> QED  BY <1>6, <1>9, <2>1 DEF ChunkSizes
<1> QED  BY <1>8, <1>11, <1>12 DEF Packed

LEMMA EOFStep ==
    ASSUME Packed, SeeEOF
    PROVE  Packed'
<1>1. /\ pc = "read" /\ pc' = pc /\ eof' = TRUE /\ rest = <<>> /\ rest' = rest /\ at' = at /\ maker' = maker
      /\ data' = data /\ listed' = listed
  BY DEF SeeEOF, repository, listing
<1>2. PackingInv'  BY <1>1 DEF Packed, PackingInv
<1>3. StreamKept'  BY <1>1, StreamStep DEF Packed
<1>4. ChunkSizes'  BY <1>1 DEF Packed, ChunkSizes
<1> QED  BY <1>2, <1>3, <1>4 DEF Packed

(* A round that was fine, as AddRound or FlushRound takes it. *)
LEMMA RoundStep ==
    ASSUME Packed, pc \in {"read", "flush"}, ~FixedSize(maker),
           NEW e \in BOOLEAN, NEW t, RoundFine(maker, e, pc = "flush", t),
           pc = "read" => e = eof,
           maker' = t.maker, pc' = IF t.more THEN pc ELSE IF pc = "flush" THEN "done" ELSE "open",
           data' = data, listed' = listed, at' = at, rest' = rest, eof' = eof
    PROVE  Packed'
<1> DEFINE flush == pc = "flush"
           least == IF flush /\ ~t.more THEN 1 ELSE maker.min
<1>1. /\ t.more \in BOOLEAN /\ Keeps(maker, maker') /\ Fits(maker') /\ (~flush /\ ~t.more => e)
      /\ (flush /\ ~t.more => maker'.size = 0 /\ maker'.chunk = <<>>) /\ SendsChunk(maker, maker', least)
  BY DEF RoundFine
<1>2. Sound(maker) /\ Sound(maker') /\ maker'.min = maker.min /\ maker'.max = maker.max /\ Stream(maker') = Stream(maker)
  BY <1>1 DEF Keeps, Packed, PackingInv
<1>3. ~FixedSize(maker')  BY <1>2 DEF FixedSize
<1>4. StreamKept'  BY <1>2, StreamStep DEF Packed
<1>5. ChunkSizes'
  <2>1. maker.min \in Nat \ {0} /\ maker.min <= maker.min  BY <1>2 DEF Sound
  <2>2. CASE flush /\ ~t.more
    <3>1. least = 1 /\ pc' = "done" /\ 1 \in Nat \ {0}  BY <2>2
    <3> HIDE DEF least
    <3>2. pc # "done"  OBVIOUS
    <3> QED  BY <1>1, <1>2, <3>1, <3>2, SizesStep DEF Packed
  <2>3. CASE ~(flush /\ ~t.more)
    <3>1. least = maker.min  BY <2>3
    <3> HIDE DEF least
    <3>2. pc # "done" /\ least \in Nat \ {0} /\ maker.min <= least  BY <2>1, <3>1
    <3> QED  BY <1>1, <1>2, <3>2, SizesStep DEF Packed
  <2> QED  BY <2>2, <2>3
<1>6. PackingInv'
  <2>1. pc' # "read" \/ eof' => rest' = <<>>  BY <1>1 DEF Packed, PackingInv
  <2>2. pc' \in {"flush", "done"} => at' > Len(listed')  BY <1>1 DEF Packed, PackingInv
  <2>3. pc' = "done" => maker'.size = 0 /\ maker'.chunk = <<>>  BY <1>1
  <2>4. pc' # "list"  BY <1>1
  <2> QED  BY <1>1, <1>2, <1>3, <2>1, <2>2, <2>3, <2>4 DEF Packed, PackingInv
<1> QED  BY <1>4, <1>5, <1>6 DEF Packed

LEMMA AddRoundStep ==
    ASSUME Packed, AddRound
    PROVE  Packed'
<1> DEFINE t == Round(maker, eof, FALSE)
<1>1. /\ pc = "read" /\ ~FixedSize(maker) /\ maker' = t.maker /\ pc' = (IF t.more THEN "read" ELSE "open")
      /\ data' = data /\ listed' = listed /\ at' = at /\ rest' = rest /\ eof' = eof
  BY DEF AddRound, repository, listing
<1>2. Sound(maker) /\ Fits(maker) /\ eof \in BOOLEAN  BY <1>1 DEF Packed, PackingInv
<1>3. RoundFine(maker, eof, FALSE, t)  BY <1>1, <1>2, RoundKeeps
<1> HIDE DEF t
<1>4. (pc = "flush") = FALSE  BY <1>1
<1>5. RoundFine(maker, eof, pc = "flush", t)  BY <1>3, <1>4
<1> QED  BY <1>1, <1>2, <1>5, RoundStep

LEMMA FlushStep ==
    ASSUME Packed, FlushRound
    PROVE  Packed'
<1> DEFINE t == Round(maker, FALSE, TRUE)
<1>1. /\ pc = "flush" /\ maker' = t.maker /\ pc' = (IF t.more THEN "flush" ELSE "done")
      /\ data' = data /\ listed' = listed /\ at' = at /\ rest' = rest /\ eof' = eof
  BY DEF FlushRound, repository, listing
<1>2. Sound(maker) /\ Fits(maker) /\ ~FixedSize(maker)  BY <1>1 DEF Packed, PackingInv
<1>3. RoundFine(maker, FALSE, TRUE, t)  BY <1>1, <1>2, RoundKeeps
<1> HIDE DEF t
<1>4. (pc = "flush") = TRUE  BY <1>1
<1>5. RoundFine(maker, FALSE, pc = "flush", t)  BY <1>3, <1>4
<1> QED  BY <1>1, <1>2, <1>5, RoundStep

LEMMA FixedStep ==
    ASSUME Packed, AddFixed
    PROVE  Packed'
<1> DEFINE r == SendFixed(maker)
<1>1. /\ pc = "read" /\ FixedSize(maker) /\ maker' = r /\ pc' = (IF eof THEN "open" ELSE "read")
      /\ data' = data /\ listed' = listed /\ at' = at /\ rest' = rest /\ eof' = eof
  BY DEF AddFixed, repository, listing
<1>2. Sound(maker) /\ FitsFixed(maker)  BY <1>1 DEF Packed, PackingInv
<1>3. Keeps(maker, r) /\ FitsFixed(r) /\ r.size = 0 /\ SendsChunk(maker, r, 1)  BY <1>1, <1>2, SendFixedKeeps
<1> HIDE DEF r
<1>4. Sound(maker') /\ maker'.min = maker.min /\ maker'.max = maker.max /\ Stream(maker') = Stream(maker)
  BY <1>1, <1>3 DEF Keeps
<1>5. FixedSize(maker')  BY <1>1, <1>4 DEF FixedSize
<1>6. StreamKept'  BY <1>1, <1>4, StreamStep DEF Packed
<1>7. ChunkSizes'
  <2>1. 1 \in Nat \ {0} /\ SendsChunk(maker, maker', 1) /\ pc # "done"  BY <1>1, <1>3
  <2> QED  BY <1>1, <1>2, <1>4, <2>1, SizesStep DEF Packed
<1>8. maker'.size = 0 /\ maker'.chunk = <<>> /\ FitsFixed(maker')  BY <1>1, <1>3 DEF FitsFixed
<1>9. PackingInv'  BY <1>1, <1>4, <1>5, <1>8 DEF Packed, PackingInv
<1> QED  BY <1>6, <1>7, <1>9 DEF Packed

LEMMA PackedNext == Packed /\ [Next]_vars => Packed'
<1> SUFFICES ASSUME Packed, [Next]_vars PROVE Packed'  OBVIOUS
<1>1. CASE ListDirectory \/ ListFails \/ CloseListing  BY <1>1, ListStep
<1>2. CASE OpenNext  BY <1>2, OpenStep
<1>3. CASE \E count \in 1 .. Len(rest) : Read(count)  BY <1>3, ReadStep
<1>4. CASE SeeEOF  BY <1>4, EOFStep
<1>5. CASE AddRound  BY <1>5, AddRoundStep
<1>6. CASE AddFixed  BY <1>6, FixedStep
<1>7. CASE FlushRound  BY <1>7, FlushStep
<1>8. CASE UNCHANGED vars
  <2>1. pc' = pc /\ at' = at /\ rest' = rest /\ eof' = eof /\ maker' = maker /\ data' = data /\ listed' = listed
    BY <1>8 DEF vars, repository, listing
  <2>2. PackingInv'  BY <2>1 DEF Packed, PackingInv
  <2>3. StreamKept'  BY <2>1, StreamStep DEF Packed
  <2>4. ChunkSizes'  BY <2>1 DEF Packed, ChunkSizes
  <2> QED  BY <2>2, <2>3, <2>4 DEF Packed
<1> QED  BY <1>1, <1>2, <1>3, <1>4, <1>5, <1>6, <1>7, <1>8 DEF Next, Finished

LEMMA PackedAlways == Spec => []Packed
<1>1. Init => Packed  BY PackedInit
<1>2. Packed /\ [Next]_vars => Packed'  BY PackedNext
<1> QED  BY <1>1, <1>2, PTL DEF Spec

(* The inductive invariant of the packing: the loops of AddData keep the fields of   *)
(* the chunk maker within the bounds on which the next round relies.                 *)
THEOREM PackingInvariant == Spec => []PackingInv
<1>1. Packed => PackingInv  BY DEF Packed
<1> QED  BY <1>1, PackedAlways, PTL

(* Whatever the reads bring, nothing is lost, doubled or put in another order between *)
(* the files that were opened and the chunks, the chunk being filled and the buffer.  *)
THEOREM StreamIsKept == Spec => []StreamKept
<1>1. Packed => StreamKept  BY DEF Packed
<1> QED  BY <1>1, PackedAlways, PTL

(* No chunk is empty or above the largest size, and none is below the smallest but    *)
(* the last one.                                                                      *)
THEOREM ChunkSizesKept == Spec => []ChunkSizes
<1>1. Packed => ChunkSizes  BY DEF Packed
<1> QED  BY <1>1, PackedAlways, PTL

(* When the backup has packed all it listed, the chunks put together are the files.   *)
THEOREM EverythingIsPacked == Spec => []AllPacked
<1>1. Packed => AllPacked
  <2> SUFFICES ASSUME Packed, pc = "done" PROVE at > Len(listed) /\ FlattenSeq(maker.sent) = Contents(at - 1)
    BY DEF AllPacked
  <2>1. at > Len(listed) /\ Sound(maker) /\ maker.size = 0 /\ maker.chunk = <<>> /\ rest = <<>>
    BY DEF Packed, PackingInv
  <2>2. Stream(maker) = FlattenSeq(maker.sent) \o Buffered(maker)  BY <2>1, StreamParts
  <2>3. FlattenSeq(maker.sent) \in Seq(Nat)  BY <2>1, StreamParts
  <2>4. Buffered(maker) = <<>>
    <3>1. Buffered(maker) \in Seq(Nat) /\ Len(Buffered(maker)) = 0  BY <2>1, BufferedBytes
    <3> QED  BY <3>1
  <2>5. Stream(maker) \o rest = FlattenSeq(maker.sent)  BY <2>1, <2>2, <2>3, <2>4, ConcatEmptySeq
  <2> QED  BY <2>1, <2>5 DEF Packed, StreamKept
<1> QED  BY <1>1, PackedAlways, PTL

=============================================================================
