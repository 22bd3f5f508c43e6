----------------------------- MODULE ChunkMaker -----------------------------
(***************************************************************************)
(* Splitting data into chunks (duplicacy_chunkmaker.go): a ring buffer, a  *)
(* rolling hash over the smallest chunk size, and the loop of AddData, one *)
(* round of it an operator.  A hash is the set of its bits that are 1; its *)
(* width and the table of random numbers are parameters.                   *)
(***************************************************************************)
EXTENDS Integers, Sequences, SequencesExt, FiniteSetsExt

CONSTANTS Width,      \* of a hash
          Table,      \* byte -> hash
          MaskBits    \* how many low bits of the hash are 0 where a chunk ends

Xor(a, b) == (a \ b) \cup (b \ a)
rotateLeft(h, n) == {(i + n) % Width : i \in h}
Zero == {}
EndsChunk(h) == h \cap 0..(MaskBits - 1) = {}

buzhashSum(sum, data) == FoldLeft(LAMBDA h, b : Xor(rotateLeft(h, 1), Table[b]), sum, data)

\* (Mutant: the byte that leaves the window is taken out as it went in.)
buzhashUpdateUnrotated(sum, out, in, length) == Xor(Xor(rotateLeft(sum, 1), Table[out]), Table[in])

buzhashUpdate(sum, out, in, length) == Xor(Xor(rotateLeft(sum, 1), rotateLeft(Table[out], length)), Table[in])

\* A chunk maker: its ring buffer, the chunk it fills and those it has sent.
CreateFileChunkMaker(min, max) ==
    [min |-> min, max |-> max, buffer |-> [i \in 0..(2 * min - 1) |-> 0], start |-> 0, size |-> 0,
     reached |-> FALSE, sum |-> Zero, chunk |-> <<>>, sent |-> <<>>]

Capacity(m) == 2 * m.min
\* The byte at offset i of what is buffered.
At(m, i) == m.buffer[(m.start + i) % Capacity(m)]
Buffered(m) == [i \in 1..m.size |-> At(m, i - 1)]

startNewChunk(m) == [m EXCEPT !.sum = Zero, !.reached = FALSE, !.chunk = <<>>]
sendChunk(m) == [m EXCEPT !.sent = Append(@, m.chunk), !.chunk = <<>>]

\* (Mutant: the start may be just past the end of the buffer.)
fillPastEnd(m, count) ==
    [m EXCEPT !.chunk = @ \o SubSeq(Buffered(m), 1, count),
              !.start = IF m.start + count <= Capacity(m) THEN m.start + count ELSE count - (Capacity(m) - m.start),
              !.size = @ - count]

fill(m, count) ==
    [m EXCEPT !.chunk = @ \o SubSeq(Buffered(m), 1, count),
              !.start = IF m.start + count < Capacity(m) THEN m.start + count ELSE count - (Capacity(m) - m.start),
              !.size = @ - count]

\* (Mutant: a read always goes on to the end of the buffer.)
SpaceToEnd(m) == Capacity(m) - ((m.start + m.size) % Capacity(m))

\* How much one read may bring: up to the end of the buffer, or to the data at its
\* start.
Space(m) ==
    LET start == m.start + m.size
    IN  IF start >= Capacity(m) THEN m.start - (start - Capacity(m)) ELSE Capacity(m) - start

\* The data of one read.
Put(m, data) ==
    LET start == (m.start + m.size) % Capacity(m)
    IN  [m EXCEPT !.size = @ + Len(data),
                  !.buffer = [i \in DOMAIN @ |-> IF i >= start /\ i < start + Len(data) THEN data[i - start + 1] ELSE @[i]]]

\* (Mutant: a chunk may be one byte longer.)
ScanOneMore(m) ==
    LET last == m.max - Len(m.chunk) - m.min
        hash[i \in -1..(m.size - m.min - 1)] ==
            IF i = -1 THEN m.sum ELSE buzhashUpdate(hash[i - 1], At(m, i), At(m, i + m.min), m.min)
        ends == {i \in 0..(m.size - m.min - 1) : EndsChunk(hash[i]) \/ i = last}
    IN  IF ends = {}
        THEN [found |-> FALSE, sum |-> hash[m.size - m.min - 1], bytes |-> m.size - m.min]
        ELSE [found |-> TRUE, sum |-> hash[Min(ends)], bytes |-> Min(ends) + 1 + m.min]

\* Shifting the window byte by byte: hash[i] is the hash when the byte at offset i
\* has left it, and the chunk ends after 'bytes' if it was found to end.
Scan(m) ==
    LET last == m.max - Len(m.chunk) - m.min - 1
        hash[i \in -1..(m.size - m.min - 1)] ==
            IF i = -1 THEN m.sum ELSE buzhashUpdate(hash[i - 1], At(m, i), At(m, i + m.min), m.min)
        ends == {i \in 0..(m.size - m.min - 1) : EndsChunk(hash[i]) \/ i = last}
    IN  IF ends = {}
        THEN [found |-> FALSE, sum |-> hash[m.size - m.min - 1], bytes |-> m.size - m.min]
        ELSE [found |-> TRUE, sum |-> hash[Min(ends)], bytes |-> Min(ends) + 1 + m.min]

\* (Mutant: the end of the file is not looked at.)
TooShortGoesOn(m, eof, flush) ==
    LET all == fill(m, m.size)
    IN  IF flush THEN [more |-> FALSE, maker |-> IF all.chunk = <<>> THEN all ELSE sendChunk(all)]
        ELSE [more |-> TRUE, maker |-> m]

\* Less than a chunk is buffered: it is sent if there is no more to come.
TooShort(m, eof, flush) ==
    LET all == fill(m, m.size)
    IN  IF flush THEN [more |-> FALSE, maker |-> IF all.chunk = <<>> THEN all ELSE sendChunk(all)]
        ELSE [more |-> ~eof, maker |-> m]

\* One round of AddData's loop after reading; 'more' is whether the loop goes on.
\* eof: the end of the file was seen; flush: there is no file.
Round(m, eof, flush) ==
    LET first == buzhashSum(Zero, SubSeq(Buffered(m), 1, m.min))
        hashed == IF m.reached THEN m ELSE [m EXCEPT !.reached = TRUE, !.sum = first]
        scan == Scan(hashed)
        filled == fill([hashed EXCEPT !.sum = scan.sum], scan.bytes)
    IN  CASE m.size < m.min -> TooShort(m, eof, flush)
          [] m.size >= m.min /\ ~m.reached /\ EndsChunk(first) ->
                [more |-> TRUE, maker |-> startNewChunk(sendChunk(fill([m EXCEPT !.sum = first], m.min)))]
          [] OTHER ->
                CASE scan.found -> [more |-> ~eof, maker |-> startNewChunk(sendChunk(filled))]
                  [] ~scan.found /\ flush -> [more |-> FALSE, maker |-> startNewChunk(sendChunk(fill(filled, m.min)))]
                  [] ~scan.found /\ ~flush -> [more |-> ~eof, maker |-> filled]

\* Chunks of one size: every file has its own, and the buffer is used from its start.
FixedSize(m) == m.min = m.max
SendFixed(m) ==
    LET full == [startNewChunk(m) EXCEPT !.chunk = SubSeq(Buffered(m), 1, m.size)]
    IN  [(IF m.size > 0 THEN sendChunk(full) ELSE full) EXCEPT !.size = 0, !.start = 0]

----------------------------------------------------------------------------
\* What has gone into a chunk maker, in order.
Stream(m) == FlattenSeq(m.sent) \o m.chunk \o Buffered(m)

\* The parts of the invariant that are about a chunk maker alone.
Sound(m) ==
    /\ DOMAIN m = {"min", "max", "buffer", "start", "size", "reached", "sum", "chunk", "sent"}
    /\ m.min \in Nat \ {0} /\ m.max \in Nat /\ m.min <= m.max
    /\ m.buffer \in [0..(2 * m.min - 1) -> Nat]
    /\ m.start \in 0..(2 * m.min - 1) /\ m.size \in 0..(2 * m.min)
    /\ m.reached \in BOOLEAN /\ m.chunk \in Seq(Nat) /\ m.sent \in Seq(Seq(Nat))

\* The chunk that is filled can still take the smallest size and one byte more, and
\* there are as many bytes in the buffer as the hash is about.
Fits(m) ==
    /\ ~m.reached => m.chunk = <<>>
    /\ m.reached => Len(m.chunk) + m.min < m.max /\ m.min <= m.size

\* Of chunks of one size nothing is kept but the buffer, from its start.
FitsFixed(m) == m.chunk = <<>> /\ m.start = 0 /\ m.size <= m.min
=============================================================================
