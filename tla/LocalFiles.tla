----------------------------- MODULE LocalFiles -----------------------------
(***************************************************************************)
(* What a backup does with the repository on disk: ListLocalFiles goes     *)
(* through it directory by directory, and the chunk maker splits the files *)
(* that were listed into chunks, in that order, from reads of any length.  *)
(***************************************************************************)
EXTENDS Listing, ChunkMaker

CONSTANTS Inputs,     \* what a repository may be: records of the variables given in Init
          NoBackup    \* the name of the file that keeps a directory from being backed up

\* Bytes are numbers, and the smallest chunk size is not above the largest.
ASSUME InputsAssumption ==
    \A i \in Inputs :
        /\ i.min \in Nat \ {0} /\ i.max \in Nat /\ i.min <= i.max
        /\ \A f \in DOMAIN i.data : i.data[f] \in Seq(Nat)

VARIABLES tree,         \* the paths in the repository
          left,         \* paths left out whatever the patterns say
          patterns,     \* the filters
          data,         \* file -> content; directories have none
          directories,  \* the stack of directories to be listed
          listed,       \* the entries, in the order in which they were sent
          skipped,      \* directories that could not be listed
          pc,           \* "list", "open", "read", "flush", "done" or "failed"
          at,           \* the entry to be packed next
          rest,         \* what has not been read of the file
          eof,          \* the end of the file was seen
          maker,        \* the chunk maker
          turn          \* changes with every round, so that one that does nothing is a step

repository == <<tree, left, patterns, data>>
listing == <<directories, listed, skipped>>
vars == <<repository, listing, pc, at, rest, eof, maker, turn>>

Init ==
    /\ \E i \in Inputs :
          /\ tree = i.tree /\ left = i.left /\ patterns = i.patterns /\ data = i.data
          /\ maker = CreateFileChunkMaker(i.min, i.max)
    /\ directories = <<<<>>>> /\ listed = <<>> /\ skipped = {}
    /\ pc = "list" /\ at = 1 /\ rest = <<>> /\ eof = FALSE /\ turn = FALSE

----------------------------------------------------------------------------
\* The first of them is to be listed next.
Push(stack, subdirs) == stack \o Reverse(subdirs)

ListDirectory ==
    /\ pc = "list" /\ directories # <<>>
    /\ LET entries == ListDir(tree, left, patterns, NoBackup, Last(directories))
       IN  /\ listed' = listed \o entries.files \o entries.subdirs
           /\ directories' = Push(Front(directories), entries.subdirs)
    /\ UNCHANGED <<repository, skipped, pc, at, rest, eof, maker, turn>>

\* A directory that cannot be read is skipped, unless it is the root.
ListFails ==
    /\ pc = "list" /\ directories # <<>>
    /\ IF Last(directories) = <<>>
       THEN pc' = "failed" /\ UNCHANGED <<directories, skipped>>
       ELSE directories' = Front(directories) /\ skipped' = skipped \cup {Last(directories)} /\ UNCHANGED pc
    /\ UNCHANGED <<repository, listed, at, rest, eof, maker, turn>>

CloseListing ==
    /\ pc = "list" /\ directories = <<>>
    /\ pc' = "open"
    /\ UNCHANGED <<repository, listing, at, rest, eof, maker, turn>>

----------------------------------------------------------------------------
\* The next entry with data, or the flush: of chunks of one size nothing is left over.
OpenNext ==
    /\ pc = "open"
    /\ IF at > Len(listed)
       THEN pc' = (IF FixedSize(maker) THEN "done" ELSE "flush") /\ UNCHANGED <<at, rest, eof>>
       ELSE /\ at' = at + 1
            /\ IF listed[at] \notin DOMAIN data THEN UNCHANGED <<pc, rest, eof>>
               ELSE pc' = "read" /\ rest' = data[listed[at]] /\ eof' = FALSE
    /\ UNCHANGED <<repository, listing, maker, turn>>

Full == maker.size = (IF FixedSize(maker) THEN maker.min ELSE Capacity(maker))

Read(count) ==
    /\ pc = "read" /\ ~eof /\ ~Full
    /\ count <= (IF FixedSize(maker) THEN maker.min - maker.size ELSE Space(maker))
    /\ maker' = Put(maker, SubSeq(rest, 1, count)) /\ rest' = SubSeq(rest, count + 1, Len(rest))
    /\ UNCHANGED <<repository, listing, pc, at, eof, turn>>

SeeEOF ==
    /\ pc = "read" /\ ~eof /\ ~Full /\ rest = <<>>
    /\ eof' = TRUE
    /\ UNCHANGED <<repository, listing, pc, at, rest, maker, turn>>

AddRound ==
    /\ pc = "read" /\ ~FixedSize(maker) /\ (eof \/ Full)
    /\ LET round == Round(maker, eof, FALSE)
       IN  maker' = round.maker /\ pc' = IF round.more THEN "read" ELSE "open"
    /\ turn' = ~turn
    /\ UNCHANGED <<repository, listing, at, rest, eof>>

AddFixed ==
    /\ pc = "read" /\ FixedSize(maker) /\ (eof \/ Full)
    /\ maker' = SendFixed(maker) /\ pc' = IF eof THEN "open" ELSE "read"
    /\ turn' = ~turn
    /\ UNCHANGED <<repository, listing, at, rest, eof>>

FlushRound ==
    /\ pc = "flush"
    /\ LET round == Round(maker, FALSE, TRUE)
       IN  maker' = round.maker /\ pc' = IF round.more THEN "flush" ELSE "done"
    /\ turn' = ~turn
    /\ UNCHANGED <<repository, listing, at, rest, eof>>

Finished == pc \in {"done", "failed"} /\ UNCHANGED vars

Next ==
    \/ ListDirectory \/ ListFails \/ CloseListing \/ OpenNext
    \/ \E count \in 1..Len(rest) : Read(count)
    \/ SeeEOF \/ AddRound \/ AddFixed \/ FlushRound \/ Finished

\* A backup that is not stopped goes on.  This is weak fairness of Next: until the
\* end some step can be taken (there is no deadlock), and every one changes a variable.
Fairness == []<>(pc \in {"done", "failed"}) \/ []<><<Next>>_vars

Spec == Init /\ [][Next]_vars /\ Fairness

----------------------------------------------------------------------------
TypeOK ==
    /\ pc \in {"list", "open", "read", "flush", "done", "failed"}
    /\ at \in 1..(Len(listed) + 1) /\ eof \in BOOLEAN
    /\ maker.start \in 0..(Capacity(maker) - 1) /\ maker.size \in 0..Capacity(maker)
    /\ Len(maker.chunk) <= maker.max

\* The entries come in the order in which the backup compares them with an earlier
\* listing (ComparePaths), which is not how the directories are sorted.
ListedInOrder ==
    \A i, j \in DOMAIN listed : i < j => ComparePaths(listed[i], listed[j]) < 0 /\ ComparePaths(listed[j], listed[i]) > 0

Above(p) == {<<>>} \cup {SubSeq(p, 1, n) : n \in {k \in 1..(Len(p) - 1) : p[k] = Slash}}

\* By the meaning of the patterns.
IsIncluded(f) ==
    LET name == IF IsDir(f) THEN Front(f) ELSE f
        hits == {i \in DOMAIN patterns : Matches(name, patterns[i].text)}
    IN  IF patterns = <<>> THEN TRUE
        ELSE IF hits # {} THEN patterns[Min(hits)].include ELSE \E i \in DOMAIN patterns : ~patterns[i].include

\* At the end every path is there that is included, as are the directories above it,
\* if these could be listed and are to be backed up; and no other.
ListedWhole ==
    pc = "open" /\ at = 1 =>
        ToSet(listed) = {f \in tree \ left :
            /\ IsIncluded(f)
            /\ \A d \in Above(f) :
                  d \notin skipped /\ d \o NoBackup \notin tree /\ (d = <<>> \/ (d \notin left /\ IsIncluded(d)))}

Bytes(f) == IF f \in DOMAIN data THEN data[f] ELSE <<>>

\* What the first n entries contain.
Contents(n) == FlattenSeq([i \in 1..n |-> Bytes(listed[i])])

\* Nothing is lost or mixed up on its way through the ring buffer: what was sent, is
\* in the chunk, in the buffer and not read yet are the files opened so far.
StreamKept ==
    Stream(maker) \o rest = Contents(at - 1)

\* At the end no entry is left, and the chunks put together are what the files contain.
AllPacked == pc = "done" => at > Len(listed) /\ FlattenSeq(maker.sent) = Contents(at - 1)

\* No chunk is empty or larger than the largest size; and none is smaller than the
\* smallest, but for the last one of the backup or, of one size, of a file.
ChunkSizes ==
    \A i \in DOMAIN maker.sent :
        LET n == Len(maker.sent[i])
        IN  /\ n \in 1..maker.max
            /\ n < maker.min => FixedSize(maker) \/ (pc = "done" /\ i = Len(maker.sent))

\* Where a chunk of a stream ends: where the hash of the bytes before says so, or at
\* the largest size.  split[i] are the chunks after the first i bytes.
Split(s) ==
    LET split[i \in 0..Len(s)] ==
            LET ends == {n \in (i + maker.min)..Len(s) :
                           n = i + maker.max \/ EndsChunk(buzhashSum(Zero, SubSeq(s, n - maker.min + 1, n)))}
                n == IF ends = {} THEN Len(s) ELSE Min(ends)
            IN  IF i = Len(s) THEN <<>> ELSE <<SubSeq(s, i + 1, n)>> \o split[n]
    IN  split[0]

\* Pieces of one size.
Pieces(s) == [i \in 1..((Len(s) + maker.min - 1) \div maker.min) |-> SubSeq(s, (i - 1) * maker.min + 1, Min({i * maker.min, Len(s)}))]

\* The chunks depend on the data alone: not on how many bytes a read brings, nor,
\* unless they have one size, on where one file ends and the next begins.
SameChunks ==
    pc = "done" =>
        maker.sent = IF FixedSize(maker) THEN FlattenSeq([i \in DOMAIN listed |-> Pieces(Bytes(listed[i]))]) ELSE Split(Contents(Len(listed)))

\* The inductive invariant of the packing: where the program is, and the chunk maker.
PackingInv ==
    /\ at \in Nat \ {0} /\ eof \in BOOLEAN /\ rest \in Seq(Nat)
    /\ \A f \in DOMAIN data : data[f] \in Seq(Nat)
    /\ pc = "list" => at = 1
    /\ pc # "read" \/ eof => rest = <<>>
    /\ pc = "flush" => ~FixedSize(maker)
    /\ pc \in {"flush", "done"} => at > Len(listed)
    /\ Sound(maker) /\ (IF FixedSize(maker) THEN FitsFixed(maker) ELSE Fits(maker))
    /\ pc = "done" \/ (FixedSize(maker) /\ pc # "read") => maker.size = 0 /\ maker.chunk = <<>>

\* Listing and packing come to an end.
PackingEnds == <>(pc \in {"done", "failed"})
=============================================================================
