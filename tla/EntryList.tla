------------------------------ MODULE EntryList -----------------------------
(***************************************************************************)
(* The list of entries a backup builds (duplicacy_entrylist.go) and what   *)
(* is done with it: the local listing with its hard links, the merge with  *)
(* the listing of an earlier backup, filling in where the new data is, and *)
(* the encoding in the snapshot.                                           *)
(*                                                                         *)
(* A chunk is its content, a sequence of bytes, and stands for its hash;   *)
(* so does the content of a file.  Paths are numbers in the order of the   *)
(* listing.  Indices of chunks start at 0, as in the code.                 *)
(***************************************************************************)
EXTENDS Integers, Sequences, FiniteSets, SequencesExt, FiniteSetsExt

NoHash == <<0>>     \* no byte is 0
NotLinked == -2     \* Link = ""
Root == -1          \* Link = "/"; a child has the index of its root

\* A file as the listing finds it; a size of -1 means it is to be packed.
CreateEntry(path, size, time, link) ==
    [path |-> path, size |-> size, time |-> time, link |-> link, hash |-> NoHash,
     startChunk |-> 0, startOffset |-> 0, endChunk |-> 0, endOffset |-> 0]

IsComplete(e) == e.size >= 0

IsSameAs(e, other) == e.size = other.size /\ e.time <= other.time + 1 /\ e.time >= other.time - 1

\* The path in the k-th place of the listing.
Nth(paths, k) == CHOOSE p \in paths : Cardinality({q \in paths : q <= p}) = k

\* ListDir, hard links: the first path of a file with more than one link becomes a root and
\* gets the next index, the others refer to it by this index.
ListHardLink(st, p, i, size, time, nlink) ==
    LET seen == {r \in DOMAIN st.roots : st.roots[r] = i}
    IN  CASE nlink <= 1 -> [st EXCEPT !.out = Append(@, CreateEntry(p, size, time, NotLinked))]
          [] nlink > 1 /\ seen = {} ->
                [out |-> Append(st.out, CreateEntry(p, size, time, Root)), roots |-> Append(st.roots, i)]
          [] OTHER -> [st EXCEPT !.out = Append(@, CreateEntry(p, 0, time, Min(seen) - 1))]

\* What is listed, and the roots, after each path.
ListingStates(paths, inode, data, time, nlink) ==
    LET st[n \in 0..Cardinality(paths)] ==
            IF n = 0 THEN [out |-> <<>>, roots |-> <<>>]
            ELSE LET p == Nth(paths, n)
                     i == inode[p]
                 IN  ListHardLink(st[n - 1], p, i, Len(data[i]), time[i], nlink[i])
    IN  st

ListHardLinks(paths, inode, data, time, nlink) ==
    ListingStates(paths, inode, data, time, nlink)[Cardinality(paths)].out

----------------------------------------------------------------------------
(* The list: its entries, the files to be packed with what is known of     *)
(* them so far, the chunks kept from the earlier backup, the new chunks.   *)

CreateEntryList(token) ==
    [token |-> token, entries |-> <<>>, modified |-> <<>>, preserved |-> <<>>, uploaded |-> <<>>]

\* The chunks by index; an empty one has not been uploaded.
Chunks(list) == list.preserved \o list.uploaded

AddEntry(list, e) ==
    [list EXCEPT !.entries = Append(@, e),
                 !.modified = IF IsComplete(e) THEN @ ELSE Append(@, [path |-> e.path, size |-> -1, hash |-> NoHash])]

AddPreservedChunks(list, chunks) == [list EXCEPT !.preserved = @ \o chunks]

\* (Mutant: one chunk too many is put in before the one that is reported.)
AddUploadedChunkShifted(list, index, chunk) ==
    [list EXCEPT !.uploaded =
        [i \in 1..Max({Len(@), index + 2}) |->
            IF i = index + 2 THEN chunk ELSE IF i <= Len(@) THEN @[i] ELSE <<>>]]

\* Chunks are reported in any order; the ones before that are missing are empty.
AddUploadedChunk(list, index, chunk) ==
    [list EXCEPT !.uploaded =
        [i \in 1..Max({Len(@), index + 1}) |->
            IF i = index + 1 THEN chunk ELSE IF i <= Len(@) THEN @[i] ELSE <<>>]]

\* How many bytes the chunks from index i to index j have.
Length(chunks, i, j) == Len(FlattenSeq(SubSeq(chunks, i + 1, j + 1)))

\* The content an entry refers to.
Content(chunks, e) ==
    IF e.size <= 0 THEN <<>>
    ELSE SubSeq(FlattenSeq(SubSeq(chunks, e.startChunk + 1, e.endChunk + 1)), e.startOffset + 1, e.startOffset + e.size)

\* The sanity check on the way into a snapshot, and out of it (Entry.check).
checkEntry(chunks, e) ==
    /\ e.size >= 0
    /\ e.size > 0 =>
          /\ 0 <= e.startChunk /\ e.startChunk <= e.endChunk /\ e.endChunk < Len(chunks)
          /\ e.startOffset < Length(chunks, e.startChunk, e.startChunk)
          /\ e.endOffset <= Length(chunks, e.endChunk, e.endChunk)
          /\ e.size = Length(chunks, e.startChunk, e.endChunk - 1) - e.startOffset + e.endOffset

\* An entry that does not pass ends the reading with an error.
Send(list, st, e) == IF checkEntry(Chunks(list), e) THEN [st EXCEPT !.out = Append(@, e)] ELSE [st EXCEPT !.error = TRUE]

\* (Mutant: a file that ends where a chunk ends leaves the next one there.)
AfterEntryFullChunk(up, k, endOffset) == [chunk |-> k, offset |-> IF endOffset = Len(up[k + 1]) THEN 0 ELSE endOffset]

\* Where the next file starts after one that ends in chunk k.
AfterEntry(up, k, endOffset) ==
    IF endOffset = Len(up[k + 1]) THEN [chunk |-> k + 1, offset |-> 0] ELSE [chunk |-> k, offset |-> endOffset]

\* A file that was packed is where the new chunks are, after the file before it.
\* st: the next modified file, the chunk and the offset it starts at.
fillEntry(list, st, e) ==
    LET m == list.modified[st.next]
        end == st.offset + m.size
        up == list.uploaded
        holds == {k \in st.chunk..(Len(up) - 1) : end <= Length(up, st.chunk, k)}
        k == IF holds = {} THEN Len(up) ELSE Min(holds)
        endOffset == end - Length(up, st.chunk, k - 1)
        filled == [e EXCEPT !.size = m.size, !.hash = m.hash,
                            !.startChunk = st.chunk + Len(list.preserved), !.startOffset = st.offset,
                            !.endChunk = k + Len(list.preserved), !.endOffset = endOffset]
        after == AfterEntry(up, k, endOffset)
    IN  IF holds = {} THEN [st EXCEPT !.error = TRUE]
        ELSE Send(list, [st EXCEPT !.next = @ + 1, !.chunk = after.chunk, !.offset = after.offset], filled)

fillAndSendEntry(list, st, e) ==
    CASE st.error -> st
      [] ~st.error /\ IsComplete(e) -> Send(list, st, e)
      [] ~st.error /\ ~IsComplete(e) ->
            IF st.next > Len(list.modified) THEN [st EXCEPT !.error = TRUE]
            ELSE IF list.modified[st.next].path # e.path THEN [st EXCEPT !.next = @ + 1, !.error = TRUE]
            ELSE IF list.modified[st.next].size <= 0 THEN [st EXCEPT !.next = @ + 1]
            ELSE fillEntry(list, st, e)

\* The states of the reading after each entry.
ReadStates(list) ==
    LET st[n \in 0..Len(list.entries)] ==
            IF n = 0 THEN [next |-> 1, chunk |-> 0, offset |-> 0, out |-> <<>>, error |-> FALSE]
            ELSE fillAndSendEntry(list, st[n - 1], list.entries[n])
    IN  st

\* The entries that are sent, up to the first error.
ReadEntries(list) == ReadStates(list)[Len(list.entries)]

----------------------------------------------------------------------------
(* The merge of the local listing with that of an earlier backup, whose    *)
(* chunks are given.                                                       *)

\* (Mutant: the index is not adjusted when a chunk is shared with the last file.)
DeltaSharing(r, list, shared) == r.startChunk - Len(list.preserved)

\* How far the indices of a file move; shared: it begins in the last chunk.
Delta(r, list, shared) == r.startChunk - Len(list.preserved) + (IF shared THEN 1 ELSE 0)

\* st: the list so far, the next remote entry, the last chunk taken over.
MergeEntry(remote, chunks, st, local) ==
    LET rest == {i \in st.at..Len(remote) : remote[i].path >= local.path}
        at == IF rest = {} THEN Len(remote) + 1 ELSE Min(rest)
        found == rest # {} /\ remote[at].path = local.path
        r == remote[at]
        shared == st.last = r.startChunk
        added == SubSeq(chunks, r.startChunk + (IF shared THEN 2 ELSE 1), r.endChunk + 1)
        delta == Delta(r, st.list, shared)
        kept == [local EXCEPT !.hash = r.hash, !.startOffset = r.startOffset, !.endOffset = r.endOffset,
                              !.startChunk = r.startChunk - delta, !.endChunk = r.endChunk - delta]
        next == IF found THEN at + 1 ELSE at
    IN  CASE found /\ IsSameAs(local, r) /\ local.size > 0 ->
                [list |-> AddEntry(AddPreservedChunks(st.list, added), kept), at |-> next, last |-> r.endChunk]
          [] local.size = 0 -> [st EXCEPT !.list = AddEntry(@, local), !.at = next]
          [] OTHER          -> [st EXCEPT !.list = AddEntry(@, [local EXCEPT !.size = -1]), !.at = next]

MergeStates(token, listing, remote, chunks) ==
    LET st[n \in 0..Len(listing)] ==
            IF n = 0 THEN [list |-> CreateEntryList(token), at |-> 1, last |-> -1]
            ELSE MergeEntry(remote, chunks, st[n - 1], listing[n])
    IN  st

Merge(token, listing, remote, chunks) == MergeStates(token, listing, remote, chunks)[Len(listing)].list

----------------------------------------------------------------------------
(* The entries in a snapshot: chunks that no entry uses are dropped, the    *)
(* indices counted from the chunk where the last file ended, and a hard    *)
(* link repeats the entry of its root.                                     *)

\* Where the next file is counted from after a hard link.
EndAfterLink(st, root) == IF root.entry.size > 0 THEN root.start + root.entry.endChunk ELSE st.end

\* st: the chunks used so far, the last one by its old index, where the last
\* file ended, the roots so far.
uploadEntryInfo(chunks, st, e) ==
    LET shared == e.startChunk = st.last
        used == SubSeq(chunks, e.startChunk + (IF shared THEN 2 ELSE 1), e.endChunk + 1)
        start == Len(st.chunks) - (IF shared THEN 1 ELSE 0)
        end == start + e.endChunk - e.startChunk
        coded == [e EXCEPT !.startChunk = start - st.end, !.endChunk = end - start]
        linked(root) ==
            [root.entry EXCEPT !.path = e.path, !.link = e.link,
                               !.startChunk = IF root.entry.size > 0 THEN root.start - st.end ELSE 0,
                               !.endChunk = IF root.entry.size > 0 THEN @ ELSE 0]
    IN  CASE st.panic -> st
          [] ~st.panic /\ e.size > 0 ->
                [st EXCEPT !.chunks = @ \o used, !.last = e.endChunk, !.end = end, !.out = Append(@, coded),
                           !.roots = IF e.link = Root THEN Append(@, [entry |-> coded, start |-> start]) ELSE @]
          [] ~st.panic /\ e.size <= 0 /\ e.link >= 0 ->
                IF e.link >= Len(st.roots) THEN [st EXCEPT !.panic = TRUE]
                ELSE LET root == st.roots[e.link + 1]
                     IN  [st EXCEPT !.out = Append(@, linked(root)),
                                    !.end = EndAfterLink(st, root)]
          [] OTHER ->
                [st EXCEPT !.out = Append(@, e),
                           !.roots = IF e.link = Root THEN Append(@, [entry |-> e, start |-> 0]) ELSE @]

EncodeStates(chunks, sent) ==
    LET st[n \in 0..Len(sent)] ==
            IF n = 0 THEN [chunks |-> <<>>, last |-> -1, end |-> 0, out |-> <<>>, roots |-> <<>>, panic |-> FALSE]
            ELSE uploadEntryInfo(chunks, st[n - 1], sent[n])
    IN  st

\* What UploadSnapshot makes of a list.
EncodeEntries(list) ==
    LET sent == ReadEntries(list).out
    IN  EncodeStates(Chunks(list), sent)[Len(sent)]

\* An entry of a snapshot is counted from the chunk where the one before it ends.
DecodeEntry(st, e) ==
    LET start == e.startChunk + st.end
        end == e.endChunk + start
    IN  [end |-> end, out |-> Append(st.out, [e EXCEPT !.startChunk = start, !.endChunk = end])]

DecodeStates(coded) ==
    LET st[n \in 0..Len(coded)] ==
            IF n = 0 THEN [end |-> 0, out |-> <<>>] ELSE DecodeEntry(st[n - 1], coded[n])
    IN  st

\* What ListRemoteFiles reads from a snapshot.
ListRemoteFiles(coded) == DecodeStates(coded)[Len(coded)].out
=============================================================================
