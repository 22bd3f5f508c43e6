------------------------------- MODULE Backup -------------------------------
(***************************************************************************)
(* Backups of one repository, one after the other (Backup in               *)
(* duplicacy_backupmanager.go): listing and merging, packing files into    *)
(* chunks, workers that upload them, the snapshot; errors, after which an  *)
(* incomplete snapshot is saved while the other goroutines go on; and the  *)
(* next backup, which resumes from it.  Files change at any time, also     *)
(* between being listed and being packed.                                  *)
(*                                                                         *)
(* The rolling hash is abstracted to a set of bytes that end a chunk; the  *)
(* chunks that hold the metadata are part of the snapshot.                 *)
(***************************************************************************)
EXTENDS EntryList, FiniteSets

CONSTANTS Inode,        \* path -> the file at that path, if it exists
          Outside,      \* the files that have another link outside the repository
          Contents,     \* what files may contain
          FirstData,    \* what they contain at first: a set of functions from files to contents
          CutBytes,     \* the bytes after which a chunk ends
          MaxChunkSize, \* the size at which it ends in any case
          Threads,      \* how many uploads are under way or queued
          FastListing,  \* whether the storage lists quickly
          KeepAlive,    \* whether half an hour may pass without an upload
          InMemory,     \* whether the entries fit in memory (else they are on disk)
          RootsMayFail, \* whether a hard link root may be gone, or empty, when it is packed
          MaxRuns,      \* a bound on the number of backups
          MaxChanges    \* a bound on the changes of files

VARIABLES present,    \* the paths that exist
          data,       \* file -> content
          time,       \* file -> modification time
          changes,    \* how many changes there were
          stored,     \* the chunks in the storage
          snapshot,   \* the latest snapshot; its revision is 0 if there is none
          incFiles,   \* the file incomplete_snapshot
          incChunks,  \* the file incomplete_chunks
          runs,       \* how many backups were started
          pc,         \* what the backup's main goroutine does
          list,       \* localEntryList
          cache,      \* chunkCache
          buffer,     \* data read and not in a chunk yet
          at,         \* the modified file to be packed next
          read,       \* the content of the file being packed
          chunkIndex, \* the index of the last chunk
          uploads,    \* the uploads under way
          hashMode,   \* whether an incomplete snapshot is to be saved
          saving,     \* how far saving is, and the checksum
          pruned,     \* history: the chunks that prune took away and that were not uploaded again
          unasked     \* history: those of them that a backup took over without looking for them

files == <<present, data, time, changes>>
process == <<pc, list, cache, buffer, at, read, chunkIndex, uploads, hashMode, saving>>
history == <<pruned, unasked>>
vars == <<files, stored, snapshot, incFiles, incChunks, runs, process, history>>

Paths == DOMAIN Inode
Inodes == {Inode[p] : p \in Paths}

\* There are finitely many paths, numbered; no byte is 0.
ASSUME BackupAssumption ==
    /\ Paths \in SUBSET Nat /\ IsFiniteSet(Paths) /\ Contents \subseteq Seq(Nat \ {0})
    /\ FirstData \subseteq [Inodes -> Contents]
    /\ MaxChunkSize \in Nat \ {0} /\ Threads \in Nat /\ MaxRuns \in Nat /\ MaxChanges \in Nat
    /\ {FastListing, KeepAlive, InMemory, RootsMayFail} \subseteq BOOLEAN

Modified == list.modified

Links == [i \in Inodes |-> Cardinality({p \in present : Inode[p] = i}) + (IF i \in Outside THEN 1 ELSE 0)]

NoSnapshot == [revision |-> 0, entries |-> <<>>, chunks |-> <<>>]
NoFiles == [token |-> 0, entries |-> <<>>]
NoChunks == [token |-> 0, modified |-> <<>>, preserved |-> <<>>, uploaded |-> <<>>, valid |-> FALSE]
NotSaving == [step |-> "no", sum |-> <<>>]

NoProcess ==
    /\ pc = "idle" /\ list = CreateEntryList(0) /\ cache = {} /\ buffer = <<>> /\ at = 1 /\ read = <<>>
    /\ chunkIndex = -1 /\ uploads = {} /\ hashMode = FALSE /\ saving = NotSaving

Init ==
    /\ present = Paths /\ data \in FirstData /\ time = [i \in Inodes |-> 0] /\ changes = 0
    /\ stored = {} /\ snapshot = NoSnapshot /\ incFiles = NoFiles /\ incChunks = NoChunks /\ runs = 0
    /\ pruned = {} /\ unasked = {}
    /\ NoProcess

----------------------------------------------------------------------------
(* The user's files.  A change is seen by its time: a file that changes    *)
(* twice within a second, to the same size, is out of sight of any backup. *)

IsRootPath(p) == \E k \in DOMAIN list.entries : list.entries[k].path = p /\ list.entries[k].link = Root

ChangeFile(i, content) ==
    /\ changes < MaxChanges /\ content # data[i]
    /\ content = <<>> /\ pc # "idle" /\ (\E p \in Paths : Inode[p] = i /\ IsRootPath(p)) => RootsMayFail
    /\ data' = [data EXCEPT ![i] = content] /\ time' = [time EXCEPT ![i] = 2 * (changes + 1)]
    /\ changes' = changes + 1
    /\ UNCHANGED <<present, stored, snapshot, incFiles, incChunks, runs, process, history>>

RemovePath(p) ==
    /\ changes < MaxChanges /\ p \in present
    /\ pc # "idle" /\ IsRootPath(p) => RootsMayFail
    /\ present' = present \ {p} /\ changes' = changes + 1
    /\ UNCHANGED <<data, time, stored, snapshot, incFiles, incChunks, runs, process, history>>

----------------------------------------------------------------------------
(* Starting                                                                *)

\* (Mutant: only the missing chunks are dropped.)
TruncatedHoles(uploaded) == SelectSeq(uploaded, LAMBDA c : c # <<>>)

\* (Mutant: nothing is dropped.)
TruncatedNot(uploaded) == uploaded

\* An empty hash means that a chunk was not uploaded; the ones after it are
\* of no use then.
Truncated(uploaded) ==
    LET holes == {i \in DOMAIN uploaded : uploaded[i] = <<>>}
    IN  IF holes = {} THEN uploaded ELSE SubSeq(uploaded, 1, Min(holes) - 1)

HasIncomplete == incFiles.token > 0 /\ incChunks.token = incFiles.token /\ incChunks.valid

loadIncompleteSnapshot ==
    [token |-> incFiles.token, entries |-> incFiles.entries, modified |-> incChunks.modified,
     preserved |-> incChunks.preserved, uploaded |-> Truncated(incChunks.uploaded)]

CheckChunks(inc) == \A i \in DOMAIN Chunks(inc) : Chunks(inc)[i] \in stored

ListsChunks == FastListing /\ snapshot.revision = 0

\* (Mutant: the listed chunks are not looked at.)
ResumesUnchecked(hash) == hash /\ HasIncomplete

\* The incomplete snapshot is only used in hash mode and, if all chunks were
\* listed, if its chunks are still there.  If they were not listed nobody looks.
Resumes(hash) == hash /\ HasIncomplete /\ (ListsChunks => CheckChunks(loadIncompleteSnapshot))

StartBackup(quick) ==
    LET hash == snapshot.revision = 0 \/ ~quick
        inc == loadIncompleteSnapshot
        remote == IF Resumes(hash) THEN ReadEntries(inc).out
                  ELSE IF hash THEN <<>> ELSE ListRemoteFiles(snapshot.entries)
        chunks == IF Resumes(hash) THEN Chunks(inc) ELSE snapshot.chunks
        listing == ListHardLinks(present, Inode, data, time, Links)
    IN  /\ pc = "idle" /\ runs < MaxRuns /\ present # {}
        /\ pc' = "pack" /\ runs' = runs + 1
        /\ list' = Merge(runs + 1, listing, remote, chunks)
        /\ cache' = Range(snapshot.chunks) \cup (IF ListsChunks THEN stored ELSE {})
        /\ hashMode' = hash
        /\ buffer' = <<>> /\ at' = 1 /\ read' = <<>> /\ chunkIndex' = -1 /\ uploads' = {} /\ saving' = NotSaving
        /\ unasked' = unasked \cup (IF Resumes(hash) /\ ~ListsChunks THEN Range(chunks) \ stored ELSE {})
        /\ UNCHANGED <<files, stored, snapshot, incFiles, incChunks, pruned>>

----------------------------------------------------------------------------
(* Packing                                                                 *)

Vanished(p) == p \notin present

OpenFile ==
    /\ pc = "pack" /\ at <= Len(Modified)
    /\ LET p == Modified[at].path
       IN  IF Vanished(p)
           THEN at' = at + 1 /\ UNCHANGED <<pc, buffer, read>>
           ELSE pc' = "read" /\ read' = data[Inode[p]] /\ buffer' = buffer \o data[Inode[p]] /\ UNCHANGED at
    /\ UNCHANGED <<files, stored, snapshot, incFiles, incChunks, runs, list, cache, chunkIndex, uploads, hashMode, saving, history>>

\* The chunk maker sends a chunk as soon as it is complete.
Cuts(b) == {n \in 1..Len(b) : n = MaxChunkSize \/ b[n] \in CutBytes}

\* uploadChunkFunc: a chunk in the cache is reported at once, even if its first
\* upload is still under way; the others go to the workers, and so does a chunk in
\* the cache after half an hour without an upload.
SendChunk(n) ==
    LET chunk == SubSeq(buffer, 1, n)
        index == chunkIndex + 1
    IN  /\ chunkIndex' = index /\ buffer' = SubSeq(buffer, n + 1, Len(buffer))
        /\ \/ chunk \in cache /\ saving.step = "no"
              /\ list' = AddUploadedChunk(list, index, chunk) /\ UNCHANGED <<cache, uploads>>
           \/ /\ chunk \notin cache \/ KeepAlive
              /\ Cardinality(uploads) < Threads
                /\ uploads' = uploads \cup {[index |-> index, chunk |-> chunk]}
                /\ cache' = cache \cup {chunk} /\ UNCHANGED list
        /\ UNCHANGED <<files, stored, snapshot, incFiles, incChunks, runs, pc, at, read, hashMode, saving, history>>

CutChunk == pc = "read" /\ Cuts(buffer) # {} /\ SendChunk(Min(Cuts(buffer)))

\* At the end of a file more than a chunk may be left in the buffer.  Size and hash
\* of the file are assigned one after the other, and nothing keeps a save from
\* coming in between.
SetSize ==
    /\ pc = "read"
    /\ pc' = "hash" /\ list' = [list EXCEPT !.modified[at].size = Len(read)]
    /\ UNCHANGED <<files, stored, snapshot, incFiles, incChunks, runs, cache, buffer, at, read, chunkIndex, uploads, hashMode, saving, history>>

SetHash ==
    /\ pc = "hash"
    /\ pc' = "pack" /\ list' = [list EXCEPT !.modified[at].hash = read] /\ at' = at + 1 /\ read' = <<>>
    /\ UNCHANGED <<files, stored, snapshot, incFiles, incChunks, runs, cache, buffer, chunkIndex, uploads, hashMode, saving, history>>

FlushChunk ==
    /\ pc = "pack" /\ at > Len(Modified) /\ buffer # <<>>
    /\ SendChunk(IF Cuts(buffer) = {} THEN Len(buffer) ELSE Min(Cuts(buffer)))

----------------------------------------------------------------------------
(* The workers                                                             *)

Store(chunks) == stored' = stored \cup chunks /\ pruned' = pruned \ chunks /\ unasked' = unasked \ chunks

\* UploadChunk and uploadChunkCompletionFunc, which waits for uploadedChunkLock.
UploadChunk(u) ==
    /\ u \in uploads /\ saving.step = "no"
    /\ Store({u.chunk}) /\ uploads' = uploads \ {u}
    /\ list' = AddUploadedChunk(list, u.index, u.chunk)
    /\ UNCHANGED <<files, snapshot, incFiles, incChunks, runs, pc, cache, buffer, at, read, chunkIndex, hashMode, saving>>

Exit ==
    /\ pc' = "idle" /\ list' = CreateEntryList(0) /\ cache' = {} /\ buffer' = <<>> /\ at' = 1 /\ read' = <<>>
    /\ chunkIndex' = -1 /\ uploads' = {} /\ hashMode' = FALSE /\ saving' = NotSaving

\* RunAtError, once.
RunAtError(then) ==
    IF hashMode
    THEN saving' = [NotSaving EXCEPT !.step = "files"] /\ pc' = then
         /\ UNCHANGED <<list, cache, buffer, at, read, chunkIndex, uploads, hashMode>>
    ELSE Exit

\* A worker fails, perhaps after the chunk arrived, and the others go on.
UploadFails(u) ==
    /\ u \in uploads /\ saving.step = "no"
    /\ Store({}) \/ Store({u.chunk})
    /\ RunAtError(pc)
    /\ UNCHANGED <<files, snapshot, incFiles, incChunks, runs>>

\* The main goroutine fails, reading a file.
ReadFails ==
    /\ pc = "read" /\ saving.step = "no"
    /\ RunAtError("failed")
    /\ UNCHANGED <<files, stored, snapshot, incFiles, incChunks, runs, history>>

----------------------------------------------------------------------------
(* SaveIncompleteSnapshot, in three steps that a crash may separate and    *)
(* between which the main goroutine goes on packing.                       *)

\* Entries in memory are written by createOnDiskFile, and then once more.
SaveFiles ==
    /\ saving.step = "files"
    /\ incFiles' = [token |-> list.token, entries |-> IF InMemory THEN list.entries \o list.entries ELSE list.entries]
    /\ saving' = [saving EXCEPT !.step = "sum"]
    /\ UNCHANGED <<files, stored, snapshot, incChunks, runs, pc, list, cache, buffer, at, read, chunkIndex, uploads, hashMode, history>>

CalculateChecksum ==
    /\ saving.step = "sum"
    /\ saving' = [step |-> "chunks", sum |-> Modified]
    /\ UNCHANGED <<files, stored, snapshot, incFiles, incChunks, runs, pc, list, cache, buffer, at, read, chunkIndex, uploads, hashMode, history>>

SaveChunks ==
    /\ saving.step = "chunks"
    /\ incChunks' = [token |-> list.token, modified |-> Modified, preserved |-> list.preserved,
                     uploaded |-> list.uploaded, valid |-> saving.sum = Modified]
    /\ Exit
    /\ UNCHANGED <<files, stored, snapshot, incFiles, runs, history>>

Kill ==
    /\ pc # "idle" /\ Exit
    /\ UNCHANGED <<files, stored, snapshot, incFiles, incChunks, runs, history>>

----------------------------------------------------------------------------
(* The snapshot                                                            *)

Packed == pc = "pack" /\ at > Len(Modified) /\ buffer = <<>> /\ uploads = {} /\ saving.step = "no"

\* WaitForCompletion is over: UploadSnapshot.
UploadSnapshot ==
    LET coded == EncodeEntries(list)
    IN  /\ Packed /\ ~ReadEntries(list).error /\ ~coded.panic
        /\ snapshot' = [revision |-> snapshot.revision + 1, entries |-> coded.out, chunks |-> coded.chunks]
        /\ pc' = "delete"
        /\ UNCHANGED <<files, stored, incFiles, incChunks, runs, list, cache, buffer, at, read, chunkIndex, uploads, hashMode, saving, history>>

SnapshotFails ==
    /\ Packed /\ RunAtError("failed")
    /\ UNCHANGED <<files, stored, snapshot, incFiles, incChunks, runs, history>>

deleteIncompleteSnapshot ==
    /\ pc = "delete"
    /\ incFiles' = NoFiles /\ incChunks' = NoChunks /\ Exit
    /\ UNCHANGED <<files, stored, snapshot, runs, history>>

\* Between two backups an exhaustive and exclusive prune takes away what the
\* latest snapshot, the only one it leaves, does not use.
PruneUnused ==
    LET unused == stored \ Range(snapshot.chunks)
    IN  /\ pc = "idle" /\ unused # {}
        /\ stored' = stored \ unused /\ pruned' = pruned \cup unused
        /\ UNCHANGED <<files, snapshot, incFiles, incChunks, runs, process, unasked>>

Next ==
    \/ \E i \in Inodes : \E content \in Contents : ChangeFile(i, content)
    \/ \E p \in Paths : RemovePath(p)
    \/ \E quick \in BOOLEAN : StartBackup(quick)
    \/ OpenFile \/ CutChunk \/ SetSize \/ SetHash \/ FlushChunk
    \/ \E u \in uploads : UploadChunk(u) \/ UploadFails(u)
    \/ ReadFails \/ SaveFiles \/ CalculateChecksum \/ SaveChunks \/ Kill
    \/ UploadSnapshot \/ SnapshotFails \/ deleteIncompleteSnapshot \/ PruneUnused

Spec == Init /\ [][Next]_vars

----------------------------------------------------------------------------
TypeOK ==
    /\ present \subseteq Paths /\ data \in [Inodes -> Contents] /\ changes \in 0..MaxChanges
    /\ runs \in 0..MaxRuns /\ snapshot.revision <= runs
    /\ pc \in {"idle", "pack", "read", "hash", "failed", "delete"}
    /\ saving.step \in {"no", "files", "sum", "chunks"}
    /\ pc # "idle" => at \in 1..(Len(Modified) + 1)
    /\ chunkIndex + 1 >= Len(list.uploaded)
    /\ Cardinality(uploads) <= Threads
    /\ \A u \in uploads : u.index <= chunkIndex /\ u.chunk \in cache

\* An entry refers to the content its hash stands for; the hash may be missing
\* if a save came between the size and the hash.
RightEntry(chunks, e) ==
    /\ checkEntry(chunks, e)
    /\ e.hash # NoHash => Content(chunks, e) = e.hash

\* Every entry of the latest snapshot, however many of its files were taken over
\* from earlier backups, complete and incomplete ones, gives the content that was
\* read.
EntriesRight ==
    LET entries == ListRemoteFiles(snapshot.entries)
    IN  \A k \in DOMAIN entries : RightEntry(snapshot.chunks, entries[k])

\* If the file has not changed since it was listed, this is the file's content.
CurrentContent ==
    LET entries == ListRemoteFiles(snapshot.entries)
    IN  \A k \in DOMAIN entries :
           entries[k].time = time[Inode[entries[k].path]] =>
               Content(snapshot.chunks, entries[k]) = data[Inode[entries[k].path]]

\* What the latest snapshot gives back is right.
RightContent == EntriesRight /\ CurrentContent

\* Every chunk of the latest snapshot is in the storage, but for those that were
\* missing when a backup took them over from an incomplete snapshot unasked.
ChunksStored == Range(snapshot.chunks) \subseteq stored \cup unasked

\* A chunk that is not in the last snapshot is uploaded (duplicacy_backupmanager.go:210),
\* and those of an incomplete snapshot must exist (:247): so no chunk is missing.
LatestComplete == Range(snapshot.chunks) \subseteq stored

\* Whatever an incomplete snapshot offers to the next backup, after whichever
\* chunks were uploaded when it was saved, is right and complete.
IncompleteSound ==
    HasIncomplete =>
        LET inc == loadIncompleteSnapshot
            offered == ReadEntries(inc).out
        IN  \A k \in DOMAIN offered : RightEntry(Chunks(inc), offered[k])

\* Every chunk that it offers was uploaded: one that is not in the storage any
\* more is one that prune took away.
IncompleteStored ==
    HasIncomplete => Range(Chunks(loadIncompleteSnapshot)) \subseteq stored \cup pruned

\* When all files are packed the list can be read to its end, and every file that
\* was listed is in it, but for those that vanished or were empty when packed.
NothingForgotten ==
    Packed =>
        LET sent == ReadEntries(list)
            dropped == {Modified[k].path : k \in {j \in DOMAIN Modified : Modified[j].size <= 0}}
        IN  /\ ~sent.error
            /\ {sent.out[k].path : k \in DOMAIN sent.out} = {list.entries[k].path : k \in DOMAIN list.entries} \ dropped
            /\ ~EncodeEntries(list).panic
=============================================================================
