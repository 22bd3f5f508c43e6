---------------------------- MODULE RestorePlan -----------------------------
(***************************************************************************)
(* What Restore hands to the chunk downloader: the files to restore, in    *)
(* the order of their chunks, and the list of download tasks AddFiles      *)
(* makes of them.                                                          *)
(*                                                                         *)
(* Code: the end of the preparation in Restore                             *)
(* (duplicacy_backupmanager.go) and ChunkDownloader.AddFiles               *)
(* (duplicacy_chunkdownloader.go).  A snapshot is a sequence of chunk      *)
(* hashes, a file the range of indices into it that holds its content.     *)
(***************************************************************************)
EXTENDS Integers, Sequences, SequencesExt

(* chunkMap: the first index a hash occurs at. *)
FirstOccurrence(hashes, i) ==
    CHOOSE k \in DOMAIN hashes : /\ hashes[k] = hashes[i]
                                 /\ \A l \in 1 .. k - 1 : hashes[l] # hashes[i]

(* A file within one chunk is read from the first occurrence of the chunk. *)
UseFirstChunk(hashes, f) ==
    IF f.start = f.end
      THEN [start |-> FirstOccurrence(hashes, f.start), end |-> FirstOccurrence(hashes, f.start)]
      ELSE f

(* sort.Sort(ByChunk): by the first chunk; files that start in the same    *)
(* chunk are ordered by their offsets in it, here in any order.            *)
ByChunk(q) ==
    {r \in {[i \in DOMAIN q |-> q[p[i]]] : p \in SetToSeqs(DOMAIN q)} :
        \A i, j \in DOMAIN r : i < j => r[i].start <= r[j].start}

(* Mutant: a first chunk before the end of the previous file counts as     *)
(* shared.                                                                 *)
AddFileNotAfter(hashes, plan, f) ==
    LET shared == f.start <= plan.last
        tasks  == plan.tasks \o SubSeq(hashes, IF shared THEN f.start + 1 ELSE f.start, f.end)
    IN  [tasks  |-> tasks,
         needed |-> IF shared THEN plan.needed \cup {Len(plan.tasks)} ELSE plan.needed,
         last   |-> f.end,
         files  |-> Append(plan.files, [start |-> Len(tasks) - (f.end - f.start),
                                        end   |-> Len(tasks),
                                        want  |-> SubSeq(hashes, f.start, f.end)])]

(* AddFiles, one file: a task per chunk, except that the first chunk may   *)
(* be the one the file before it ended with.  That chunk is marked needed  *)
(* at once.  The file's range becomes one of tasks; want is what the range *)
(* has to stand for.                                                       *)
AddFile(hashes, plan, f) ==
    LET shared == f.start = plan.last
        tasks  == plan.tasks \o SubSeq(hashes, IF shared THEN f.start + 1 ELSE f.start, f.end)
    IN  [tasks  |-> tasks,
         needed |-> IF shared THEN plan.needed \cup {Len(plan.tasks)} ELSE plan.needed,
         last   |-> f.end,
         files  |-> Append(plan.files, [start |-> Len(tasks) - (f.end - f.start),
                                        end   |-> Len(tasks),
                                        want  |-> SubSeq(hashes, f.start, f.end)])]

(* AddFiles: the plans after each of the files. *)
PlanStates(hashes, files) ==
    LET plan[n \in 0 .. Len(files)] ==
            IF n = 0 THEN [tasks |-> <<>>, needed |-> {}, last |-> 0, files |-> <<>>]
            ELSE AddFile(hashes, plan[n - 1], files[n])
    IN  plan

AddFiles(hashes, files) == PlanStates(hashes, files)[Len(files)]

(* Every plan for restoring some files of a snapshot. *)
PlansFor(hashes, files) ==
    {AddFiles(hashes, q) :
        q \in ByChunk([i \in DOMAIN files |-> UseFirstChunk(hashes, files[i])])}

=============================================================================
