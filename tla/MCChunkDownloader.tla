------------------------- MODULE MCChunkDownloader --------------------------
(* Instances of ChunkDownloader for TLC. *)
EXTENDS ChunkDownloader, RestorePlan

File(s, e) == [start |-> s, end |-> e]

(* Small files packed into chunks: the first in chunk 1, the second from   *)
(* chunk 1 to chunk 2, the third in chunk 2.                               *)
PackedFiles == <<File(1, 1), File(1, 2), File(2, 2)>>

(* A file of four chunks, one in the last of them, and one in a chunk with *)
(* a hash that occurs before, so that it is read from chunk 2.             *)
MixedHashes == <<11, 12, 13, 14, 12>>
MixedFiles  == <<File(1, 4), File(4, 4), File(5, 5)>>

Restore(p, existing, local, overwrite) ==
    [tasks |-> p.tasks, files |-> p.files, needed |-> p.needed,
     existing |-> existing, local |-> local, overwrite |-> overwrite]

(* Into an empty directory. *)
Fresh(plans) == {Restore(p, {}, {}, FALSE) : p \in plans}

Packed == PlansFor(<<11, 12>>, PackedFiles)
Mixed  == PlansFor(MixedHashes, MixedFiles)

(* Into one where the packed files exist and may hold any chunk or, without *)
(* -overwrite, be refused; or where the first two of the mixed files exist *)
(* and may hold the chunk that occurs twice.                               *)
AllRestores ==
    Fresh(Packed \cup Mixed)
      \cup {Restore(p, DOMAIN p.files, {11, 12}, TRUE) : p \in Packed}
      \cup {Restore(p, DOMAIN p.files \ {1}, {}, FALSE) : p \in Packed}
      \cup {Restore(p, {1, 2}, {12}, TRUE) : p \in Mixed}

(* The first file is missing, the others exist. *)
FirstMissing == {Restore(p, DOMAIN p.files \ {1}, {}, TRUE) : p \in Packed}

FreshMixed == Fresh(Mixed)

=============================================================================
