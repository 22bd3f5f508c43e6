-------------------------- MODULE MCCopySnapshots ---------------------------
(* Two snapshots that share a chunk. *)
EXTENDS CopySnapshots

CONSTANTS a, b, c

MCChunks == <<{a, b}, {b, c}>>
=============================================================================
