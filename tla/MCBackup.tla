------------------------------ MODULE MCBackup ------------------------------
(***************************************************************************)
(* Three paths, the first and the last of them links to the same file; in  *)
(* the run on failing roots the second has a link elsewhere, and so is a   *)
(* root too.  Byte 2 ends a chunk, and so do two bytes.                    *)
(***************************************************************************)
EXTENDS Backup

MCInode == <<"f", "g", "f">>
MCContents == {<<>>, <<2, 1>>, <<1, 1>>}
MCTwoFiles == {[f |-> <<2, 1>>, g |-> <<1, 1>>]}
MCOutside == {"g"}
MCCutBytes == {2}
=============================================================================
