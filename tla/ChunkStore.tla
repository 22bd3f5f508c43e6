----------------------------- MODULE ChunkStore -----------------------------
(***************************************************************************)
(* What the fossil collection relies on when it works on a chunk in the    *)
(* storage: the chunk is there as a live chunk, as a fossil, or as both    *)
(* for a while; fossilizing and resurrecting never leave it nowhere; and   *)
(* only a task that is told to delete something removes it.                *)
(***************************************************************************)
VARIABLES where,   \* which of the live chunk and the fossil exist
          task     \* what the operator is doing, "none" if nothing

Places == {"chunk", "fossil"}

\* A process starts with whatever there is in the storage.
Init == where \in SUBSET Places /\ task = "none"

Begin == task = "none" /\ task' # "none" /\ UNCHANGED where

End == task' = "none" /\ UNCHANGED where

Upload == task \in {"upload", "rewrite"} /\ where' = where \cup {"chunk"} /\ UNCHANGED task

\* Either at once or by way of both.
Move(from, to) ==
    /\ from \in where
    /\ where' \in {where \cup {to}, (where \ {from}) \cup {to}}
    /\ UNCHANGED task

Fossilize == task \in {"fossilize", "rewrite"} /\ Move("chunk", "fossil")

Resurrect == task = "resurrect" /\ Move("fossil", "chunk")

Delete ==
    /\ \/ task = "delete fossil" /\ where' = where \ {"fossil"}
       \/ task = "delete chunk" /\ where' = where \ {"chunk"}
    /\ UNCHANGED task

Next == Begin \/ End \/ Upload \/ Fossilize \/ Resurrect \/ Delete

Spec == Init /\ [][Next]_<<where, task>>
=============================================================================
