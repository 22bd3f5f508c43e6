--------------------------- MODULE SnapshotStorage ---------------------------
(***************************************************************************)
(* What users are promised of a storage that many computers back up to     *)
(* while old snapshots are pruned: a snapshot can be restored from the     *)
(* moment it is there until somebody deletes it, backups number their      *)
(* snapshots upwards, and the latest one of an id stays, unless a user has *)
(* made sure that nobody else uses the storage.  Chunks, fossils and       *)
(* collections, the means to this end, do not appear.                      *)
(***************************************************************************)
EXTENDS Naturals

CONSTANT Snapshot   \* the snapshots, records with an id and a revision

VARIABLES
    snapshots,    \* those in the storage
    restorable,   \* those of which everything is there
    alone         \* whether an exclusive prune runs

vars == <<snapshots, restorable, alone>>

Init == snapshots \subseteq Snapshot /\ restorable = snapshots /\ alone = FALSE

\* A backup ends: its snapshot is complete, and the newest of its id.
Commit ==
    /\ ~alone
    /\ \E s \in snapshots' \cap Snapshot :
          /\ \A u \in snapshots : u.id = s.id => u.rev < s.rev
          /\ snapshots' = snapshots \cup {s} /\ restorable' = restorable \cup {s}
    /\ UNCHANGED alone

\* Snapshots are deleted, of each id older ones only, but for exclusive prunes.
Delete ==
    /\ \E F \in SUBSET snapshots :
          /\ alone \/ \A s \in F : \E u \in snapshots \ F : u.id = s.id /\ u.rev > s.rev
          /\ snapshots' = snapshots \ F /\ restorable' = restorable \ F
    /\ UNCHANGED alone

\* An exclusive prune begins or ends.
Exclude == alone' \in BOOLEAN /\ UNCHANGED <<snapshots, restorable>>

Next == Commit \/ Delete \/ Exclude

Spec == Init /\ [][Next]_vars
=============================================================================
