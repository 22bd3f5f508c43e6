--------------------------- MODULE FossilInvariant --------------------------
(***************************************************************************)
(* The inductive invariant behind FossilCollection!Recoverable, part by    *)
(* part.  TLC checks it on the instances of MCFossilCollection; the module *)
(* FossilSafetyProofs proves it inductive.                                 *)
(***************************************************************************)
EXTENDS FossilCollection

(* A chunk somebody counts on: a snapshot that is to stay, or a backup     *)
(* under way through a reference or its cache.                             *)
Needed(c) ==
    \/ \E s \in snaps \ Doomed : c \in s.chunks
    \/ \E x \in Ids : c \in bk[x].refs \cup bk[x].cache

(* Every chunk somebody counts on exists. *)
NeededExist == \A c \in Chunks : Needed(c) => c \in live \cup fossil

(* Revisions identify the snapshots of an id, are below the one a running  *)
(* backup of the id will get, and nothing is dated in the future.          *)
SnapshotsInOrder ==
    /\ \A s, u \in snaps : s.id = u.id /\ s.rev = u.rev => s = u
    /\ \A s \in snaps : s.rev <= MaxRev[s.id] /\ s.endTime <= now
    /\ \A x \in Ids :
          /\ Running(x) => /\ bk[x].rev \in 1 .. MaxRev[x]
                           /\ \A s \in snaps : s.id = x => s.rev < bk[x].rev
          /\ ~Running(x) => bk[x] = NoBackup
          /\ bk[x].endTime <= now

(* While a prune runs or a collection is pending, the backups that run are *)
(* of ids the prune can see.                                               *)
RunningProtected ==
    ~NothingPending => \A x \in Ids : Running(x) => Protected(x, now)

(* An exclusive prune runs alone. *)
ExclusiveAlone ==
    opts.exclusive => /\ pc # "idle" /\ colls = {}
                      /\ \A x \in Ids : ~Running(x)

(* No two pending collections have a fossil in common, and none has one    *)
(* with what is being collected or with tasks, but those made from it.     *)
CollectionsApart ==
    /\ \A k, l \in colls : k # l => k.fossils \cap l.fossils = {}
    /\ todo \subseteq colls \ cur /\ cur \subseteq colls
    /\ \A k \in colls : k.fossils \cap gathered = {}
    /\ \A k \in colls \ cur : \A t \in tasks : t.chunk \notin k.fossils
    /\ pc \in {"idle", "list", "deleting"} => tasks = {}
    /\ pc \notin {"idle", "list"} => toList = {}
    /\ todo # {} => pc \in {"collections", "dropping"}
    /\ cur # {} => pc = "dropping"

(* What a pending collection k says of the snapshots there were when it    *)
(* was made: the ones to stay use none of its fossils, later revisions are *)
(* recognizable as new, and the ids that make them are not ignored.        *)
OldSnapshotsSafe(k) ==
    /\ \A s \in snaps :
          ~New(k, s) /\ <<s.id, s.rev>> \notin k.deleted => s.chunks \cap k.fossils = {}
    /\ \A s \in snaps : New(k, s) => s.id \notin Ignored
    /\ \A r \in k.lastRevs :
          /\ Running(r[1]) => bk[r[1]].rev > r[2]
          /\ \E s \in snaps : s.id = r[1] /\ s.rev >= r[2]

(* The heart of the matter.  A backup of an id that starts after a late    *)
(* snapshot of that id can reference a fossil of k only through its cache, *)
(* hence the late snapshot references it too, or after the fossil has been *)
(* a chunk again.  So the first late snapshot speaks for all its           *)
(* successors, those not committed yet included.                           *)
LateSnapshotCovers(k) ==
    \A s \in snaps : New(k, s) /\ Late(k, s) =>
        /\ \A u \in snaps : u.id = s.id /\ u.rev > s.rev =>
              u.chunks \cap k.fossils \subseteq live \cup s.chunks
        /\ Running(s.id) =>
              (bk[s.id].refs \cup bk[s.id].cache) \cap k.fossils \subseteq live \cup s.chunks

PendingCollections == \A k \in colls : OldSnapshotsSafe(k) /\ LateSnapshotCovers(k)

(* The id had a listed snapshot of the last seven days. *)
ListedRecently(x) ==
    /\ x \notin Ignored
    /\ \E s \in listed : s.id = x /\ Latest(listed, s) /\ s.endTime >= now - MaxRunningTime

Deciding == pc \in {"list", "collections", "dropping"}

(* What prune has read: the listed snapshots are all there, a snapshot it  *)
(* missed has a higher revision than those it knows of the id, is new to   *)
(* every pending collection, and is of an id that is not dormant; a        *)
(* running backup is of an id that is not dormant either.                  *)
ListingMisses ==
    /\ listed \subseteq snaps
    /\ pc \in {"idle", "draining", "deleting"} => listed = {}
    /\ pc \in {"list", "collections", "dropping", "collecting"} =>
          \A s \in snaps \ listed : s.id \notin toList =>
              /\ \A u \in listed : u.id = s.id => u.rev < s.rev
              /\ \A k \in colls : New(k, s)
              /\ ~opts.exclusive
              /\ s.id \notin Ignored
              /\ Deciding => ListedRecently(s.id)
    /\ Deciding => \A x \in Ids \ toList : Running(x) => ListedRecently(x)

(* What the collecting run fossilizes or deletes is used by no listed      *)
(* snapshot that stays, and its flagged snapshots are not the latest ones. *)
CollectingSafe ==
    /\ pc \notin {"collecting", "deleting"} => flagged = {}
    /\ pc # "collecting" => gathered = {}
    /\ pc = "collecting" =>
          /\ flagged \subseteq listed
          /\ gathered \cap ChunksOf(listed \ flagged) = {}
          /\ \A t \in tasks : t.op \in {"fossilize", "deleteChunk"} =>
                t.chunk \notin ChunksOf(listed \ flagged)
    /\ ~opts.exclusive => \A s \in flagged : \E u \in snaps \ flagged :
                              u.id = s.id /\ u.rev > s.rev

(* What a worker may be about to do. *)
TasksSafe ==
    /\ TasksFindTheirChunk
    /\ \A t \in tasks :
          /\ t.op = "fossilize" => pc = "collecting" /\ ~opts.exclusive
          /\ t.op = "deleteChunk" => opts.exclusive /\ pc = "collecting" /\ ~Needed(t.chunk)
          /\ t.op = "deleteFossil" =>
                IF opts.exclusive THEN ~Needed(t.chunk)
                ELSE /\ Needed(t.chunk) => t.chunk \in live
                     /\ \A u \in tasks : u.chunk = t.chunk => u.op # "fossilize"
          /\ t.op = "resurrect" => \A u \in tasks :
                u.chunk = t.chunk => u.op \notin {"deleteFossil", "deleteChunk"}

IInv ==
    /\ NeededExist
    /\ SnapshotsInOrder
    /\ RunningProtected
    /\ ExclusiveAlone
    /\ CollectionsApart
    /\ PendingCollections
    /\ ListingMisses
    /\ CollectingSafe
    /\ TasksSafe

=============================================================================
