----------------------- MODULE FossilSafetyProofs ---------------------------
(***************************************************************************)
(* FossilCollection keeps its types, for every value of its constants; and *)
(* IInv is an invariant of it under the operating conditions (Relax = {}), *)
(* for every value of the other constants; hence so are the safety         *)
(* properties it implies.                                                  *)
(***************************************************************************)
EXTENDS FossilInvariant, CommonLemmas, TLAPS

-----------------------------------------------------------------------------
(* Types.                                                                  *)

(* What is stored for a backup stays a record of its type when a field is  *)
(* given a value of its type.                                              *)
LEMMA BackupFields ==
    ASSUME NEW b \in BackupState
    PROVE  /\ \A v \in SUBSET Chunks : [b EXCEPT !.refs = v] \in BackupState
           /\ \A v \in SUBSET Chunks : [b EXCEPT !.absent = v] \in BackupState
           /\ \A v, w \in SUBSET Chunks : [b EXCEPT !.refs = v, !.absent = w] \in BackupState
           /\ \A v \in {"idle", "files", "meta"}, n \in Nat :
                 [b EXCEPT !.st = v, !.endTime = n] \in BackupState
           /\ \A v \in {"idle", "files", "meta"}, n \in Nat, w \in SUBSET Chunks :
                 [b EXCEPT !.st = v, !.rev = n, !.cache = w] \in BackupState
BY DEF BackupState

(* The state of an id without a backup has its type. *)
LEMMA NoBackupType == NoBackup \in BackupState
BY DEF NoBackup, BackupState

(* The steps of a backup preserve the types. *)
LEMMA BackupTypes ==
    ASSUME TypeOK, BackupNext
    PROVE  TypeOK'
<1> USE Constants, NoBackupType
<1>1. PICK x \in Ids :
         \/ \E inc \in SUBSET Chunks : StartBackup(x, inc)
         \/ \E c \in Chunks : UseCached(x, c) \/ FindExisting(x, c) \/ UploadChunk(x, c)
         \/ RecordEndTime(x) \/ CommitSnapshot(x) \/ AbortBackup(x)
  BY DEF BackupNext
<1>2. bk \in [Ids -> BackupState] /\ bk[x] \in BackupState
  BY DEF TypeOK
<1>10. bk[x].refs \in SUBSET Chunks /\ bk[x].absent \in SUBSET Chunks
  BY <1>2 DEF BackupState
<1>11. \A b \in BackupState : [bk EXCEPT ![x] = b] \in [Ids -> BackupState]
  BY <1>2
<1>3. ASSUME NEW inc \in SUBSET Chunks, StartBackup(x, inc)  PROVE TypeOK'
  <2> DEFINE B(n, w) == [NoBackup EXCEPT !.st = "files", !.rev = n, !.cache = w]
  <2>1. \A n \in Nat, w \in SUBSET Chunks : B(n, w) \in BackupState
    BY BackupFields
  <2>2. ASSUME bk' = [bk EXCEPT ![x] = B(1, FirstCache \cup inc)]
        PROVE  bk' \in [Ids -> BackupState]
    <3>1. FirstCache \cup inc \in SUBSET Chunks
      BY DEF FirstCache, TypeOK
    <3>2. B(1, FirstCache \cup inc) \in BackupState
      BY <2>1, <3>1
    <3> QED  BY <2>2, <3>2, <1>11
  <2>3. ASSUME NEW s \in snaps, bk' = [bk EXCEPT ![x] = B(s.rev + 1, s.chunks \cup inc)]
        PROVE  bk' \in [Ids -> BackupState]
    <3>1. s.rev + 1 \in Nat /\ s.chunks \cup inc \in SUBSET Chunks
      BY DEF TypeOK, Snapshot
    <3>2. B(s.rev + 1, s.chunks \cup inc) \in BackupState
      BY <2>1, <3>1
    <3> QED  BY <2>3, <3>2, <1>11
  <2>4. bk' \in [Ids -> BackupState]
    BY <2>2, <2>3, <1>3 DEF StartBackup
  <2> QED  BY <2>4, <1>3 DEF TypeOK, StartBackup, storage, pruner
<1>4. ASSUME NEW c \in Chunks, UseCached(x, c)  PROVE TypeOK'
  <2>1. bk' = [bk EXCEPT ![x] = [bk[x] EXCEPT !.refs = bk[x].refs \cup {c}]]
    BY <1>4, <1>2 DEF UseCached
  <2>2. bk' \in [Ids -> BackupState]
    BY <2>1, <1>2, <1>10, <1>11, BackupFields
  <2> QED  BY <2>2, <1>4 DEF TypeOK, UseCached, storage, pruner
<1>5. ASSUME NEW c \in Chunks, FindExisting(x, c)  PROVE TypeOK'
  <2>1. ASSUME c \in live  PROVE bk' \in [Ids -> BackupState]
    <3>1. bk' = [bk EXCEPT ![x] = [bk[x] EXCEPT !.refs = bk[x].refs \cup {c}]]
      BY <1>5, <1>2, <2>1 DEF FindExisting
    <3> QED  BY <3>1, <1>2, <1>10, <1>11, BackupFields
  <2>2. ASSUME c \notin live  PROVE bk' \in [Ids -> BackupState]
    <3>1. bk' = [bk EXCEPT ![x] = [bk[x] EXCEPT !.absent = bk[x].absent \cup {c}]]
      BY <1>5, <1>2, <2>2 DEF FindExisting
    <3> QED  BY <3>1, <1>2, <1>10, <1>11, BackupFields, ZenonT(60)
  <2>3. bk' \in [Ids -> BackupState]
    BY <2>1, <2>2
  <2> QED  BY <2>3, <1>5 DEF TypeOK, FindExisting, storage, pruner
<1>6. ASSUME NEW c \in Chunks, UploadChunk(x, c)  PROVE TypeOK'
  <2>1. bk' = [bk EXCEPT ![x] = [bk[x] EXCEPT !.refs = bk[x].refs \cup {c},
                                              !.absent = bk[x].absent \ {c}]]
    BY <1>6, <1>2 DEF UploadChunk
  <2>2. bk' \in [Ids -> BackupState]
    BY <2>1, <1>2, <1>10, <1>11, BackupFields, ZenonT(60)
  <2> QED  BY <2>2, <1>6 DEF TypeOK, UploadChunk, pruner
<1>7. CASE RecordEndTime(x)
  <2>1. bk' = [bk EXCEPT ![x] = [bk[x] EXCEPT !.st = "meta", !.endTime = now]]
    BY <1>7, <1>2 DEF RecordEndTime
  <2>2. bk' \in [Ids -> BackupState]
    BY <2>1, <1>2, <1>11, BackupFields DEF TypeOK
  <2> QED  BY <2>2, <1>7 DEF TypeOK, RecordEndTime, storage, pruner
<1>8. CASE CommitSnapshot(x)
  <2>1. bk' \in [Ids -> BackupState]
    BY <1>8, <1>2 DEF CommitSnapshot
  <2>2. snaps' \in SUBSET Snapshot
    BY <1>8, <1>2 DEF CommitSnapshot, TypeOK, Snapshot, BackupState
  <2> QED  BY <2>1, <2>2, <1>8 DEF TypeOK, CommitSnapshot, pruner
<1>9. CASE AbortBackup(x)
  <2>1. bk' \in [Ids -> BackupState]
    BY <1>9, <1>2 DEF AbortBackup
  <2> QED  BY <2>1, <1>9 DEF TypeOK, AbortBackup, storage, pruner
<1> QED  BY <1>1, <1>3, <1>4, <1>5, <1>6, <1>7, <1>8, <1>9

(* So have the options of no command. *)
LEMMA NoOptionsType == NoOptions \in Options
BY DEF NoOptions, Options

(* When the prune command is over its variables have their types. *)
LEMMA GoneTypes ==
    ASSUME TypeOK, PrunerGone, live' \in SUBSET Chunks, fossil' \in SUBSET Chunks,
           UNCHANGED <<snaps, now, bk, colls>>, tasks' \in SUBSET TaskSet
    PROVE  TypeOK'
BY NoOptionsType DEF TypeOK, PrunerGone

(* The steps of the prune command preserve the types. *)
LEMMA PruneTypes ==
    ASSUME TypeOK, PruneNext
    PROVE  TypeOK'
<1> USE Constants
<1>1. ASSUME NEW o \in PruneOptions, StartPrune(o)  PROVE TypeOK'
  <2>1. o \in Options /\ {s.id : s \in snaps} \in SUBSET Ids
    BY DEF Options, TypeOK, Snapshot
  <2> QED  BY <1>1, <2>1 DEF StartPrune, TypeOK, storage, pruner
<1>2. ASSUME NEW x \in toList, ListRevisions(x)  PROVE TypeOK'
  BY <1>2 DEF ListRevisions, TypeOK, storage
<1>3. CASE ListCollections
  BY <1>3 DEF ListCollections, TypeOK, Options, storage, pruner
<1>4. ASSUME NEW k \in todo, GhostCollection(k) \/ PostponeCollection(k)  PROVE TypeOK'
  <2>1. CASE GhostCollection(k)
    BY <2>1 DEF GhostCollection, TypeOK, storage
  <2>2. CASE PostponeCollection(k)
    BY <2>2 DEF PostponeCollection, TypeOK, storage
  <2> QED  BY <1>4, <2>1, <2>2
<1>5. ASSUME NEW k \in todo, DeleteFossils(k)  PROVE TypeOK'
  <2>1. k.fossils \in SUBSET Chunks
    BY DEF TypeOK, Collection
  <2>2. tasks' \in SUBSET TaskSet
    BY <1>5, <2>1 DEF DeleteFossils, TypeOK, TaskSet, Task, Ops
  <2> QED  BY <1>5, <2>2 DEF DeleteFossils, TypeOK, storage, pruner
<1>6. CASE DropCollection
  BY <1>6 DEF DropCollection, TypeOK, storage, pruner
<1>7. CASE FinishDeleteOnly
  BY <1>7 DEF FinishDeleteOnly, TypeOK, Options, storage, pruner
<1>8. CASE Drained \/ FinishPrune \/ CrashPrune
  BY <1>8, GoneTypes DEF Drained, FinishPrune, CrashPrune, TypeOK, storage
<1>9. ASSUME NEW F \in SUBSET listed, SelectSnapshots(F)  PROVE TypeOK'
  <2>1. ChunksOf(F) \in SUBSET Chunks
    BY DEF ChunksOf, TypeOK, Snapshot
  <2>2. TargetTasks(F, batch') \in SUBSET TaskSet
    BY <1>9, <2>1 DEF SelectSnapshots, TargetTasks, TypeOK, TaskSet, Task, Ops
  <2>3. ExhaustiveTasks(F, batch') \in SUBSET TaskSet
    BY <1>9 DEF SelectSnapshots, ExhaustiveTasks, OrphanFossils, TypeOK, TaskSet, Task, Ops
  <2>4. OrphanFossils(F) \in SUBSET Chunks
    BY DEF OrphanFossils, TypeOK
  <2>5. opts' \in Options
    BY <1>9 DEF SelectSnapshots, TypeOK, Options
  <2>6. tasks' \in SUBSET TaskSet /\ gathered' \in SUBSET Chunks
    BY <1>9, <2>2, <2>3, <2>4 DEF SelectSnapshots, TypeOK
  <2> QED  BY <1>9, <2>5, <2>6 DEF SelectSnapshots, TypeOK, storage
<1>10. CASE SaveCollection
  <2>1. /\ LastRevisions(listed) \in SUBSET (Ids \X Nat)
        /\ {<<s.id, s.rev>> : s \in flagged} \in SUBSET (Ids \X Nat)
    BY DEF LastRevisions, TypeOK, Snapshot
  <2>2. colls' \in SUBSET Collection
    BY <1>10, <2>1 DEF SaveCollection, TypeOK, Collection
  <2> QED  BY <1>10, <2>2 DEF SaveCollection, TypeOK, storage
<1>11. ASSUME NEW s \in flagged, DeleteSnapshot(s)  PROVE TypeOK'
  BY <1>11 DEF DeleteSnapshot, TypeOK
<1> QED
  BY <1>1, <1>2, <1>3, <1>4, <1>5, <1>6, <1>7, <1>8, <1>9, <1>10, <1>11 DEF PruneNext

(* The steps of the workers, of check and of the clock preserve the types. *)
LEMMA WorkerTypes ==
    ASSUME TypeOK, WorkerNext \/ (\E c \in Chunks : CheckResurrect(c)) \/ Tick
    PROVE  TypeOK'
<1>1. ASSUME NEW t \in tasks, Fossilize(t) \/ Resurrect(t)  PROVE TypeOK'
  <2>1. t.chunk \in Chunks
    BY DEF TypeOK, TaskSet
  <2>2. CASE t.chunk \notin live \cup fossil
    BY <1>1, <2>2, GoneTypes DEF Fossilize, Resurrect, TypeOK
  <2>3. CASE t.chunk \in live \cup fossil /\ Fossilize(t)
    BY <2>1, <2>3 DEF Fossilize, TypeOK
  <2>4. CASE t.chunk \in live \cup fossil /\ Resurrect(t)
    BY <2>1, <2>4 DEF Resurrect, TypeOK, pruner
  <2> QED  BY <1>1, <2>2, <2>3, <2>4
<1>2. ASSUME NEW t \in tasks, DeleteFossil(t) \/ DeleteChunk(t)  PROVE TypeOK'
  BY <1>2 DEF DeleteFossil, DeleteChunk, TypeOK, pruner
<1>3. ASSUME NEW c \in Chunks, CheckResurrect(c)  PROVE TypeOK'
  BY <1>3 DEF CheckResurrect, TypeOK, pruner
<1>4. CASE Tick
  BY <1>4 DEF Tick, TypeOK, storage, pruner
<1> QED  BY <1>1, <1>2, <1>3, <1>4 DEF WorkerNext

(* Every variable of the prune and backup model keeps its type, whatever   *)
(* the operating conditions.                                               *)
THEOREM TypeCorrect == Spec => []TypeOK
<1>1. Init => TypeOK
  BY Constants, InitialStorage, NoBackupType
  DEF Init, TypeOK, ChunksOf, Snapshot, NoOptions, Options
<1>2. TypeOK /\ [Next]_vars => TypeOK'
  <2>1. TypeOK /\ Next => TypeOK'
    BY BackupTypes, PruneTypes, WorkerTypes DEF Next
  <2>2. TypeOK /\ UNCHANGED vars => TypeOK'
    BY DEF TypeOK, vars, storage, pruner
  <2> QED  BY <2>1, <2>2
<1> QED  BY <1>1, <1>2, PTL DEF Spec

-----------------------------------------------------------------------------
(* The inductive invariant, action by action.  First the backups: all      *)
(* their steps but the last one change only the state of one backup and    *)
(* add chunks.                                                             *)

(* A backup is replaced by b, a running one or none, whose chunks the      *)
(* backup had before, or exist, or are in the id's latest snapshot.        *)
LEMMA BackupStepInv ==
    ASSUME Relax = {}, TypeOK, IInv, NEW x \in Ids, NEW b \in BackupState,
           bk' = [bk EXCEPT ![x] = b],
           live \subseteq live',
           UNCHANGED <<fossil, snaps, now, colls, pruner, tasks>>,
           \A c \in b.refs \cup b.cache :
              \/ c \in bk[x].refs \cup bk[x].cache
              \/ c \in live'
              \/ \E s \in snaps : s.id = x /\ Latest(snaps, s) /\ c \in s.chunks,
           b.st # "idle" =>
              /\ ~opts.exclusive
              /\ NothingPending \/ Protected(x, now)
              /\ b.rev \in 1 .. MaxRev[x]
              /\ \A s \in snaps : s.id = x => s.rev < b.rev,
           b.st = "idle" => b = NoBackup,
           b.endTime <= now
    PROVE  IInv'
<1> USE Constants
<1>1. bk \in [Ids -> BackupState] /\ bk'[x] = b /\ \A y \in Ids : y # x => bk'[y] = bk[y]
  BY DEF TypeOK
<1>2. /\ pc' = pc /\ opts' = opts /\ toList' = toList /\ listed' = listed /\ todo' = todo
      /\ cur' = cur /\ flagged' = flagged /\ gathered' = gathered /\ tasks' = tasks
      /\ snaps' = snaps /\ fossil' = fossil /\ now' = now /\ colls' = colls
  BY DEF pruner
<1>3. Doomed' = Doomed /\ (opts.exclusive => Doomed = flagged) /\ (~opts.exclusive => Doomed = {})
  BY <1>2 DEF Doomed
<1>4. \A y \in Ids : Running(y)' => Running(y) \/ (y = x /\ b.st # "idle")
  BY <1>1 DEF Running
<1>5. \A c : Needed(c)' => Needed(c) \/ c \in live'
  <2> SUFFICES ASSUME NEW c, Needed(c)', c \notin live'  PROVE Needed(c)
    OBVIOUS
  <2>1. CASE \E s \in snaps \ Doomed : c \in s.chunks
    BY <2>1 DEF Needed
  <2>2. CASE \E y \in Ids : y # x /\ c \in bk'[y].refs \cup bk'[y].cache
    BY <2>2, <1>1 DEF Needed
  <2>3. CASE c \in b.refs \cup b.cache
    <3>1. CASE c \in bk[x].refs \cup bk[x].cache
      BY <3>1 DEF Needed
    <3>2. ASSUME NEW s \in snaps, c \in s.chunks  PROVE Needed(c)
      <4>1. b.st # "idle"
        BY <2>3 DEF NoBackup
      <4> QED  BY <3>2, <4>1, <1>3 DEF Needed
    <3> QED  BY <2>3, <3>1, <3>2
  <2> QED  BY <2>1, <2>2, <2>3, <1>1, <1>2, <1>3 DEF Needed
<1>6. NeededExist'
  BY <1>2, <1>5 DEF IInv, NeededExist
<1>7. SnapshotsInOrder'
  BY <1>1, <1>2 DEF IInv, SnapshotsInOrder, Running
<1>8. RunningProtected'
  BY <1>2, <1>4 DEF IInv, RunningProtected, NothingPending, Protected, Latest
<1>9. ExclusiveAlone' /\ CollectionsApart'
  BY <1>2, <1>4 DEF IInv, ExclusiveAlone, CollectionsApart
<1>10. PendingCollections'
  <2> SUFFICES ASSUME NEW k \in colls  PROVE (OldSnapshotsSafe(k) /\ LateSnapshotCovers(k))'
    BY <1>2 DEF PendingCollections
  <2>1. k \in Collection /\ OldSnapshotsSafe(k) /\ LateSnapshotCovers(k)
    BY DEF IInv, PendingCollections, TypeOK
  <2>2. ~NothingPending
    BY DEF NothingPending
  <2>3. OldSnapshotsSafe(k)'
    <3>1. ASSUME NEW r \in k.lastRevs, b.st # "idle", r[1] = x  PROVE b.rev > r[2]
      <4>1. PICK s \in snaps : s.id = r[1] /\ s.rev >= r[2]
        BY <2>1 DEF OldSnapshotsSafe
      <4>2. s.rev < b.rev /\ s.rev \in Nat /\ b.rev \in Nat /\ r[2] \in Nat
        BY <3>1, <4>1, <2>1 DEF TypeOK, Snapshot, Collection
      <4> QED  BY <4>1, <4>2
    <3>2. \A r \in k.lastRevs : r[1] \in Ids
      BY <2>1 DEF Collection
    <3> QED  BY <2>1, <3>1, <3>2, <1>1, <1>2 DEF OldSnapshotsSafe, New, Running
  <2>4. LateSnapshotCovers(k)'
    <3> SUFFICES ASSUME NEW s \in snaps, New(k, s), Late(k, s)
                 PROVE  /\ \A u \in snaps : u.id = s.id /\ u.rev > s.rev =>
                              u.chunks \cap k.fossils \subseteq live' \cup s.chunks
                        /\ Running(s.id)' => (bk'[s.id].refs \cup bk'[s.id].cache) \cap k.fossils
                                                \subseteq live' \cup s.chunks
      BY <1>2 DEF LateSnapshotCovers, New, Late
    <3>1. \A u \in snaps : u.id = s.id /\ u.rev > s.rev =>
             u.chunks \cap k.fossils \subseteq live \cup s.chunks
      BY <2>1 DEF LateSnapshotCovers
    <3>2. CASE s.id # x
      BY <3>1, <3>2, <1>1, <2>1 DEF LateSnapshotCovers, Running, TypeOK, Snapshot
    <3>3. CASE s.id = x
      <4> SUFFICES ASSUME NEW c \in b.refs \cup b.cache, c \in k.fossils
                   PROVE  c \in live' \cup s.chunks
        BY <3>1, <3>3, <1>1
      <4>1. CASE c \in bk[x].refs \cup bk[x].cache
        <5>1. Running(x)
          BY <4>1 DEF IInv, SnapshotsInOrder, NoBackup
        <5> QED  BY <4>1, <5>1, <3>3, <2>1 DEF LateSnapshotCovers
      <4>2. ASSUME NEW u \in snaps, u.id = x, Latest(snaps, u), c \in u.chunks
            PROVE  c \in live' \cup s.chunks
        <5>1. s.rev \in Nat /\ u.rev \in Nat /\ s.rev <= u.rev
          BY <3>3, <4>2 DEF Latest, TypeOK, Snapshot
        <5>2. CASE u.rev = s.rev
          BY <5>2, <3>3, <4>2 DEF IInv, SnapshotsInOrder
        <5>3. CASE u.rev > s.rev
          BY <5>3, <3>1, <3>3, <4>2
        <5> QED  BY <5>1, <5>2, <5>3
      <4> QED  BY <4>1, <4>2
    <3> QED  BY <3>2, <3>3
  <2> QED  BY <2>3, <2>4
<1>11. ListingMisses'
  <2>1. ASSUME Deciding, x \notin toList, b.st # "idle"  PROVE ListedRecently(x)
    <3>1. Protected(x, now)
      BY <2>1 DEF Deciding, NothingPending
    <3>2. PICK s \in snaps : s.id = x /\ Latest(snaps, s) /\ s.endTime >= now - MaxRunningTime
      BY <3>1 DEF Protected
    <3>3. CASE s \in listed
      BY <3>1, <3>2, <3>3 DEF ListedRecently, Protected, Latest, IInv, ListingMisses
    <3>4. CASE s \notin listed
      BY <2>1, <3>2, <3>4 DEF Deciding, IInv, ListingMisses
    <3> QED  BY <3>3, <3>4
  <2>2. /\ listed \subseteq snaps
        /\ pc \in {"idle", "draining", "deleting"} => listed = {}
        /\ pc \in {"list", "collections", "dropping", "collecting"} =>
              \A s \in snaps \ listed : s.id \notin toList =>
                  /\ \A u \in listed : u.id = s.id => u.rev < s.rev
                  /\ \A k \in colls : New(k, s)
                  /\ ~opts.exclusive
                  /\ s.id \notin Ignored
                  /\ Deciding => ListedRecently(s.id)
        /\ Deciding => \A y \in Ids \ toList : Running(y) => ListedRecently(y)
    BY DEF IInv, ListingMisses
  <2>3. (Deciding' <=> Deciding) /\ \A y : ListedRecently(y)' <=> ListedRecently(y)
    BY <1>2 DEF Deciding, ListedRecently, Latest
  <2> QED  BY <1>2, <1>4, <2>1, <2>2, <2>3 DEF ListingMisses, New
<1>12. CollectingSafe'
  BY <1>2 DEF IInv, CollectingSafe, ChunksOf
<1>13. TasksSafe'
  <2>1. \A c : opts.exclusive => (Needed(c)' => Needed(c))
    <3> SUFFICES ASSUME NEW c, opts.exclusive, Needed(c)'  PROVE Needed(c)
      OBVIOUS
    <3>1. b = NoBackup
      OBVIOUS
    <3> QED  BY <3>1, <1>1, <1>2, <1>3 DEF Needed, NoBackup
  <2>2. TasksFindTheirChunk'
    BY <1>2 DEF IInv, TasksSafe, TasksFindTheirChunk
  <2>3. \A c : c \in live => c \in live'
    OBVIOUS
  <2>4. \A t \in tasks :
          /\ t.op = "fossilize" => pc = "collecting" /\ ~opts.exclusive
          /\ t.op = "deleteChunk" => opts.exclusive /\ pc = "collecting" /\ ~Needed(t.chunk)
          /\ t.op = "deleteFossil" =>
                IF opts.exclusive THEN ~Needed(t.chunk)
                ELSE /\ Needed(t.chunk) => t.chunk \in live
                     /\ \A u \in tasks : u.chunk = t.chunk => u.op # "fossilize"
          /\ t.op = "resurrect" => \A u \in tasks :
                u.chunk = t.chunk => u.op \notin {"deleteFossil", "deleteChunk"}
    BY DEF IInv, TasksSafe
  <2> QED  BY <1>2, <1>5, <2>1, <2>2, <2>3, <2>4 DEF TasksSafe
<1> QED  BY <1>6, <1>7, <1>8, <1>9, <1>10, <1>11, <1>12, <1>13 DEF IInv


(* The fields of a backup after such a change. *)
LEMMA BackupFieldValues ==
    ASSUME NEW b \in BackupState, NEW v, NEW w, NEW n, NEW t
    PROVE  /\ [b EXCEPT !.refs = v].st = b.st /\ [b EXCEPT !.refs = v].rev = b.rev
           /\ [b EXCEPT !.refs = v].cache = b.cache /\ [b EXCEPT !.refs = v].refs = v
           /\ [b EXCEPT !.refs = v].endTime = b.endTime
           /\ [b EXCEPT !.absent = v].st = b.st /\ [b EXCEPT !.absent = v].rev = b.rev
           /\ [b EXCEPT !.absent = v].cache = b.cache /\ [b EXCEPT !.absent = v].refs = b.refs
           /\ [b EXCEPT !.absent = v].endTime = b.endTime
           /\ [b EXCEPT !.refs = v, !.absent = w].st = b.st
           /\ [b EXCEPT !.refs = v, !.absent = w].rev = b.rev
           /\ [b EXCEPT !.refs = v, !.absent = w].cache = b.cache
           /\ [b EXCEPT !.refs = v, !.absent = w].refs = v
           /\ [b EXCEPT !.refs = v, !.absent = w].endTime = b.endTime
           /\ [b EXCEPT !.st = t, !.endTime = n].st = t
           /\ [b EXCEPT !.st = t, !.endTime = n].rev = b.rev
           /\ [b EXCEPT !.st = t, !.endTime = n].cache = b.cache
           /\ [b EXCEPT !.st = t, !.endTime = n].refs = b.refs
           /\ [b EXCEPT !.st = t, !.endTime = n].endTime = n
           /\ [b EXCEPT !.st = t, !.rev = n, !.cache = w].st = t
           /\ [b EXCEPT !.st = t, !.rev = n, !.cache = w].rev = n
           /\ [b EXCEPT !.st = t, !.rev = n, !.cache = w].cache = w
           /\ [b EXCEPT !.st = t, !.rev = n, !.cache = w].refs = b.refs
           /\ [b EXCEPT !.st = t, !.rev = n, !.cache = w].endTime = b.endTime
BY DEF BackupState

(* Starting a backup: what is in the cache exists, or is in the latest     *)
(* snapshot.                                                               *)
LEMMA StartBackupInv ==
    ASSUME Relax = {}, TypeOK, IInv, NEW x \in Ids, MayBackup(x),
           NEW inc \in SUBSET Chunks, MayResume(inc), StartBackup(x, inc)
    PROVE  IInv'
<1> USE Constants, NoBackupType
<1> DEFINE B(n, w) == [NoBackup EXCEPT !.st = "files", !.rev = n, !.cache = w]
<1>1. ASSUME NEW n \in Nat, NEW w \in SUBSET Chunks
      PROVE  /\ B(n, w) \in BackupState /\ B(n, w).st = "files" /\ B(n, w).rev = n
             /\ B(n, w).refs = {} /\ B(n, w).cache = w /\ B(n, w).endTime = 0
  <2>1. B(n, w) \in BackupState
    BY BackupFields
  <2>2. NoBackup.refs = {} /\ NoBackup.endTime = 0
    BY DEF NoBackup
  <2> QED  BY <2>1, <2>2, BackupFieldValues
<1> HIDE DEF B
<1>2. now \in Nat /\ ~opts.exclusive /\ (NothingPending \/ Protected(x, now)) /\ inc \subseteq live
  BY DEF MayBackup, MayResume, Assumed, TypeOK
<1>3. live' = live /\ UNCHANGED <<fossil, snaps, now, colls, pruner, tasks>>
  BY DEF StartBackup, storage
<1>4. ASSUME \A s \in snaps : s.id # x, bk' = [bk EXCEPT ![x] = B(1, FirstCache \cup inc)]
      PROVE  IInv'
  <2> DEFINE w == FirstCache \cup inc
  <2>1. w \in SUBSET Chunks /\ w \subseteq live
    BY <1>2 DEF FirstCache, TypeOK
  <2>2. MaxRev[x] \in Nat /\ MaxRev[x] >= 1
    OBVIOUS
  <2> DEFINE b == B(1, w)
  <2>3. b \in BackupState /\ b.st = "files" /\ b.rev = 1 /\ b.refs = {}
        /\ b.cache = w /\ b.endTime = 0
    BY <1>1, <2>1
  <2>4. bk' = [bk EXCEPT ![x] = b]
    BY <1>4
  <2> HIDE DEF b, w
  <2>5. \A c \in b.refs \cup b.cache : c \in live'
    BY <2>1, <2>3, <1>3
  <2>6. b.rev \in 1 .. MaxRev[x] /\ \A s \in snaps : s.id = x => s.rev < b.rev
    BY <2>2, <2>3, <1>4
  <2>7. b.endTime <= now /\ b.st # "idle" /\ live \subseteq live'
    BY <2>3, <1>2, <1>3
  <2> QED  BY <2>3, <2>4, <2>5, <2>6, <2>7, <1>2, <1>3, BackupStepInv
<1>5. ASSUME NEW s \in snaps, s.id = x, Latest(snaps, s), s.rev < MaxRev[x],
             bk' = [bk EXCEPT ![x] = B(s.rev + 1, s.chunks \cup inc)]
      PROVE  IInv'
  <2>1. s.rev \in Nat /\ s.chunks \in SUBSET Chunks /\ MaxRev[x] \in Nat
    BY DEF TypeOK, Snapshot
  <2>2. \A u \in snaps : u.id = x => u.rev < s.rev + 1
    BY <1>5, <2>1 DEF Latest, TypeOK, Snapshot
  <2>9. PICK n \in Nat : n = s.rev + 1
    BY <2>1
  <2> DEFINE w == s.chunks \cup inc
             b == B(n, w)
  <2>10. w \in SUBSET Chunks
    BY <2>1
  <2>3. b \in BackupState /\ b.st = "files" /\ b.rev = n /\ b.refs = {}
        /\ b.cache = w /\ b.endTime = 0
    BY <1>1, <2>10
  <2>4. b.rev \in 1 .. MaxRev[x]
    <3>1. s.rev + 1 \in 1 .. MaxRev[x]
      BY <1>5, <2>1
    <3> QED  BY <3>1, <2>3, <2>9
  <2>5. bk' = [bk EXCEPT ![x] = b]
    BY <1>5, <2>9
  <2> HIDE DEF b
  <2>6. \A c \in b.refs \cup b.cache :
           c \in live' \/ \E u \in snaps : u.id = x /\ Latest(snaps, u) /\ c \in u.chunks
    BY <2>3, <1>2, <1>3, <1>5
  <2>7. \A u \in snaps : u.id = x => u.rev < b.rev
    BY <2>2, <2>3, <2>9
  <2>8. b.endTime <= now /\ b.st # "idle" /\ live \subseteq live'
    BY <2>3, <1>2, <1>3
  <2> QED  BY <2>3, <2>4, <2>5, <2>6, <2>7, <2>8, <1>2, <1>3, BackupStepInv
<1> QED  BY <1>4, <1>5 DEF StartBackup, B

(* What is known of a backup that runs. *)
LEMMA RunningFacts ==
    ASSUME TypeOK, IInv, NEW x \in Ids, Running(x)
    PROVE  /\ bk[x] \in BackupState /\ bk[x].st # "idle"
           /\ bk[x].refs \in SUBSET Chunks /\ bk[x].cache \in SUBSET Chunks
           /\ bk[x].absent \in SUBSET Chunks
           /\ ~opts.exclusive
           /\ NothingPending \/ Protected(x, now)
           /\ bk[x].rev \in 1 .. MaxRev[x]
           /\ \A s \in snaps : s.id = x => s.rev < bk[x].rev
           /\ bk[x].endTime <= now /\ now \in Nat
<1>1. bk[x] \in BackupState /\ now \in Nat
  BY DEF TypeOK
<1> QED  BY <1>1 DEF IInv, SnapshotsInOrder, RunningProtected, ExclusiveAlone, Running, BackupState

(* Steps that make a backup refer to one more chunk that exists. *)
LEMMA UseChunkInv ==
    ASSUME Relax = {}, TypeOK, IInv, NEW x \in Ids, NEW c \in Chunks,
           UseCached(x, c) \/ FindExisting(x, c) \/ UploadChunk(x, c)
    PROVE  IInv'
<1>1. Running(x) /\ bk \in [Ids -> BackupState]
  BY DEF UseCached, FindExisting, UploadChunk, TypeOK
<1> USE RunningFacts
<1> DEFINE r == [bk[x] EXCEPT !.refs = @ \cup {c}]
           a == [bk[x] EXCEPT !.absent = @ \cup {c}]
           u == [bk[x] EXCEPT !.refs = @ \cup {c}, !.absent = @ \ {c}]
<1>2. /\ r \in BackupState /\ a \in BackupState /\ u \in BackupState
      /\ r.st = bk[x].st /\ r.rev = bk[x].rev /\ r.endTime = bk[x].endTime
      /\ a.st = bk[x].st /\ a.rev = bk[x].rev /\ a.endTime = bk[x].endTime
      /\ u.st = bk[x].st /\ u.rev = bk[x].rev /\ u.endTime = bk[x].endTime
      /\ r.refs = bk[x].refs \cup {c} /\ r.cache = bk[x].cache
      /\ a.refs = bk[x].refs /\ a.cache = bk[x].cache
      /\ u.refs = bk[x].refs \cup {c} /\ u.cache = bk[x].cache
  <2>1. bk[x] \in BackupState /\ c \in Chunks
    BY <1>1
  <2>2. /\ bk[x].refs \cup {c} \in SUBSET Chunks
        /\ bk[x].absent \cup {c} \in SUBSET Chunks /\ bk[x].absent \ {c} \in SUBSET Chunks
    BY <1>1
  <2>3. r \in BackupState /\ a \in BackupState /\ u \in BackupState
    BY <2>1, <2>2, BackupFields
  <2> QED  BY <2>1, <2>3, BackupFieldValues
<1>3. CASE UseCached(x, c)
  <2>1. bk' = [bk EXCEPT ![x] = r] /\ c \in bk[x].cache /\ live' = live
        /\ UNCHANGED <<fossil, snaps, now, colls, pruner, tasks>>
    BY <1>1, <1>3 DEF UseCached, storage
  <2> HIDE DEF r
  <2> QED  BY <1>1, <1>2, <2>1, BackupStepInv, ZenonT(60)
<1>4. CASE FindExisting(x, c) /\ c \in live
  <2>1. bk' = [bk EXCEPT ![x] = r] /\ c \in live /\ live' = live
        /\ UNCHANGED <<fossil, snaps, now, colls, pruner, tasks>>
    BY <1>1, <1>4 DEF FindExisting, storage
  <2> HIDE DEF r
  <2> QED  BY <1>1, <1>2, <2>1, BackupStepInv, ZenonT(60)
<1>5. CASE FindExisting(x, c) /\ c \notin live
  <2>1. bk' = [bk EXCEPT ![x] = a] /\ live' = live
        /\ UNCHANGED <<fossil, snaps, now, colls, pruner, tasks>>
    BY <1>1, <1>5 DEF FindExisting, storage
  <2> HIDE DEF a
  <2> QED  BY <1>1, <1>2, <2>1, BackupStepInv
<1>6. CASE UploadChunk(x, c)
  <2>1. bk' = [bk EXCEPT ![x] = u] /\ live' = live \cup {c}
        /\ UNCHANGED <<fossil, snaps, now, colls, pruner, tasks>>
    BY <1>1, <1>6 DEF UploadChunk
  <2> HIDE DEF u
  <2> QED  BY <1>1, <1>2, <2>1, BackupStepInv
<1> QED  BY <1>3, <1>4, <1>5, <1>6

(* Taking the end time. *)
LEMMA RecordEndTimeInv ==
    ASSUME Relax = {}, TypeOK, IInv, NEW x \in Ids, RecordEndTime(x)
    PROVE  IInv'
<1>1. Running(x) /\ bk \in [Ids -> BackupState] /\ bk[x] \in BackupState
  BY DEF RecordEndTime, Running, TypeOK
<1> DEFINE b == [bk[x] EXCEPT !.st = "meta", !.endTime = now]
<1>2. now \in Nat
  BY DEF TypeOK
<1>3. /\ b \in BackupState
      /\ b.st = "meta" /\ b.rev = bk[x].rev /\ b.endTime = now
      /\ b.refs = bk[x].refs /\ b.cache = bk[x].cache
  <2>1. b \in BackupState
    BY <1>1, <1>2, BackupFields
  <2> QED  BY <1>1, <2>1, BackupFieldValues
<1>4. bk' = [bk EXCEPT ![x] = b] /\ live' = live
      /\ UNCHANGED <<fossil, snaps, now, colls, pruner, tasks>>
  BY <1>1 DEF RecordEndTime, storage
<1> HIDE DEF b
<1>5. /\ ~opts.exclusive /\ (NothingPending \/ Protected(x, now))
      /\ b.rev \in 1 .. MaxRev[x] /\ \A s \in snaps : s.id = x => s.rev < b.rev
  BY <1>1, <1>3, RunningFacts
<1>6. b.endTime <= now /\ b.st # "idle" /\ live \subseteq live'
  BY <1>2, <1>3, <1>4
<1>7. \A c \in b.refs \cup b.cache : c \in bk[x].refs \cup bk[x].cache
  BY <1>3
<1> QED  BY <1>3, <1>4, <1>5, <1>6, <1>7, BackupStepInv

(* A backup that fails takes its references with it. *)
LEMMA AbortBackupInv ==
    ASSUME Relax = {}, TypeOK, IInv, NEW x \in Ids, AbortBackup(x)
    PROVE  IInv'
<1>1. NoBackup.refs = {} /\ NoBackup.cache = {} /\ NoBackup.st = "idle" /\ NoBackup.endTime <= now
  BY DEF NoBackup, TypeOK
<1>2. bk' = [bk EXCEPT ![x] = NoBackup] /\ live' = live
      /\ UNCHANGED <<fossil, snaps, now, colls, pruner, tasks>>
  BY DEF AbortBackup, storage
<1> QED  BY <1>1, <1>2, NoBackupType, BackupStepInv

(* The new snapshot is what the backup counted on, and it is new to every  *)
(* pending collection.                                                     *)
LEMMA CommitSnapshotInv ==
    ASSUME Relax = {}, TypeOK, IInv, NEW x \in Ids, CommitSnapshot(x)
    PROVE  IInv'
<1> DEFINE s0 == [id |-> x, rev |-> bk[x].rev, chunks |-> bk[x].refs, endTime |-> bk[x].endTime]
<1>1. /\ Running(x) /\ bk \in [Ids -> BackupState]
      /\ snaps' = snaps \cup {s0} /\ bk' = [bk EXCEPT ![x] = NoBackup]
      /\ UNCHANGED <<live, fossil, now, colls, pruner, tasks>>
  BY DEF CommitSnapshot, Running, TypeOK
<1>2. /\ s0.id = x /\ s0.rev = bk[x].rev /\ s0.chunks = bk[x].refs
      /\ s0.endTime = bk[x].endTime
  OBVIOUS
<1> HIDE DEF s0
<1>3. /\ bk[x] \in BackupState /\ ~opts.exclusive
      /\ NothingPending \/ Protected(x, now)
      /\ bk[x].rev \in 1 .. MaxRev[x] /\ bk[x].endTime <= now
      /\ \A s \in snaps : s.id = x => s.rev < bk[x].rev
  BY <1>1, RunningFacts
<1>4. /\ pc' = pc /\ opts' = opts /\ toList' = toList /\ listed' = listed /\ todo' = todo
      /\ cur' = cur /\ flagged' = flagged /\ gathered' = gathered /\ tasks' = tasks
      /\ live' = live /\ fossil' = fossil /\ now' = now /\ colls' = colls
  BY <1>1 DEF pruner
<1>5. /\ bk'[x] = NoBackup /\ \A y \in Ids : y # x => bk'[y] = bk[y]
      /\ ~Running(x)' /\ \A y \in Ids : Running(y)' => Running(y)
      /\ NoBackup.refs = {} /\ NoBackup.cache = {} /\ NoBackup.endTime = 0
  BY <1>1 DEF Running, NoBackup
<1>6. Doomed = {} /\ Doomed' = {}
  BY <1>3, <1>4 DEF Doomed
<1>7. \A c : Needed(c)' => Needed(c)
  BY <1>1, <1>2, <1>5, <1>6 DEF Needed
<1>8. NeededExist'
  BY <1>4, <1>7 DEF IInv, NeededExist
<1>9. SnapshotsInOrder'
  <2>1. /\ \A s, u \in snaps : s.id = u.id /\ s.rev = u.rev => s = u
        /\ \A s \in snaps : s.rev <= MaxRev[s.id] /\ s.endTime <= now
        /\ \A y \in Ids :
              /\ Running(y) => /\ bk[y].rev \in 1 .. MaxRev[y]
                               /\ \A s \in snaps : s.id = y => s.rev < bk[y].rev
              /\ ~Running(y) => bk[y] = NoBackup
              /\ bk[y].endTime <= now
    BY DEF IInv, SnapshotsInOrder
  <2>2. \A s \in snaps : s.rev \in Nat
    BY DEF TypeOK, Snapshot
  <2>3. \A s, u \in snaps' : s.id = u.id /\ s.rev = u.rev => s = u
    BY <1>1, <1>2, <1>3, <2>1, <2>2
  <2>4. \A s \in snaps' : s.rev <= MaxRev[s.id] /\ s.endTime <= now
    BY <1>1, <1>2, <1>3, <2>1, Constants
  <2>5. now \in Nat
    BY DEF TypeOK
  <2>6. ASSUME NEW y \in Ids
        PROVE  /\ Running(y)' => /\ bk'[y].rev \in 1 .. MaxRev[y]
                                 /\ \A s \in snaps' : s.id = y => s.rev < bk'[y].rev
               /\ ~Running(y)' => bk'[y] = NoBackup
               /\ bk'[y].endTime <= now
    <3>1. CASE y = x
      BY <3>1, <1>5, <2>5
    <3>2. CASE y # x
      BY <3>2, <1>1, <1>2, <1>5, <2>1 DEF Running
    <3> QED  BY <3>1, <3>2
  <2> QED  BY <2>3, <2>4, <2>6, <1>4 DEF SnapshotsInOrder
<1>10. RunningProtected'
  <2> SUFFICES ASSUME ~NothingPending, NEW y \in Ids, Running(y)'  PROVE Protected(y, now)'
    BY <1>4 DEF RunningProtected, NothingPending
  <2>1. y # x /\ Protected(y, now)
    BY <1>5 DEF IInv, RunningProtected
  <2> QED  BY <1>1, <1>2, <1>4, <2>1 DEF Protected, Latest
<1>11. ExclusiveAlone' /\ CollectionsApart'
  BY <1>3, <1>4 DEF IInv, ExclusiveAlone, CollectionsApart
<1>12. ASSUME NEW k \in colls  PROVE New(k, s0) /\ x \notin Ignored
  <2>1. Protected(x, now)
    BY <1>3 DEF NothingPending
  <2>2. \A r \in k.lastRevs : r[1] = x => bk[x].rev > r[2]
    BY <1>1 DEF IInv, PendingCollections, OldSnapshotsSafe
  <2> QED  BY <1>2, <2>1, <2>2 DEF New, Protected
<1>13. PendingCollections'
  <2> SUFFICES ASSUME NEW k \in colls  PROVE (OldSnapshotsSafe(k) /\ LateSnapshotCovers(k))'
    BY <1>4 DEF PendingCollections
  <2>1. k \in Collection /\ OldSnapshotsSafe(k) /\ LateSnapshotCovers(k)
    BY DEF IInv, PendingCollections, TypeOK
  <2>2. \A r \in k.lastRevs : r[1] \in Ids
    BY <2>1 DEF Collection
  <2>3. OldSnapshotsSafe(k)'
    <3>1. \A s \in snaps' : ~New(k, s) /\ <<s.id, s.rev>> \notin k.deleted
                               => s.chunks \cap k.fossils = {}
      BY <1>1, <1>12, <2>1 DEF OldSnapshotsSafe
    <3>2. \A s \in snaps' : New(k, s) => s.id \notin Ignored
      BY <1>1, <1>2, <1>12, <2>1 DEF OldSnapshotsSafe
    <3>3. ASSUME NEW r \in k.lastRevs
          PROVE  /\ Running(r[1])' => bk'[r[1]].rev > r[2]
                 /\ \E s \in snaps' : s.id = r[1] /\ s.rev >= r[2]
      BY <1>1, <1>5, <2>1, <2>2 DEF OldSnapshotsSafe
    <3> QED  BY <3>1, <3>2, <3>3 DEF OldSnapshotsSafe, New
  <2>4. LateSnapshotCovers(k)'
    <3> SUFFICES ASSUME NEW s \in snaps', New(k, s), Late(k, s)
                 PROVE  /\ \A u \in snaps' : u.id = s.id /\ u.rev > s.rev =>
                              u.chunks \cap k.fossils \subseteq live \cup s.chunks
                        /\ Running(s.id)' => (bk'[s.id].refs \cup bk'[s.id].cache) \cap k.fossils
                                                \subseteq live \cup s.chunks
      BY <1>4 DEF LateSnapshotCovers, New, Late
    <3>1. CASE s = s0
      <4>1. \A u \in snaps : u.id = x => ~(u.rev > s0.rev)
        BY <1>2, <1>3 DEF TypeOK, Snapshot, BackupState
      <4>2. ~(s0.rev > s0.rev)
        BY <1>2, <1>3
      <4> QED  BY <3>1, <4>1, <4>2, <1>1, <1>2, <1>5
    <3>2. CASE s \in snaps
      <4>1. \A u \in snaps : u.id = s.id /\ u.rev > s.rev =>
               u.chunks \cap k.fossils \subseteq live \cup s.chunks
        BY <2>1, <3>2 DEF LateSnapshotCovers
      <4>2. Running(s.id) => (bk[s.id].refs \cup bk[s.id].cache) \cap k.fossils
                                \subseteq live \cup s.chunks
        BY <2>1, <3>2 DEF LateSnapshotCovers
      <4>3. s.id \in Ids
        BY <3>2 DEF TypeOK, Snapshot
      <4>4. s0.id = s.id => s0.chunks \cap k.fossils \subseteq live \cup s.chunks
        BY <4>2, <1>1, <1>2
      <4> QED  BY <4>1, <4>2, <4>3, <4>4, <1>1, <1>5
    <3> QED  BY <3>1, <3>2, <1>1
  <2> QED  BY <2>3, <2>4
<1>14. ListingMisses'
  <2>1. /\ listed \subseteq snaps
        /\ pc \in {"idle", "draining", "deleting"} => listed = {}
        /\ pc \in {"list", "collections", "dropping", "collecting"} =>
              \A s \in snaps \ listed : s.id \notin toList =>
                  /\ \A u \in listed : u.id = s.id => u.rev < s.rev
                  /\ \A k \in colls : New(k, s)
                  /\ ~opts.exclusive
                  /\ s.id \notin Ignored
                  /\ Deciding => ListedRecently(s.id)
        /\ Deciding => \A y \in Ids \ toList : Running(y) => ListedRecently(y)
    BY DEF IInv, ListingMisses
  <2>2. pc \in {"list", "collections", "dropping", "collecting"} /\ x \notin toList =>
           /\ \A u \in listed : u.id = x => u.rev < s0.rev
           /\ \A k \in colls : New(k, s0)
           /\ ~opts.exclusive
           /\ x \notin Ignored
           /\ Deciding => ListedRecently(x)
    BY <1>1, <1>2, <1>3, <1>12, <2>1 DEF NothingPending, Protected
  <2>3. (Deciding' <=> Deciding) /\ \A y : ListedRecently(y)' <=> ListedRecently(y)
    BY <1>4 DEF Deciding, ListedRecently, Latest
  <2>4. pc \in {"list", "collections", "dropping", "collecting"} =>
              \A s \in snaps' \ listed : s.id \notin toList =>
                  /\ \A u \in listed : u.id = s.id => u.rev < s.rev
                  /\ \A k \in colls : New(k, s)
                  /\ ~opts.exclusive
                  /\ s.id \notin Ignored
                  /\ Deciding => ListedRecently(s.id)
    BY <1>1, <1>2, <2>1, <2>2
  <2>5. Deciding => \A y \in Ids \ toList : Running(y)' => ListedRecently(y)
    BY <2>1, <1>5
  <2> QED  BY <1>1, <1>4, <2>1, <2>3, <2>4, <2>5 DEF ListingMisses, New
<1>15. CollectingSafe'
  <2>1. ~opts.exclusive => \A s \in flagged : \E u \in snaps' \ flagged :
                              u.id = s.id /\ u.rev > s.rev
    BY <1>1 DEF IInv, CollectingSafe
  <2> QED  BY <1>4, <2>1 DEF IInv, CollectingSafe, ChunksOf
<1>16. TasksSafe'
  <2>1. TasksFindTheirChunk'
    BY <1>4 DEF IInv, TasksSafe, TasksFindTheirChunk
  <2> QED  BY <1>4, <1>7, <2>1 DEF IInv, TasksSafe
<1> QED  BY <1>8, <1>9, <1>10, <1>11, <1>13, <1>14, <1>15, <1>16 DEF IInv

-----------------------------------------------------------------------------
(* The prune command.  Its own steps leave the storage alone, except for   *)
(* the deletion of snapshots.                                              *)

(* What a prune step leaves alone with the storage, the clock, the backups *)
(* and the doomed snapshots.                                               *)
LEMMA SameStorage ==
    ASSUME IInv, UNCHANGED <<storage, now, bk>>, Doomed' = Doomed
    PROVE  /\ \A c : Needed(c)' <=> Needed(c)
           /\ NeededExist' /\ SnapshotsInOrder'
           /\ \A x \in Ids : Running(x)' <=> Running(x)
           /\ \A x, t : Protected(x, t)' <=> Protected(x, t)
           /\ \A k : OldSnapshotsSafe(k)' <=> OldSnapshotsSafe(k)
           /\ \A k : LateSnapshotCovers(k)' <=> LateSnapshotCovers(k)
<1>1. /\ live' = live /\ fossil' = fossil /\ snaps' = snaps /\ now' = now /\ bk' = bk
  BY DEF storage
<1>2. \A c : Needed(c)' <=> Needed(c)
  BY <1>1 DEF Needed
<1>3. NeededExist'
  BY <1>1, <1>2 DEF IInv, NeededExist
<1>4. SnapshotsInOrder'
  BY <1>1 DEF IInv, SnapshotsInOrder, Running
<1>5. \A x \in Ids : Running(x)' <=> Running(x)
  BY <1>1 DEF Running
<1>6. \A x, t : Protected(x, t)' <=> Protected(x, t)
  BY <1>1 DEF Protected, Latest
<1>7. \A k : OldSnapshotsSafe(k)' <=> OldSnapshotsSafe(k)
  BY <1>1 DEF OldSnapshotsSafe, New, Running
<1>8. \A k : LateSnapshotCovers(k)' <=> LateSnapshotCovers(k)
  BY <1>1 DEF LateSnapshotCovers, New, Late, Running
<1> QED  BY <1>2, <1>3, <1>4, <1>5, <1>6, <1>7, <1>8

(* The parts of ListingMisses, for reference by the proofs that follow. *)
LEMMA ListingFacts ==
    ASSUME IInv
    PROVE  /\ listed \subseteq snaps
           /\ pc \in {"idle", "draining", "deleting"} => listed = {}
           /\ pc \in {"list", "collections", "dropping", "collecting"} =>
                 \A s \in snaps \ listed : s.id \notin toList =>
                     /\ \A u \in listed : u.id = s.id => u.rev < s.rev
                     /\ \A k \in colls : New(k, s)
                     /\ ~opts.exclusive
                     /\ s.id \notin Ignored
                     /\ Deciding => ListedRecently(s.id)
           /\ Deciding => \A x \in Ids \ toList : Running(x) => ListedRecently(x)
BY DEF IInv, ListingMisses

(* A prune command starts only while its view can cover every backup. *)
LEMMA StartPruneInv ==
    ASSUME Relax = {}, TypeOK, IInv, NEW o \in PruneOptions, MayPrune(o), StartPrune(o)
    PROVE  IInv'
<1>1. /\ pc = "idle" /\ pc' = "list" /\ opts' = o /\ toList' = {s.id : s \in snaps}
      /\ UNCHANGED <<storage, now, bk>>
      /\ colls' = colls /\ listed' = listed /\ todo' = todo /\ cur' = cur /\ flagged' = flagged
      /\ gathered' = gathered /\ tasks' = tasks
  BY DEF StartPrune
<1>2. /\ ~opts.exclusive /\ todo = {} /\ cur = {} /\ tasks = {} /\ listed = {}
      /\ flagged = {} /\ gathered = {}
  BY <1>1 DEF IInv, ExclusiveAlone, CollectionsApart, ListingMisses, CollectingSafe
<1>3. Doomed' = Doomed
  BY <1>1, <1>2 DEF Doomed
<1>4. /\ \A x \in Ids : Running(x) => Protected(x, now)
      /\ o.exclusive => colls = {} /\ \A x \in Ids : ~Running(x)
  BY DEF MayPrune, Assumed
<1>5. snaps' = snaps /\ now' = now
  BY <1>1 DEF storage
<1>6. RunningProtected' /\ ExclusiveAlone'
  BY <1>1, <1>3, <1>4, <1>5, SameStorage DEF RunningProtected, ExclusiveAlone
<1>7. CollectionsApart'
  BY <1>1, <1>2 DEF IInv, CollectionsApart
<1>8. PendingCollections'
  BY <1>1, <1>3, SameStorage DEF IInv, PendingCollections
<1>9. ListingMisses'
  <2>1. \A x \in Ids : Running(x)' => x \in toList'
    BY <1>1, <1>3, <1>4, SameStorage DEF Protected
  <2> QED  BY <1>1, <1>2, <1>5, <2>1 DEF ListingMisses
<1>10. CollectingSafe' /\ TasksSafe'
  BY <1>1, <1>2 DEF CollectingSafe, TasksSafe, TasksFindTheirChunk
<1> QED  BY <1>1, <1>3, <1>6, <1>7, <1>8, <1>9, <1>10, SameStorage DEF IInv

(* Listing an id: what is missed later is newer than what is read now. *)
LEMMA ListRevisionsInv ==
    ASSUME Relax = {}, TypeOK, IInv, NEW x \in toList, ListRevisions(x)
    PROVE  IInv'
<1>1. /\ pc = "list" /\ pc' = "list" /\ opts' = opts /\ toList' = toList \ {x}
      /\ listed' = listed \cup {s \in snaps : s.id = x}
      /\ UNCHANGED <<storage, now, bk>> /\ snaps' = snaps /\ now' = now
      /\ colls' = colls /\ todo' = todo /\ cur' = cur /\ flagged' = flagged
      /\ gathered' = gathered /\ tasks' = tasks
  BY DEF ListRevisions, storage
<1>2. Doomed' = Doomed /\ flagged = {} /\ gathered = {} /\ tasks = {}
  BY <1>1 DEF Doomed, IInv, CollectingSafe, CollectionsApart
<1>3. RunningProtected' /\ ExclusiveAlone'
  BY <1>1, <1>2, SameStorage DEF IInv, RunningProtected, NothingPending, ExclusiveAlone
<1>4. CollectionsApart'
  BY <1>1 DEF IInv, CollectionsApart
<1>5. PendingCollections'
  BY <1>1, <1>2, SameStorage DEF IInv, PendingCollections
<1>6. ListingMisses'
  <2>1. listed' \subseteq snaps
    BY <1>1, ListingFacts
  <2>2. ASSUME NEW y, y # x, ListedRecently(y)  PROVE ListedRecently(y)'
    BY <1>1, <2>2 DEF ListedRecently, Latest
  <2>3. Deciding /\ Deciding'
    BY <1>1 DEF Deciding
  <2>4. ASSUME NEW s \in snaps \ listed', s.id \notin toList'
        PROVE  /\ \A u \in listed' : u.id = s.id => u.rev < s.rev
               /\ \A k \in colls : New(k, s)
               /\ ~opts.exclusive
               /\ s.id \notin Ignored
               /\ ListedRecently(s.id)'
    <3>1. s.id # x /\ s \notin listed /\ s.id \notin toList
      BY <1>1, <2>4
    <3> QED  BY <1>1, <2>2, <2>3, <3>1, ListingFacts
  <2>5. ASSUME NEW y \in Ids, y \notin toList', Running(y)  PROVE ListedRecently(y)'
    <3>1. CASE y # x
      BY <1>1, <2>2, <2>3, <2>5, <3>1, ListingFacts
    <3>2. CASE y = x
      <4>1. Protected(x, now)
        BY <1>1, <2>5, <3>2 DEF IInv, RunningProtected, NothingPending
      <4>2. PICK s \in snaps : s.id = x /\ Latest(snaps, s) /\ s.endTime >= now - MaxRunningTime
        BY <4>1 DEF Protected
      <4>3. s \in listed' /\ Latest(listed', s)
        BY <1>1, <2>1, <4>2 DEF Latest
      <4> QED  BY <1>1, <3>2, <4>1, <4>2, <4>3 DEF ListedRecently, Protected, Latest
    <3> QED  BY <3>1, <3>2
  <2> QED  BY <1>1, <1>2, <2>1, <2>3, <2>4, <2>5, SameStorage DEF ListingMisses, New
<1>7. CollectingSafe' /\ TasksSafe'
  BY <1>1, <1>2 DEF CollectingSafe, TasksSafe, TasksFindTheirChunk
<1> QED  BY <1>1, <1>2, <1>3, <1>4, <1>5, <1>6, <1>7, SameStorage DEF IInv

(* Steps on what has been listed: what has been read stays as it is, fewer *)
(* collections are pending or left to process, and no task is added.       *)
LEMMA DecidingStepInv ==
    ASSUME TypeOK, IInv, UNCHANGED <<storage, now, bk, toList, listed, flagged, gathered, tasks>>,
           pc \in {"list", "collections", "dropping"}, pc' \in {"collections", "dropping"},
           toList = {}, opts'.exclusive = opts.exclusive,
           colls' \subseteq colls, colls' \ cur' \subseteq colls \ cur,
           todo' \subseteq colls' \ cur', cur' \subseteq colls', cur' # {} => pc' = "dropping"
    PROVE  IInv'
<1>1. /\ flagged = {} /\ gathered = {} /\ Doomed' = Doomed
  BY DEF Doomed, IInv, CollectingSafe
<1>2. RunningProtected' /\ ExclusiveAlone'
  BY <1>1, SameStorage DEF IInv, RunningProtected, NothingPending, ExclusiveAlone
<1>3. CollectionsApart'
  BY <1>1 DEF IInv, CollectionsApart
<1>4. PendingCollections'
  BY <1>1, SameStorage DEF IInv, PendingCollections
<1>5. ListingMisses'
  <2>1. Deciding /\ (\A y : ListedRecently(y)' <=> ListedRecently(y)) /\ snaps' = snaps
    BY DEF Deciding, ListedRecently, Latest, storage
  <2>2. \A s \in snaps \ listed :
            /\ \A u \in listed : u.id = s.id => u.rev < s.rev
            /\ \A k \in colls : New(k, s)
            /\ ~opts.exclusive
            /\ s.id \notin Ignored
            /\ ListedRecently(s.id)
    BY <2>1, ListingFacts
  <2>3. \A x \in Ids : Running(x)' => ListedRecently(x)
    BY <1>1, <2>1, ListingFacts, SameStorage
  <2> QED  BY <2>1, <2>2, <2>3, ListingFacts DEF ListingMisses, New
<1>6. CollectingSafe'
  BY <1>1 DEF CollectingSafe
<1>7. TasksSafe'
  <2>1. TasksFindTheirChunk' /\ \A c : Needed(c)' <=> Needed(c)
    BY <1>1, SameStorage DEF IInv, TasksSafe, TasksFindTheirChunk, storage
  <2>2. live' = live /\ pc # "collecting" /\ pc' # "collecting" /\ tasks' = tasks
    BY DEF storage
  <2> QED  BY <2>1, <2>2 DEF IInv, TasksSafe
<1> QED  BY <1>1, <1>2, <1>3, <1>4, <1>5, <1>6, <1>7, SameStorage DEF IInv

(* Listing the collections. *)
LEMMA ListCollectionsInv ==
    ASSUME TypeOK, IInv, ListCollections
    PROVE  IInv'
<1>1. opts \in Options /\ cur = {} /\ todo' \subseteq colls
  BY DEF ListCollections, TypeOK, IInv, CollectionsApart
<1>2. opts'.exclusive = opts.exclusive
  BY <1>1 DEF ListCollections, Options
<1> QED  BY <1>1, <1>2, DecidingStepInv DEF ListCollections

(* A collection that is postponed, or ignored because of a ghost. *)
LEMMA SkipCollectionInv ==
    ASSUME TypeOK, IInv, NEW k \in todo, GhostCollection(k) \/ PostponeCollection(k)
    PROVE  IInv'
<1>1. todo \subseteq colls /\ cur = {} /\ pc = "collections" /\ toList = {}
  BY DEF IInv, CollectionsApart, GhostCollection, PostponeCollection
<1>2. CASE GhostCollection(k)
  BY <1>1, <1>2, DecidingStepInv DEF GhostCollection
<1>3. CASE PostponeCollection(k)
  BY <1>1, <1>3, DecidingStepInv DEF PostponeCollection
<1> QED  BY <1>2, <1>3

(* Removing the file of a collection whose fossils are queued. *)
LEMMA DropCollectionInv ==
    ASSUME TypeOK, IInv, DropCollection
    PROVE  IInv'
<1>1. todo \subseteq colls \ cur /\ toList = {} /\ cur \subseteq colls
  BY DEF DropCollection, IInv, CollectionsApart
<1> QED  BY <1>1, DecidingStepInv DEF DropCollection

-----------------------------------------------------------------------------
(* The decision to delete fossils for good.                                *)

(* If some late snapshot of an id was listed, there is a first one, whose  *)
(* chunks are all resurrected.                                             *)
LEMMA FirstLate ==
    ASSUME TypeOK, NEW k, NEW l \in Considered, New(k, l), Late(k, l), IsDeletable(k)
    PROVE  \E f \in Considered :
              /\ f.id = l.id /\ New(k, f) /\ Late(k, f)
              /\ \A u \in Considered : u.id = l.id /\ New(k, u) /\ Late(k, u) => f.rev <= u.rev
              /\ f.chunks \subseteq NewChunks(k)
<1> DEFINE T == {u \in Considered : u.id = l.id /\ New(k, u) /\ Late(k, u)}
           R == {u.rev : u \in T}
<1>1. R \in SUBSET Nat /\ R # {}
  BY DEF Considered, TypeOK, Snapshot
<1>2. PICK m \in R : \A n \in R : m <= n
  BY <1>1, SmallestExists
<1>3. PICK f \in T : f.rev = m
  OBVIOUS
<1>4. \A u \in Considered : u.id = l.id /\ New(k, u) /\ Late(k, u) => f.rev <= u.rev
  BY <1>2, <1>3
<1>5. f \in NewSnapshots(k)
  BY <1>3, <1>4 DEF NewSnapshots
<1>6. f.chunks \subseteq NewChunks(k)
  BY <1>5 DEF NewChunks
<1> QED  BY <1>3, <1>4, <1>6

(* A repository that was listed recently is not dormant, so a deletable    *)
(* collection has seen a late snapshot of it.                              *)
LEMMA RecentHasLate ==
    ASSUME Relax = {}, TypeOK, IInv, NEW k, IsDeletable(k), NEW x \in Ids, ListedRecently(x)
    PROVE  \E l \in Considered : l.id = x /\ New(k, l) /\ Late(k, l)
<1>1. PICK w \in listed : w.id = x /\ Latest(listed, w) /\ w.endTime >= now - MaxRunningTime
  BY DEF ListedRecently
<1>2. w \in Considered /\ w.endTime \in Nat /\ now \in Nat /\ MaxRunningTime \in Nat
  BY <1>1, Constants DEF ListedRecently, Considered, TypeOK, Snapshot
<1>3. ~Dormant(HostOf[x])
  <2>1. ~(w.endTime < now - MaxRunningTime)
    BY <1>1, <1>2
  <2> QED  BY <1>1, <1>2, <2>1 DEF Dormant
<1>4. HasNewSnapshot(k, HostOf[x])
  BY <1>1, <1>2, <1>3 DEF IsDeletable
<1>5. PICK l \in Considered : HostOf[l.id] = HostOf[x] /\ New(k, l) /\ Late(k, l)
  BY <1>4 DEF HasNewSnapshot
<1>6. l.id = x
  BY <1>5, OneIdPerHost DEF Assumed, Considered, TypeOK, Snapshot
<1> QED  BY <1>5, <1>6

(* A fossil that is deleted for good is needed by nobody, or there is a    *)
(* chunk of the same name by now.                                          *)
LEMMA DeletedFossilsUnneeded ==
    ASSUME Relax = {}, TypeOK, IInv, pc = "collections", NEW k \in colls,
           ~HasGhost(k), IsDeletable(k), ~opts.exclusive,
           NEW c \in k.fossils, c \notin NewChunks(k), Needed(c)
    PROVE  c \in live
<1>1. toList = {} /\ Deciding /\ Doomed = {}
  BY DEF IInv, CollectionsApart, Deciding, Doomed
<1>2. OldSnapshotsSafe(k) /\ LateSnapshotCovers(k)
  BY DEF IInv, PendingCollections
<1>3. /\ listed \subseteq snaps
      /\ \A s \in snaps \ listed :
            /\ \A u \in listed : u.id = s.id => u.rev < s.rev
            /\ New(k, s)
            /\ ListedRecently(s.id)
      /\ \A x \in Ids : Running(x) => ListedRecently(x)
  BY <1>1, ListingFacts
<1>4. ASSUME NEW x \in Ids, c \in bk[x].refs \cup bk[x].cache  PROVE c \in live
  <2>1. Running(x)
    BY <1>4 DEF IInv, SnapshotsInOrder, NoBackup
  <2>2. PICK l \in Considered : l.id = x /\ New(k, l) /\ Late(k, l)
    BY <1>3, <2>1, RecentHasLate
  <2>3. PICK f \in Considered : f.id = x /\ New(k, f) /\ Late(k, f) /\ f.chunks \subseteq NewChunks(k)
    BY <2>2, FirstLate
  <2>4. f \in snaps
    BY <1>3, <2>3 DEF Considered
  <2>5. c \in live \cup f.chunks
    BY <1>2, <1>4, <2>1, <2>3, <2>4 DEF LateSnapshotCovers
  <2> QED  BY <2>3, <2>5
<1>5. ASSUME NEW s \in snaps, c \in s.chunks  PROVE c \in live
  <2>1. s.rev \in Nat /\ s.id \in Ids
    BY DEF TypeOK, Snapshot
  <2>2. New(k, s)
    BY <1>2, <1>3, <1>5 DEF HasGhost, OldSnapshotsSafe
  <2>3. ASSUME NEW l \in Considered, l.id = s.id, New(k, l), Late(k, l)
        PROVE  c \in live
    <3>1. PICK f \in Considered :
             /\ f.id = s.id /\ New(k, f) /\ Late(k, f) /\ f.chunks \subseteq NewChunks(k)
             /\ \A u \in Considered : u.id = s.id /\ New(k, u) /\ Late(k, u) => f.rev <= u.rev
      BY <2>3, FirstLate
    <3>2. f \in snaps /\ f \in listed /\ f.rev \in Nat
      BY <1>3, <3>1 DEF Considered, TypeOK, Snapshot
    <3>3. CASE s.rev > f.rev
      BY <1>2, <1>5, <3>1, <3>2, <3>3 DEF LateSnapshotCovers
    <3>4. CASE s.rev <= f.rev
      <4>1. s \in listed
        BY <1>3, <3>1, <3>2, <3>4, <2>1
      <4>2. s \in Considered
        BY <4>1, <2>2, <1>2 DEF Considered, OldSnapshotsSafe
      <4>3. \A u \in Considered : u.id = s.id /\ New(k, u) /\ Late(k, u) => s.rev <= u.rev
        BY <3>1, <3>2, <3>4, <2>1 DEF Considered, TypeOK, Snapshot
      <4>4. s \in NewSnapshots(k)
        BY <4>2, <4>3, <2>2 DEF NewSnapshots
      <4> QED  BY <4>4, <1>5 DEF NewChunks
    <3> QED  BY <3>2, <3>3, <3>4, <2>1
  <2>4. CASE s \notin listed
    BY <1>3, <2>1, <2>3, <2>4, RecentHasLate
  <2>5. CASE s \in listed /\ \A l \in Considered : ~(l.id = s.id /\ New(k, l) /\ Late(k, l))
    <3>1. s \in Considered
      BY <2>5, <2>2, <1>2 DEF Considered, OldSnapshotsSafe
    <3>2. s \in NewSnapshots(k)
      BY <3>1, <2>2, <2>5 DEF NewSnapshots
    <3> QED  BY <3>2, <1>5 DEF NewChunks
  <2> QED  BY <2>3, <2>4, <2>5
<1> QED  BY <1>1, <1>4, <1>5 DEF Needed

(* Queueing the fossils of a deletable collection. *)
LEMMA DeleteFossilsInv ==
    ASSUME Relax = {}, TypeOK, IInv, NEW k \in todo, DeleteFossils(k)
    PROVE  IInv'
<1>1. /\ pc = "collections" /\ todo \subseteq colls /\ cur = {} /\ toList = {} /\ ~opts.exclusive
  BY DEF DeleteFossils, IInv, CollectionsApart, ExclusiveAlone
<1>2. /\ ~HasGhost(k) /\ IsDeletable(k) /\ pc' = "dropping" /\ cur' = {k} /\ todo' = todo \ {k}
      /\ UNCHANGED <<storage, now, bk, colls, opts, toList, listed, flagged, gathered>>
  BY <1>1 DEF DeleteFossils
<1>3. flagged = {} /\ gathered = {} /\ Doomed' = Doomed /\ Doomed = {} /\ live' = live
      /\ fossil' = fossil /\ snaps' = snaps /\ now' = now
  BY <1>1, <1>2 DEF Doomed, IInv, CollectingSafe, storage
<1>4. RunningProtected' /\ ExclusiveAlone'
  BY <1>1, <1>2, <1>3, SameStorage DEF IInv, RunningProtected, NothingPending, ExclusiveAlone
<1>10. \A t \in tasks : t.chunk \notin k.fossils
  BY <1>1 DEF IInv, CollectionsApart
<1>11. \A t \in tasks' : t \in tasks \/
          /\ t.chunk \in k.fossils
          /\ \/ t.op = "resurrect" /\ t.chunk \in NewChunks(k)
             \/ t.op = "deleteFossil" /\ t.chunk \notin NewChunks(k)
  BY DEF DeleteFossils, Task
<1>5. CollectionsApart'
  <2>1. \A l \in colls \ {k} : l.fossils \cap k.fossils = {}
    BY <1>1 DEF IInv, CollectionsApart
  <2>2. \A l \in colls \ {k} : \A t \in tasks' : t.chunk \notin l.fossils
    BY <1>1, <1>11, <2>1 DEF IInv, CollectionsApart
  <2> QED  BY <1>1, <1>2, <1>3, <2>2 DEF IInv, CollectionsApart
<1>6. PendingCollections'
  BY <1>2, <1>3, SameStorage DEF IInv, PendingCollections
<1>7. ListingMisses'
  <2>1. Deciding /\ (\A y : ListedRecently(y)' <=> ListedRecently(y))
    BY <1>1, <1>2, <1>3 DEF Deciding, ListedRecently, Latest
  <2>2. \A s \in snaps \ listed :
            /\ \A u \in listed : u.id = s.id => u.rev < s.rev
            /\ \A l \in colls : New(l, s)
            /\ ~opts.exclusive
            /\ s.id \notin Ignored
            /\ ListedRecently(s.id)
    BY <1>1, <2>1, ListingFacts
  <2>3. \A x \in Ids : Running(x)' => ListedRecently(x)
    BY <1>1, <1>2, <1>3, <2>1, ListingFacts, SameStorage
  <2> QED  BY <1>1, <1>2, <1>3, <2>1, <2>2, <2>3, ListingFacts DEF ListingMisses, New
<1>8. CollectingSafe'
  BY <1>2, <1>3 DEF CollectingSafe
<1>9. TasksSafe'
  <2>1. k \in colls /\ k.fossils \in SUBSET Chunks
    BY <1>1 DEF TypeOK, Collection
  <2>3. \A c \in NewChunks(k) : Needed(c)
    <3> SUFFICES ASSUME NEW s \in NewSnapshots(k), NEW c \in s.chunks  PROVE Needed(c)
      BY DEF NewChunks
    <3>1. s \in snaps
      BY ListingFacts DEF NewSnapshots, Considered
    <3> QED  BY <1>3, <3>1 DEF Needed
  <2>4. \A c \in k.fossils : c \notin NewChunks(k) /\ Needed(c) => c \in live
    BY <1>1, <1>2, <2>1, DeletedFossilsUnneeded
  <2>5. \A c : Needed(c)' <=> Needed(c)
    BY <1>2, <1>3, SameStorage
  <2>6. TasksFindTheirChunk'
    BY <1>3, <1>11, <2>1, <2>3 DEF TasksFindTheirChunk, IInv, NeededExist, TasksSafe
  <2>7. \A t \in tasks :
          /\ t.op \notin {"fossilize", "deleteChunk"}
          /\ t.op = "deleteFossil" => (Needed(t.chunk) => t.chunk \in live)
          /\ t.op = "resurrect" => \A u \in tasks :
                u.chunk = t.chunk => u.op \notin {"deleteFossil", "deleteChunk"}
    BY <1>1 DEF IInv, TasksSafe
  <2>8. \A t \in tasks' :
          /\ t.op \notin {"fossilize", "deleteChunk"}
          /\ t.op = "deleteFossil" => (Needed(t.chunk) => t.chunk \in live)
    BY <1>11, <2>4, <2>7
  <2>9. \A t, u \in tasks' : t.op = "resurrect" /\ u.chunk = t.chunk => u.op # "deleteFossil"
    BY <1>10, <1>11, <2>7
  <2> QED  BY <1>1, <1>2, <1>3, <2>5, <2>6, <2>8, <2>9 DEF TasksSafe
<1> QED  BY <1>2, <1>3, <1>4, <1>5, <1>6, <1>7, <1>8, <1>9, SameStorage DEF IInv

(* The prune command ends, with no snapshot doomed, wherever it is. *)
LEMMA PrunerGoneInv ==
    ASSUME TypeOK, IInv, Doomed = {}, PrunerGone, tasks' = {}, UNCHANGED <<storage, now, bk, colls>>
    PROVE  IInv'
<1>1. Doomed' = Doomed /\ ~opts'.exclusive
  BY DEF Doomed, PrunerGone, NoOptions
<1>2. RunningProtected' /\ ExclusiveAlone'
  BY <1>1, SameStorage DEF IInv, RunningProtected, NothingPending, PrunerGone, ExclusiveAlone
<1>3. CollectionsApart'
  BY DEF IInv, CollectionsApart, PrunerGone
<1>4. PendingCollections'
  BY <1>1, SameStorage DEF IInv, PendingCollections
<1>5. ListingMisses'
  BY DEF ListingMisses, PrunerGone, Deciding
<1>6. CollectingSafe' /\ TasksSafe'
  BY DEF CollectingSafe, PrunerGone, TasksSafe, TasksFindTheirChunk
<1> QED  BY <1>1, <1>2, <1>3, <1>4, <1>5, <1>6, SameStorage DEF IInv

(* The prune command ends or is killed. *)
LEMMA EndPruneInv ==
    ASSUME TypeOK, IInv, Drained \/ FinishPrune \/ (MayCrash /\ CrashPrune)
    PROVE  IInv'
<1>1. Doomed = {} /\ PrunerGone /\ tasks' = {} /\ UNCHANGED <<storage, now, bk, colls>>
  BY DEF Drained, FinishPrune, CrashPrune, MayCrash, IInv, CollectingSafe, CollectionsApart, Doomed
<1> QED  BY <1>1, PrunerGoneInv

(* What is left of a prune that only waits for its workers. *)
LEMMA StartDrainingInv ==
    ASSUME TypeOK, IInv, pc = "collections", pc' = "draining", listed' = {}, todo = {},
           opts'.exclusive = opts.exclusive,
           UNCHANGED <<storage, now, bk, colls, toList, todo, cur, flagged, gathered, tasks>>
    PROVE  IInv'
<1>1. Doomed' = Doomed /\ live' = live /\ fossil' = fossil
  BY DEF Doomed, storage
<1>2. RunningProtected' /\ ExclusiveAlone'
  BY <1>1, SameStorage DEF IInv, RunningProtected, NothingPending, ExclusiveAlone
<1>3. CollectionsApart'
  BY DEF IInv, CollectionsApart
<1>4. PendingCollections'
  BY <1>1, SameStorage DEF IInv, PendingCollections
<1>5. ListingMisses'
  BY DEF ListingMisses, Deciding
<1>6. CollectingSafe'
  BY DEF CollectingSafe, IInv
<1>7. TasksSafe'
  <2>1. TasksFindTheirChunk' /\ \A c : Needed(c)' <=> Needed(c)
    BY <1>1, SameStorage DEF IInv, TasksSafe, TasksFindTheirChunk
  <2> QED  BY <1>1, <2>1 DEF IInv, TasksSafe
<1> QED  BY <1>1, <1>2, <1>3, <1>4, <1>5, <1>6, <1>7, SameStorage DEF IInv

(* The end of prune -delete-only. *)
LEMMA FinishDeleteOnlyInv ==
    ASSUME TypeOK, IInv, FinishDeleteOnly
    PROVE  IInv'
<1>1. opts'.exclusive = opts.exclusive
  BY DEF FinishDeleteOnly, TypeOK, Options
<1> QED  BY <1>1, StartDrainingInv DEF FinishDeleteOnly

-----------------------------------------------------------------------------
(* Collecting.                                                             *)

(* A non-empty set of natural numbers below a bound has a largest element. *)
LEMMA LargestExists ==
    ASSUME NEW T \in SUBSET Nat, T # {}, NEW b \in Nat, \A n \in T : n <= b
    PROVE  \E m \in T : \A n \in T : n <= m
<1> DEFINE D == {b - n : n \in T}
<1>5. \A n \in T : n \in Nat /\ b - n \in Nat
  OBVIOUS
<1>6. D \in SUBSET Nat
  BY <1>5
<1>1. D \in SUBSET Nat /\ D # {}
  BY <1>6
<1>2. PICK d \in D : \A e \in D : d <= e
  BY <1>1, SmallestExists
<1>3. PICK m \in T : d = b - m
  OBVIOUS
<1>4. ASSUME NEW n \in T  PROVE n <= m
  <2>1. b - m <= b - n
    BY <1>2, <1>3
  <2> QED  BY <2>1
<1> QED  BY <1>4

(* What the collecting run is about to do to a chunk. *)
LEMMA SelectedTasks ==
    ASSUME TypeOK, IInv, NEW F \in SUBSET listed, NEW n,
           NEW t \in TargetTasks(F, n) \cup ExhaustiveTasks(F, n)
    PROVE  \/ /\ t.op = IF opts.exclusive THEN "deleteChunk" ELSE "fossilize"
              /\ t.chunk \notin ChunksOf(listed \ F)
              /\ t.chunk \in live \/ t.chunk \in ChunksOf(F)
           \/ t.op = "resurrect" /\ t.chunk \in ChunksOf(listed \ F) /\ t.chunk \in fossil
           \/ t.op = "deleteFossil" /\ opts.exclusive /\ t.chunk \notin ChunksOf(listed \ F)
<1>1. CASE t \in TargetTasks(F, n)
  BY <1>1 DEF TargetTasks, Task
<1>2. CASE t \in ExhaustiveTasks(F, n)
  <2>1. CASE t \in {Task(IF opts.exclusive THEN "deleteChunk" ELSE "fossilize", c, n) :
                       c \in live \ ChunksOf(listed \ F)}
    BY <2>1 DEF Task
  <2>2. CASE t \in {Task("resurrect", c, n) :
              c \in {d \in fossil : ~InReferencedFossils(d) /\ d \in ChunksOf(listed \ F)}}
    BY <2>2 DEF Task
  <2>3. CASE opts.exclusive /\ t \in {Task("deleteFossil", c, n) : c \in OrphanFossils(F)}
    BY <2>3 DEF Task, OrphanFossils
  <2> QED  BY <1>2, <2>1, <2>2, <2>3 DEF ExhaustiveTasks
<1> QED  BY <1>1, <1>2

(* Their chunks do not depend on the number of the batch. *)
LEMMA SelectedChunks ==
    ASSUME NEW F, NEW n,
           NEW t \in IF opts.exhaustive THEN ExhaustiveTasks(F, n) ELSE TargetTasks(F, n)
    PROVE  t.chunk \in Collected(F)
<1> DEFINE T == IF opts.exhaustive THEN ExhaustiveTasks(F, batch) ELSE TargetTasks(F, batch)
           remove == IF opts.exclusive THEN "deleteChunk" ELSE "fossilize"
<1>1. \A op, c : Task(op, c, batch) \in T => c \in Collected(F)
  <2> SUFFICES ASSUME NEW op, NEW c, Task(op, c, batch) \in T  PROVE c \in Collected(F)
    OBVIOUS
  <2>1. Task(op, c, batch).chunk = c
    BY DEF Task
  <2> QED  BY <2>1 DEF Collected
<1>2. CASE ~opts.exhaustive
  <2>1. PICK c \in ChunksOf(F) \ ChunksOf(listed \ F) : t = Task(remove, c, n)
    BY <1>2 DEF TargetTasks
  <2>2. Task(remove, c, batch) \in T
    BY <1>2 DEF TargetTasks
  <2>3. t.chunk = c
    BY <2>1 DEF Task
  <2> QED  BY <1>1, <2>2, <2>3
<1>3. CASE opts.exhaustive
  <2>1. CASE t \in {Task(remove, c, n) : c \in live \ ChunksOf(listed \ F)}
    <3>1. PICK c \in live \ ChunksOf(listed \ F) : t = Task(remove, c, n)
      BY <2>1
    <3>2. Task(remove, c, batch) \in T
      BY <1>3 DEF ExhaustiveTasks
    <3>3. t.chunk = c
      BY <3>1 DEF Task
    <3> QED  BY <1>1, <3>2, <3>3
  <2>2. CASE t \in {Task("resurrect", c, n) :
              c \in {d \in fossil : ~InReferencedFossils(d) /\ d \in ChunksOf(listed \ F)}}
    <3>1. PICK c \in {d \in fossil : ~InReferencedFossils(d) /\ d \in ChunksOf(listed \ F)} :
             t = Task("resurrect", c, n)
      BY <2>2
    <3>2. Task("resurrect", c, batch) \in T
      BY <1>3 DEF ExhaustiveTasks
    <3>3. t.chunk = c
      BY <3>1 DEF Task
    <3> QED  BY <1>1, <3>2, <3>3
  <2>3. CASE opts.exclusive /\ t \in {Task("deleteFossil", c, n) : c \in OrphanFossils(F)}
    <3>1. t.chunk \in OrphanFossils(F)
      BY <2>3 DEF Task
    <3> QED  BY <1>3, <3>1 DEF Collected
  <2> QED  BY <1>3, <2>1, <2>2, <2>3 DEF ExhaustiveTasks
<1> QED  BY <1>2, <1>3

(* Choosing the snapshots to delete and queueing their chunks. *)
LEMMA SelectSnapshotsInv ==
    ASSUME Relax = {}, TypeOK, IInv, NEW F \in SUBSET listed, MayCollect(F), SelectSnapshots(F)
    PROVE  IInv'
<1>1. /\ pc = "collections" /\ todo = {}
      /\ toList = {} /\ cur = {} /\ flagged = {} /\ gathered = {}
      /\ listed \subseteq snaps /\ opts.exclusive \in BOOLEAN
      /\ UNCHANGED <<storage, now, bk, colls, toList, todo, cur>>
  BY DEF SelectSnapshots, IInv, CollectionsApart, CollectingSafe, ListingMisses, TypeOK, Options
<1>2. opts'.exclusive = opts.exclusive
  BY DEF SelectSnapshots, TypeOK, Options
<1>3. CASE (F = {} /\ ~opts.exhaustive) \/ (~opts.exclusive /\ ~KeepsLatest(F))
  <2>1. pc' = "draining" /\ listed' = {} /\ UNCHANGED <<flagged, gathered, tasks>>
    BY <1>3 DEF SelectSnapshots
  <2> QED  BY <1>1, <1>2, <2>1, StartDrainingInv
<1>4. CASE ~((F = {} /\ ~opts.exhaustive) \/ (~opts.exclusive /\ ~KeepsLatest(F)))
  <2>1. /\ pc' = "collecting" /\ listed' = listed /\ flagged' = F
        /\ tasks' = tasks \cup IF opts.exhaustive THEN ExhaustiveTasks(F, batch')
                                                  ELSE TargetTasks(F, batch')
        /\ gathered' = IF opts.exhaustive /\ ~opts.exclusive THEN OrphanFossils(F) ELSE {}
        /\ ~opts.exclusive => KeepsLatest(F)
    BY <1>4 DEF SelectSnapshots
  <2>2. /\ live' = live /\ fossil' = fossil /\ snaps' = snaps /\ now' = now /\ bk' = bk
        /\ colls' = colls /\ toList' = toList /\ todo' = todo /\ cur' = cur
    BY <1>1 DEF storage
  <2>3. Doomed = {} /\ (opts.exclusive => Doomed' = F)
    BY <1>1, <1>2, <2>1 DEF Doomed
  <2>4. \A c : Needed(c)' => Needed(c)
    BY <2>2, <2>3 DEF Needed
  <2>5. NeededExist'
    BY <2>2, <2>4 DEF NeededExist, IInv
  <2>6. SnapshotsInOrder'
    BY <2>2 DEF SnapshotsInOrder, IInv, Running
  <2>7. RunningProtected'
    BY <1>1, <2>2 DEF RunningProtected, IInv, NothingPending, Running, Protected, Latest
  <2>8. ExclusiveAlone' /\ PendingCollections'
    BY <1>1, <1>2, <2>1, <2>2
    DEF IInv, ExclusiveAlone, Running, PendingCollections, OldSnapshotsSafe, LateSnapshotCovers, New, Late
  <2>14. Collected(F) \cap Pending = {}
    BY DEF MayCollect, Assumed
  <2>15. \A t \in tasks' \ tasks : t.chunk \in Collected(F)
    BY <2>1, SelectedChunks
  <2>16. CollectionsApart'
    <3>1. \A k \in colls : k.fossils \cap Collected(F) = {}
      BY <2>14 DEF Pending
    <3>2. \A k \in colls : k.fossils \cap gathered' = {}
      BY <2>1, <3>1 DEF Collected
    <3>3. \A k \in colls : \A t \in tasks' : t.chunk \notin k.fossils
      BY <1>1, <2>15, <3>1 DEF IInv, CollectionsApart
    <3> QED  BY <1>1, <2>1, <2>2, <3>2, <3>3 DEF IInv, CollectionsApart
  <2>17. \A t \in tasks, u \in tasks' \ tasks : t.chunk # u.chunk
    BY <2>14, <2>15 DEF Pending
  <2>9. \A s \in snaps \ listed :
            /\ \A u \in listed : u.id = s.id => u.rev < s.rev
            /\ \A k \in colls : New(k, s)
            /\ ~opts.exclusive
            /\ s.id \notin Ignored
    BY <1>1, ListingFacts
  <2>10. ListingMisses'
    BY <1>1, <1>2, <2>1, <2>2, <2>9 DEF ListingMisses, Deciding, New
  <2>11. \A t \in tasks' \ tasks :
           \/ /\ t.op = IF opts.exclusive THEN "deleteChunk" ELSE "fossilize"
              /\ t.chunk \notin ChunksOf(listed \ F)
              /\ t.chunk \in live \/ t.chunk \in ChunksOf(F)
           \/ t.op = "resurrect" /\ t.chunk \in ChunksOf(listed \ F) /\ t.chunk \in fossil
           \/ t.op = "deleteFossil" /\ opts.exclusive /\ t.chunk \notin ChunksOf(listed \ F)
    <3>1. \A t \in tasks' \ tasks : t \in TargetTasks(F, batch') \cup ExhaustiveTasks(F, batch')
      BY <2>1
    <3> QED  BY <3>1, SelectedTasks
  <2>18. \A t \in tasks :
           /\ t.op \notin {"fossilize", "deleteChunk"}
           /\ t.op = "deleteFossil" => IF opts.exclusive THEN ~Needed(t.chunk)
                                       ELSE Needed(t.chunk) => t.chunk \in live
           /\ t.op = "resurrect" => \A u \in tasks :
                 u.chunk = t.chunk => u.op \notin {"deleteFossil", "deleteChunk"}
    BY <1>1 DEF IInv, TasksSafe
  <2>12. CollectingSafe'
    <3>1. gathered' \cap ChunksOf(listed \ F) = {}
      BY <2>1 DEF OrphanFossils
    <3>2. ASSUME ~opts.exclusive, NEW s \in F
          PROVE  \E u \in snaps \ F : u.id = s.id /\ u.rev > s.rev
      <4>1. PICK u \in listed \ F : u.id = s.id /\ Latest(listed, u)
        BY <2>1, <3>2 DEF KeepsLatest
      <4>2. u \in snaps /\ s \in snaps /\ u.rev \in Nat /\ s.rev \in Nat /\ s.rev <= u.rev
        BY <1>1, <4>1 DEF Latest, TypeOK, Snapshot
      <4>3. u.rev # s.rev
        BY <4>1, <4>2 DEF IInv, SnapshotsInOrder
      <4> QED  BY <4>1, <4>2, <4>3
    <3>3. \A t \in tasks' : t.op \in {"fossilize", "deleteChunk"} =>
                               t.chunk \notin ChunksOf(listed \ F)
      BY <2>11, <2>18
    <3>5. ChunksOf(listed' \ flagged') = ChunksOf(listed \ F)
      BY <2>1
    <3> QED  BY <1>2, <2>1, <2>2, <3>1, <3>2, <3>3, <3>5 DEF CollectingSafe, ChunksOf
  <2>13. TasksSafe'
    <3>1. \A c \in ChunksOf(F) : c \in live \cup fossil
      <4> SUFFICES ASSUME NEW s \in F, NEW c \in s.chunks  PROVE c \in live \cup fossil
        BY DEF ChunksOf
      <4>1. s \in snaps /\ c \in Chunks
        BY <1>1 DEF TypeOK, Snapshot
      <4>2. Needed(c)
        BY <2>3, <4>1 DEF Needed
      <4> QED  BY <4>1, <4>2 DEF IInv, NeededExist
    <3>2. TasksFindTheirChunk'
      BY <2>2, <2>11, <3>1 DEF TasksFindTheirChunk, IInv, TasksSafe
    <3>3. ASSUME opts.exclusive, NEW c, c \notin ChunksOf(listed \ F)  PROVE ~Needed(c)'
      <4>1. snaps' \ Doomed' \subseteq listed \ F
        BY <2>2, <2>3, <2>9, <3>3
      <4>2. \A x \in Ids : bk'[x].refs = {} /\ bk'[x].cache = {}
        BY <2>2, <3>3 DEF IInv, ExclusiveAlone, SnapshotsInOrder, NoBackup
      <4> QED  BY <3>3, <4>1, <4>2 DEF Needed, ChunksOf
    <3>4. ASSUME NEW t \in tasks' \ tasks
          PROVE  /\ t.op = "fossilize" => ~opts.exclusive
                 /\ t.op = "deleteChunk" => opts.exclusive /\ ~Needed(t.chunk)'
                 /\ t.op = "deleteFossil" => opts.exclusive /\ ~Needed(t.chunk)'
                 /\ t.op = "resurrect" => \A u \in tasks' \ tasks :
                       u.chunk = t.chunk => u.op \notin {"deleteFossil", "deleteChunk"}
      BY <2>11, <3>3
    <3>5. ASSUME NEW t \in tasks', t.op = "fossilize"  PROVE ~opts.exclusive
      BY <2>18, <3>4, <3>5
    <3>6. ASSUME NEW t \in tasks', t.op = "deleteChunk"  PROVE opts.exclusive /\ ~Needed(t.chunk)'
      BY <2>18, <3>4, <3>6
    <3>7. ASSUME NEW t \in tasks', t.op = "deleteFossil"
          PROVE  IF opts.exclusive THEN ~Needed(t.chunk)'
                 ELSE /\ Needed(t.chunk)' => t.chunk \in live'
                      /\ \A u \in tasks' : u.chunk = t.chunk => u.op # "fossilize"
      <4>1. CASE t \in tasks
        BY <2>2, <2>4, <2>17, <2>18, <3>7, <4>1
      <4>2. CASE t \notin tasks
        BY <3>4, <3>7, <4>2
      <4> QED  BY <4>1, <4>2
    <3>8. ASSUME NEW t \in tasks', t.op = "resurrect", NEW u \in tasks', u.chunk = t.chunk
          PROVE  u.op \notin {"deleteFossil", "deleteChunk"}
      <4>1. CASE t \in tasks /\ u \in tasks
        BY <2>18, <3>8, <4>1
      <4>2. CASE t \notin tasks /\ u \notin tasks
        BY <3>4, <3>8, <4>2
      <4> QED  BY <2>17, <3>8, <4>1, <4>2
    <3> QED  BY <1>2, <2>1, <3>2, <3>5, <3>6, <3>7, <3>8 DEF TasksSafe
  <2> QED  BY <2>5, <2>6, <2>7, <2>8, <2>10, <2>12, <2>13, <2>16 DEF IInv
<1> QED  BY <1>3, <1>4

(* The new collection: no listed snapshot that stays uses its fossils, and *)
(* no snapshot is late yet.                                                *)
LEMMA SaveCollectionInv ==
    ASSUME Relax = {}, TypeOK, IInv, SaveCollection
    PROVE  IInv'
<1>1. /\ pc = "collecting" /\ tasks = {} /\ todo = {} /\ toList = {} /\ cur = {}
      /\ pc' = "deleting" /\ listed' = {} /\ gathered' = {}
      /\ UNCHANGED <<storage, now, bk>> /\ opts' = opts /\ flagged' = flagged /\ tasks' = tasks
      /\ toList' = toList /\ todo' = todo /\ cur' = cur /\ snaps' = snaps /\ bk' = bk
      /\ now' = now
  BY DEF SaveCollection, IInv, CollectionsApart, storage
<1>2. Doomed' = Doomed
  BY <1>1 DEF Doomed
<1> DEFINE k0 == [lastRevs |-> LastRevisions(listed),
                  deleted  |-> {<<s.id, s.rev>> : s \in flagged},
                  fossils  |-> gathered,
                  endTime  |-> now]
<1>3. /\ \A k \in colls' : k \in colls \/ k = k0
      /\ opts.exclusive => colls' = colls
  BY <1>1 DEF SaveCollection
<1>4. /\ k0.lastRevs = LastRevisions(listed) /\ k0.deleted = {<<s.id, s.rev>> : s \in flagged}
      /\ k0.fossils = gathered /\ k0.endTime = now
  OBVIOUS
<1> HIDE DEF k0
<1>5. /\ listed \subseteq snaps
      /\ \A s \in snaps \ listed : /\ \A u \in listed : u.id = s.id => u.rev < s.rev
                                   /\ s.id \notin Ignored
  BY <1>1, ListingFacts
<1>6. ASSUME NEW s \in snaps \ listed  PROVE New(k0, s)
  <2>1. ASSUME NEW r \in k0.lastRevs, r[1] = s.id  PROVE s.rev > r[2]
    <3>1. PICK u \in listed : r = <<u.id, u.rev>>
      BY <1>4 DEF LastRevisions
    <3>2. u.rev < s.rev /\ u.rev \in Nat /\ s.rev \in Nat
      BY <1>5, <2>1, <3>1 DEF TypeOK, Snapshot
    <3> QED  BY <3>1, <3>2
  <2> QED  BY <2>1 DEF New
<1>7. ASSUME NEW s \in listed  PROVE ~New(k0, s)
  <2> DEFINE R == {u.rev : u \in {w \in listed : w.id = s.id}}
  <2>1. MaxRev[s.id] \in Nat /\ s.id \in Ids
    BY Constants DEF TypeOK, Snapshot
  <2>2. R \in SUBSET Nat /\ R # {} /\ \A n \in R : n <= MaxRev[s.id]
    BY <1>5 DEF TypeOK, Snapshot, IInv, SnapshotsInOrder
  <2>3. PICK m \in R : \A n \in R : n <= m
    BY <2>1, <2>2, LargestExists
  <2>4. PICK u \in listed : u.id = s.id /\ u.rev = m
    OBVIOUS
  <2>5. Latest(listed, u)
    BY <2>3, <2>4 DEF Latest
  <2>6. <<s.id, m>> \in k0.lastRevs
    BY <1>4, <2>4, <2>5 DEF LastRevisions
  <2>7. s.rev <= m /\ s.rev \in Nat /\ m \in Nat
    BY <2>2, <2>3 DEF TypeOK, Snapshot
  <2>8. ~(s.rev > m)
    BY <2>7
  <2> QED  BY <2>6, <2>8 DEF New
<1>8. OldSnapshotsSafe(k0)
  <2>1. ASSUME NEW s \in snaps, ~New(k0, s), <<s.id, s.rev>> \notin k0.deleted
        PROVE  s.chunks \cap k0.fossils = {}
    <3>1. s \in listed \ flagged
      BY <1>4, <1>6, <2>1
    <3> QED  BY <1>1, <1>4, <3>1 DEF IInv, CollectingSafe, ChunksOf
  <2>2. \A s \in snaps : New(k0, s) => s.id \notin Ignored
    BY <1>5, <1>7
  <2>3. ASSUME NEW r \in k0.lastRevs
        PROVE  /\ Running(r[1]) => bk[r[1]].rev > r[2]
               /\ \E s \in snaps : s.id = r[1] /\ s.rev >= r[2]
    <3>1. PICK u \in listed : r = <<u.id, u.rev>>
      BY <1>4 DEF LastRevisions
    <3>2. u \in snaps /\ u.id \in Ids /\ u.rev \in Nat /\ bk[u.id].rev \in Nat
      BY <1>5, <3>1 DEF TypeOK, Snapshot, BackupState
    <3>3. Running(u.id) => bk[u.id].rev > u.rev
      BY <3>2 DEF IInv, SnapshotsInOrder
    <3>4. u.rev >= u.rev
      BY <3>2
    <3> QED  BY <3>1, <3>2, <3>3, <3>4
  <2> QED  BY <2>1, <2>2, <2>3 DEF OldSnapshotsSafe
<1>9. LateSnapshotCovers(k0)
  <2>1. \A s \in snaps : ~Late(k0, s)
    BY <1>4, Constants DEF Late, IInv, SnapshotsInOrder, TypeOK, Snapshot
  <2> QED  BY <2>1 DEF LateSnapshotCovers
<1>10. PendingCollections'
  BY <1>1, <1>2, <1>3, <1>8, <1>9, SameStorage DEF IInv, PendingCollections
<1>11. RunningProtected' /\ ExclusiveAlone'
  BY <1>1, <1>2, <1>3, SameStorage DEF IInv, RunningProtected, NothingPending, ExclusiveAlone
<1>12. CollectionsApart'
  <2>1. \A k \in colls : k.fossils \cap gathered = {}
    BY DEF IInv, CollectionsApart
  <2>2. \A k, l \in colls' : k # l => k.fossils \cap l.fossils = {}
    BY <1>3, <1>4, <2>1 DEF IInv, CollectionsApart
  <2> QED  BY <1>1, <2>2 DEF CollectionsApart
<1>13. ListingMisses'
  BY <1>1 DEF ListingMisses, Deciding
<1>14. CollectingSafe' /\ TasksSafe'
  BY <1>1 DEF IInv, CollectingSafe, TasksSafe, TasksFindTheirChunk
<1> QED  BY <1>1, <1>2, <1>10, <1>11, <1>12, <1>13, <1>14, SameStorage DEF IInv

(* Deleting the file of a flagged snapshot. *)
LEMMA DeleteSnapshotInv ==
    ASSUME Relax = {}, TypeOK, IInv, NEW s \in flagged, DeleteSnapshot(s)
    PROVE  IInv'
<1>1. /\ pc = "deleting" /\ snaps' = snaps \ {s} /\ flagged' = flagged \ {s}
      /\ live' = live /\ fossil' = fossil /\ now' = now /\ bk' = bk /\ colls' = colls
      /\ pc' = pc /\ opts' = opts /\ toList' = toList /\ listed' = listed /\ todo' = todo
      /\ cur' = cur /\ gathered' = gathered /\ tasks' = tasks
  BY DEF DeleteSnapshot
<1>2. tasks = {} /\ listed = {} /\ gathered = {}
  BY <1>1 DEF IInv, CollectionsApart, ListingMisses, CollectingSafe
<1>3. \A c : Needed(c)' => Needed(c)
  BY <1>1 DEF Needed, Doomed
<1>4. NeededExist'
  BY <1>1, <1>3 DEF IInv, NeededExist
<1>5. SnapshotsInOrder'
  BY <1>1 DEF IInv, SnapshotsInOrder, Running
<1>6. ASSUME ~opts.exclusive
      PROVE  \E u \in snaps' : u.id = s.id /\ u.rev > s.rev
  BY <1>1, <1>6 DEF IInv, CollectingSafe
<1>7. \A u \in snaps : u.rev \in Nat
  BY DEF TypeOK, Snapshot
<1>8. RunningProtected'
  <2> SUFFICES ASSUME NEW x \in Ids, Running(x)  PROVE Protected(x, now)'
    BY <1>1 DEF RunningProtected, Running
  <2>1. ~opts.exclusive /\ Protected(x, now)
    BY <1>1 DEF IInv, ExclusiveAlone, RunningProtected, NothingPending
  <2>2. PICK w \in snaps : w.id = x /\ Latest(snaps, w) /\ w.endTime >= now - MaxRunningTime
    BY <2>1 DEF Protected
  <2>3. w # s
    BY <1>1, <1>6, <1>7, <2>1, <2>2 DEF Latest
  <2> QED  BY <1>1, <2>1, <2>2, <2>3 DEF Protected, Latest
<1>9. ExclusiveAlone' /\ CollectionsApart'
  BY <1>1 DEF IInv, ExclusiveAlone, CollectionsApart, Running
<1>10. PendingCollections'
  <2> SUFFICES ASSUME NEW k \in colls  PROVE (OldSnapshotsSafe(k) /\ LateSnapshotCovers(k))'
    BY <1>1 DEF PendingCollections
  <2>1. OldSnapshotsSafe(k) /\ LateSnapshotCovers(k) /\ ~opts.exclusive /\ k \in Collection
    BY DEF IInv, PendingCollections, ExclusiveAlone, TypeOK
  <2>2. ASSUME NEW r \in k.lastRevs  PROVE \E u \in snaps' : u.id = r[1] /\ u.rev >= r[2]
    <3>1. PICK w \in snaps : w.id = r[1] /\ w.rev >= r[2]
      BY <2>1 DEF OldSnapshotsSafe
    <3>2. CASE w # s
      BY <1>1, <3>1, <3>2
    <3>3. CASE w = s
      <4>1. PICK u \in snaps' : u.id = s.id /\ u.rev > s.rev
        BY <1>6, <2>1
      <4>2. u.rev \in Nat /\ s.rev \in Nat /\ r[2] \in Nat
        BY <1>1, <1>7, <2>1, <3>3, <4>1 DEF Collection
      <4> QED  BY <3>1, <3>3, <4>1, <4>2
    <3> QED  BY <3>2, <3>3
  <2>3. OldSnapshotsSafe(k)'
    BY <1>1, <2>1, <2>2 DEF OldSnapshotsSafe, New, Running
  <2>4. LateSnapshotCovers(k)'
    BY <1>1, <2>1 DEF LateSnapshotCovers, New, Late, Running
  <2> QED  BY <2>3, <2>4
<1>11. ListingMisses'
  BY <1>1, <1>2 DEF ListingMisses, Deciding
<1>12. CollectingSafe'
  BY <1>1, <1>2 DEF IInv, CollectingSafe
<1>13. TasksSafe'
  BY <1>1, <1>2 DEF TasksSafe, TasksFindTheirChunk
<1> QED  BY <1>4, <1>5, <1>8, <1>9, <1>10, <1>11, <1>12, <1>13 DEF IInv

-----------------------------------------------------------------------------
(* The workers, check -resurrect and the clock.                            *)

(* Chunk files and fossil files change, at most one task is done, and      *)
(* perhaps another fossil is gathered; the rest stays.                     *)
LEMMA WorkerStepInv ==
    ASSUME TypeOK, IInv, UNCHANGED <<snaps, now, bk, colls, pc, opts, toList, listed, todo, cur, flagged>>,
           tasks' \subseteq tasks,
           \A c \in Chunks : Needed(c) => c \in live' \cup fossil',
           \A k \in colls : k.fossils \cap live \subseteq live' /\ k.fossils \cap gathered' = {},
           \A t \in tasks' : t.op \in {"fossilize", "resurrect"} => t.chunk \in live' \cup fossil',
           \A t \in tasks' : /\ t.op = "deleteFossil" /\ ~opts.exclusive /\ Needed(t.chunk)
                             => t.chunk \in live',
           pc # "collecting" => gathered' = {},
           pc = "collecting" => gathered' \cap ChunksOf(listed \ flagged) = {}
    PROVE  IInv'
<1>1. \A c : Needed(c)' <=> Needed(c)
  BY DEF Needed, Doomed
<1>2. NeededExist'
  BY <1>1 DEF NeededExist
<1>3. SnapshotsInOrder' /\ RunningProtected' /\ ExclusiveAlone'
  BY DEF IInv, SnapshotsInOrder, RunningProtected, NothingPending, Protected, Latest,
         ExclusiveAlone, Running
<1>4. CollectionsApart'
  BY DEF IInv, CollectionsApart
<1>5. PendingCollections'
  <2> SUFFICES ASSUME NEW k \in colls  PROVE (OldSnapshotsSafe(k) /\ LateSnapshotCovers(k))'
    BY DEF PendingCollections
  <2>1. OldSnapshotsSafe(k) /\ LateSnapshotCovers(k) /\ k.fossils \cap live \subseteq live'
    BY DEF IInv, PendingCollections
  <2>2. OldSnapshotsSafe(k)'
    BY <2>1 DEF OldSnapshotsSafe, New, Running
  <2>3. LateSnapshotCovers(k)'
    BY <2>1 DEF LateSnapshotCovers, New, Late, Running
  <2> QED  BY <2>2, <2>3
<1>6. ListingMisses'
  <2>1. /\ \A x : Running(x)' <=> Running(x)
        /\ \A x : ListedRecently(x)' <=> ListedRecently(x)
        /\ Deciding' <=> Deciding
    BY DEF Running, ListedRecently, Latest, Deciding
  <2> QED  BY <2>1 DEF IInv, ListingMisses, New
<1>7. CollectingSafe'
  BY DEF IInv, CollectingSafe, ChunksOf
<1>8. TasksSafe'
  <2>1. TasksFindTheirChunk'
    BY DEF TasksFindTheirChunk
  <2>2. \A t \in tasks :
          /\ t.op = "fossilize" => pc = "collecting" /\ ~opts.exclusive
          /\ t.op = "deleteChunk" => opts.exclusive /\ pc = "collecting" /\ ~Needed(t.chunk)
          /\ t.op = "deleteFossil" =>
                IF opts.exclusive THEN ~Needed(t.chunk)
                ELSE /\ Needed(t.chunk) => t.chunk \in live
                     /\ \A u \in tasks : u.chunk = t.chunk => u.op # "fossilize"
          /\ t.op = "resurrect" => \A u \in tasks :
                u.chunk = t.chunk => u.op \notin {"deleteFossil", "deleteChunk"}
    BY DEF IInv, TasksSafe
  <2> QED  BY <1>1, <2>1, <2>2 DEF TasksSafe
<1> QED  BY <1>2, <1>3, <1>4, <1>5, <1>6, <1>7, <1>8 DEF IInv

(* What is known of a task that runs. *)
LEMMA TaskFacts ==
    ASSUME TypeOK, IInv, NEW t \in tasks
    PROVE  /\ t.chunk \in Chunks
           /\ t.op \in {"fossilize", "resurrect"} => t.chunk \in live \cup fossil
           /\ t.op = "fossilize" => pc = "collecting" /\ ~opts.exclusive
           /\ t.op = "deleteChunk" => opts.exclusive /\ pc = "collecting" /\ ~Needed(t.chunk)
           /\ t.op = "deleteFossil" =>
                 IF opts.exclusive THEN ~Needed(t.chunk)
                 ELSE /\ Needed(t.chunk) => t.chunk \in live
                      /\ \A u \in tasks : u.chunk = t.chunk => u.op # "fossilize"
           /\ t.op = "resurrect" => \A u \in tasks :
                 u.chunk = t.chunk => u.op \notin {"deleteFossil", "deleteChunk"}
           /\ pc = "collecting" /\ t.op \in {"fossilize", "deleteChunk"} =>
                 t.chunk \notin ChunksOf(listed \ flagged)
           /\ pc # "collecting" => gathered = {}
           /\ pc = "collecting" => gathered \cap ChunksOf(listed \ flagged) = {}
           /\ pc = "collecting" => \A k \in colls : t.chunk \notin k.fossils
           /\ \A k \in colls : k.fossils \cap gathered = {}
           /\ opts.exclusive => colls = {}
BY DEF TypeOK, TaskSet, IInv, TasksSafe, TasksFindTheirChunk, CollectingSafe, CollectionsApart,
       ExclusiveAlone

(* A worker renames a chunk to a fossil. *)
LEMMA FossilizeInv ==
    ASSUME TypeOK, IInv, NEW t \in tasks, Fossilize(t)
    PROVE  IInv'
<1>1. t.op = "fossilize" /\ t.chunk \in live \cup fossil /\ pc = "collecting" /\ ~opts.exclusive
  BY TaskFacts DEF Fossilize
<1>2. /\ UNCHANGED <<snaps, now, bk, colls, pc, opts, toList, listed, todo, cur, flagged>>
      /\ live' = live \ {t.chunk} /\ fossil' = fossil \cup {t.chunk}
      /\ gathered' = gathered \cup {t.chunk} /\ tasks' = tasks \ {t}
  BY <1>1 DEF Fossilize
<1>3. \A c \in Chunks : Needed(c) => c \in live' \cup fossil'
  BY <1>2 DEF IInv, NeededExist
<1>4. \A u \in tasks' : u.op \in {"fossilize", "resurrect"} => u.chunk \in live' \cup fossil'
  BY <1>2, TaskFacts
<1>5. \A u \in tasks' : u.op = "deleteFossil" /\ ~opts.exclusive /\ Needed(u.chunk) => u.chunk \in live'
  BY <1>1, <1>2, TaskFacts
<1>6. gathered' \cap ChunksOf(listed \ flagged) = {}
  BY <1>1, <1>2, TaskFacts
<1>7. \A k \in colls : k.fossils \cap live \subseteq live' /\ k.fossils \cap gathered' = {}
  BY <1>1, <1>2, TaskFacts
<1> QED  BY <1>1, <1>2, <1>3, <1>4, <1>5, <1>6, <1>7, WorkerStepInv

(* A worker renames a fossil to a chunk. *)
LEMMA ResurrectInv ==
    ASSUME TypeOK, IInv, NEW t \in tasks, Resurrect(t)
    PROVE  IInv'
<1>1. t.op = "resurrect" /\ t.chunk \in live \cup fossil
  BY TaskFacts DEF Resurrect
<1>2. /\ UNCHANGED <<snaps, now, bk, colls, pc, opts, toList, listed, todo, cur, flagged, gathered>>
      /\ live' = live \cup {t.chunk} /\ fossil' = fossil \ {t.chunk} /\ tasks' = tasks \ {t}
  BY <1>1 DEF Resurrect, pruner
<1>3. \A c \in Chunks : Needed(c) => c \in live' \cup fossil'
  BY <1>2 DEF IInv, NeededExist
<1>4. \A u \in tasks' : u.op \in {"fossilize", "resurrect"} => u.chunk \in live' \cup fossil'
  BY <1>2, TaskFacts
<1>5. \A u \in tasks' : u.op = "deleteFossil" /\ ~opts.exclusive /\ Needed(u.chunk) => u.chunk \in live'
  BY <1>2, TaskFacts
<1>6. /\ pc # "collecting" => gathered' = {}
      /\ pc = "collecting" => gathered' \cap ChunksOf(listed \ flagged) = {}
  BY <1>2, TaskFacts
<1>7. \A k \in colls : k.fossils \cap live \subseteq live' /\ k.fossils \cap gathered' = {}
  BY <1>2, TaskFacts
<1> QED  BY <1>2, <1>3, <1>4, <1>5, <1>6, <1>7, WorkerStepInv

(* A worker deletes a fossil for good. *)
LEMMA DeleteFossilInv ==
    ASSUME TypeOK, IInv, NEW t \in tasks, DeleteFossil(t)
    PROVE  IInv'
<1>1. /\ UNCHANGED <<snaps, now, bk, colls, pc, opts, toList, listed, todo, cur, flagged, gathered>>
      /\ live' = live /\ fossil' = fossil \ {t.chunk} /\ tasks' = tasks \ {t}
      /\ t.op = "deleteFossil"
  BY DEF DeleteFossil, pruner
<1>2. Needed(t.chunk) => t.chunk \in live
  BY <1>1, TaskFacts
<1>3. \A c \in Chunks : Needed(c) => c \in live' \cup fossil'
  BY <1>1, <1>2 DEF IInv, NeededExist
<1>4. ASSUME NEW u \in tasks', u.op \in {"fossilize", "resurrect"}  PROVE u.chunk \in live' \cup fossil'
  <2>1. u \in tasks /\ u.chunk \in live \cup fossil
    BY <1>1, <1>4, TaskFacts
  <2>2. CASE u.op = "fossilize"
    <3>1. ~opts.exclusive
      BY <2>1, <2>2, TaskFacts
    <3>2. u.chunk # t.chunk
      BY <1>1, <2>1, <2>2, <3>1, TaskFacts
    <3> QED  BY <1>1, <2>1, <3>2
  <2>3. CASE u.op = "resurrect"
    <3>1. u.chunk # t.chunk
      BY <1>1, <2>1, <2>3, TaskFacts
    <3> QED  BY <1>1, <2>1, <3>1
  <2> QED  BY <1>4, <2>2, <2>3
<1>5. \A u \in tasks' : u.op = "deleteFossil" /\ ~opts.exclusive /\ Needed(u.chunk) => u.chunk \in live'
  BY <1>1, TaskFacts
<1>6. /\ pc # "collecting" => gathered' = {}
      /\ pc = "collecting" => gathered' \cap ChunksOf(listed \ flagged) = {}
  BY <1>1, TaskFacts
<1>7. \A k \in colls : k.fossils \cap live \subseteq live' /\ k.fossils \cap gathered' = {}
  BY <1>1, TaskFacts
<1> QED  BY <1>1, <1>3, <1>4, <1>5, <1>6, <1>7, WorkerStepInv

(* A worker of an exclusive prune deletes a chunk. *)
LEMMA DeleteChunkInv ==
    ASSUME TypeOK, IInv, NEW t \in tasks, DeleteChunk(t)
    PROVE  IInv'
<1>1. /\ UNCHANGED <<snaps, now, bk, colls, pc, opts, toList, listed, todo, cur, flagged, gathered>>
      /\ live' = live \ {t.chunk} /\ fossil' = fossil /\ tasks' = tasks \ {t}
      /\ t.op = "deleteChunk"
  BY DEF DeleteChunk, pruner
<1>2. ~Needed(t.chunk) /\ opts.exclusive /\ colls = {}
  BY <1>1, TaskFacts
<1>3. \A c \in Chunks : Needed(c) => c \in live' \cup fossil'
  BY <1>1, <1>2 DEF IInv, NeededExist
<1>4. ASSUME NEW u \in tasks', u.op \in {"fossilize", "resurrect"}  PROVE u.chunk \in live' \cup fossil'
  <2>1. u \in tasks /\ u.chunk \in live \cup fossil
    BY <1>1, <1>4, TaskFacts
  <2>2. u.op # "fossilize"
    BY <1>2, <2>1, TaskFacts
  <2>3. u.chunk # t.chunk
    BY <1>1, <1>4, <2>1, <2>2, TaskFacts
  <2> QED  BY <1>1, <2>1, <2>3
<1>5. /\ pc # "collecting" => gathered' = {}
      /\ pc = "collecting" => gathered' \cap ChunksOf(listed \ flagged) = {}
  BY <1>1, TaskFacts
<1>7. \A k \in colls : k.fossils \cap live \subseteq live' /\ k.fossils \cap gathered' = {}
  BY <1>2
<1> QED  BY <1>1, <1>2, <1>3, <1>4, <1>5, <1>7, WorkerStepInv

(* The check command resurrects a chunk of a snapshot. *)
LEMMA CheckResurrectInv ==
    ASSUME TypeOK, IInv, NEW c \in Chunks, CheckResurrect(c)
    PROVE  IInv'
<1>1. /\ UNCHANGED <<snaps, now, bk, colls, pc, opts, toList, listed, todo, cur, flagged, gathered>>
      /\ live' = live \cup {c} /\ fossil' = fossil \ {c} /\ tasks' = tasks
  BY DEF CheckResurrect, pruner
<1>2. \A d \in Chunks : Needed(d) => d \in live' \cup fossil'
  BY <1>1 DEF IInv, NeededExist
<1>3. \A u \in tasks' : u.op \in {"fossilize", "resurrect"} => u.chunk \in live' \cup fossil'
  BY <1>1, TaskFacts
<1>4. \A u \in tasks' : u.op = "deleteFossil" /\ ~opts.exclusive /\ Needed(u.chunk) => u.chunk \in live'
  BY <1>1, TaskFacts
<1>5. /\ pc # "collecting" => gathered' = {}
      /\ pc = "collecting" => gathered' \cap ChunksOf(listed \ flagged) = {}
  BY <1>1 DEF IInv, CollectingSafe
<1>7. \A k \in colls : k.fossils \cap live \subseteq live' /\ k.fossils \cap gathered' = {}
  BY <1>1 DEF IInv, CollectionsApart
<1> QED  BY <1>1, <1>2, <1>3, <1>4, <1>5, <1>7, WorkerStepInv

(* Time passes. *)
LEMMA TickInv ==
    ASSUME Relax = {}, TypeOK, IInv, MayTick, Tick
    PROVE  IInv'
<1>1. /\ now \in Nat /\ now' = now + 1 /\ ~Deciding /\ ~Deciding'
      /\ UNCHANGED <<live, fossil, snaps, bk, colls, pc, opts, toList, listed, todo, cur, flagged,
                     gathered, tasks>>
  BY DEF Tick, MayTick, Deciding, TypeOK, storage, pruner
<1>2. \A c : Needed(c)' <=> Needed(c)
  BY <1>1 DEF Needed, Doomed
<1>3. NeededExist'
  BY <1>1, <1>2 DEF IInv, NeededExist
<1>4. SnapshotsInOrder'
  <2>1. /\ \A s \in snaps : s.endTime \in Nat
        /\ \A x \in Ids : bk[x].endTime \in Nat
    BY DEF TypeOK, Snapshot, BackupState
  <2>2. /\ \A s \in snaps : s.endTime <= now + 1
        /\ \A x \in Ids : bk[x].endTime <= now + 1
    BY <1>1, <2>1 DEF IInv, SnapshotsInOrder
  <2> QED  BY <1>1, <2>2 DEF IInv, SnapshotsInOrder, Running
<1>5. RunningProtected'
  BY <1>1 DEF MayTick, Assumed, RunningProtected, NothingPending, Running, Protected, Latest
<1>6. ExclusiveAlone' /\ CollectionsApart'
  BY <1>1 DEF IInv, ExclusiveAlone, CollectionsApart, Running
<1>7. PendingCollections'
  BY <1>1 DEF IInv, PendingCollections, OldSnapshotsSafe, LateSnapshotCovers, New, Late, Running
<1>8. ListingMisses'
  BY <1>1 DEF IInv, ListingMisses, New, Deciding
<1>9. CollectingSafe'
  BY <1>1 DEF IInv, CollectingSafe, ChunksOf
<1>10. TasksSafe'
  <2>1. TasksFindTheirChunk'
    BY <1>1 DEF IInv, TasksSafe, TasksFindTheirChunk
  <2> QED  BY <1>1, <1>2, <2>1 DEF IInv, TasksSafe
<1> QED  BY <1>3, <1>4, <1>5, <1>6, <1>7, <1>8, <1>9, <1>10 DEF IInv

-----------------------------------------------------------------------------
(* The theorems.                                                           *)

(* The initial storage satisfies the invariant. *)
LEMMA InitInv ==
    ASSUME Init
    PROVE  IInv
<1>1. /\ \A x \in Ids : bk[x] = NoBackup
      /\ NoBackup.refs = {} /\ NoBackup.cache = {} /\ NoBackup.st = "idle" /\ NoBackup.endTime = 0
  BY DEF Init, NoBackup
<1>2. NeededExist
  BY <1>1 DEF Init, NeededExist, Needed, ChunksOf
<1>3. SnapshotsInOrder
  BY <1>1, InitialStorage DEF Init, SnapshotsInOrder, Running
<1>4. RunningProtected /\ ExclusiveAlone /\ CollectionsApart /\ PendingCollections
  BY DEF Init, NoOptions, RunningProtected, NothingPending, ExclusiveAlone, CollectionsApart,
         PendingCollections
<1>5. ListingMisses /\ CollectingSafe /\ TasksSafe
  BY DEF Init, ListingMisses, Deciding, CollectingSafe, TasksSafe, TasksFindTheirChunk
<1> QED  BY <1>2, <1>3, <1>4, <1>5 DEF IInv

(* Every step preserves it. *)
LEMMA NextInv ==
    ASSUME Relax = {}, TypeOK, IInv, Next
    PROVE  IInv'
<1>1. CASE BackupNext
  BY <1>1, StartBackupInv, UseChunkInv, RecordEndTimeInv, CommitSnapshotInv, AbortBackupInv
  DEF BackupNext
<1>2. CASE PruneNext
  BY <1>2, StartPruneInv, ListRevisionsInv, ListCollectionsInv, SkipCollectionInv,
     DeleteFossilsInv, DropCollectionInv, FinishDeleteOnlyInv, EndPruneInv, SelectSnapshotsInv,
     SaveCollectionInv, DeleteSnapshotInv
  DEF PruneNext
<1>3. CASE WorkerNext
  BY <1>3, FossilizeInv, ResurrectInv, DeleteFossilInv, DeleteChunkInv DEF WorkerNext
<1> QED  BY <1>1, <1>2, <1>3, CheckResurrectInv, TickInv DEF Next

(* So does a step that changes nothing. *)
LEMMA SameInv ==
    ASSUME IInv, UNCHANGED vars
    PROVE  IInv'
<1>1. /\ UNCHANGED <<live, fossil, snaps, now, bk, colls, pc, opts, toList, listed, todo, cur,
                     flagged, gathered, tasks>>
  BY DEF vars, storage, pruner
<1>2. NeededExist' /\ SnapshotsInOrder' /\ RunningProtected' /\ ExclusiveAlone' /\ CollectionsApart'
  BY <1>1 DEF IInv, NeededExist, Needed, Doomed, SnapshotsInOrder, RunningProtected, NothingPending,
              Protected, Latest, ExclusiveAlone, CollectionsApart, Running
<1>3. PendingCollections'
  BY <1>1 DEF IInv, PendingCollections, OldSnapshotsSafe, LateSnapshotCovers, New, Late, Running
<1>4. ListingMisses'
  BY <1>1 DEF IInv, ListingMisses, Deciding, ListedRecently, Latest, New, Running
<1>5. CollectingSafe' /\ TasksSafe'
  BY <1>1 DEF IInv, CollectingSafe, ChunksOf, TasksSafe, TasksFindTheirChunk, Needed, Doomed
<1> QED  BY <1>2, <1>3, <1>4, <1>5 DEF IInv

(* The theorems with Relax = {} are about storages used under all the      *)
(* operating conditions FossilCollection names, none of which the code     *)
(* enforces: no two ids on one host (IsDeletable lets them vouch for each  *)
(* other); ids without a snapshot of the last seven days, and ignored      *)
(* ones, back up only while nothing is pending (the repository counts as   *)
(* dormant otherwise); exclusive prunes run alone, unharmed, and without a *)
(* pending collection; no chunk is fossilized or collected again while a   *)
(* pending collection names it or tasks are left for it; the chunks that a *)
(* backup takes over from an incomplete snapshot are there when it starts. *)
(* For each condition there is an instance without it in which TLC finds a *)
(* chunk lost.  A prune judges collections within a tick of listing.       *)

(* Under these conditions IInv holds in every reachable state of the       *)
(* lock-free protocol of PruneSnapshots, Backup and check -resurrect, with *)
(* any number of collections pending.                                      *)
THEOREM Invariant ==
    ASSUME Relax = {}
    PROVE  Spec => []IInv
<1>1. Init => IInv
  BY InitInv
<1>2. TypeOK /\ IInv /\ [Next]_vars => IInv'
  BY NextInv, SameInv
<1> QED  BY <1>1, <1>2, TypeCorrect, PTL DEF Spec

(* Under the operating conditions prune leaves every snapshot              *)
(* recoverable, while backups, resumed ones too, crashes and resurrections *)
(* happen at the same time.                                                *)
THEOREM Safety ==
    ASSUME Relax = {}
    PROVE  Spec => []Recoverable
<1>1. TypeOK /\ IInv => Recoverable
  BY DEF TypeOK, Snapshot, IInv, NeededExist, Needed, Recoverable
<1> QED  BY <1>1, Invariant, TypeCorrect, PTL

(* Under the operating conditions prune removes no chunk that a backup     *)
(* under way counts on: one it refers to, or one in its cache, which it    *)
(* takes from the latest or from an incomplete snapshot without asking the *)
(* storage.  Ids that prune takes to be dormant, and chunks collected      *)
(* twice, are what the conditions exclude.                                 *)
THEOREM InFlightSafety ==
    ASSUME Relax = {}
    PROVE  Spec => []InFlightRecoverable
<1>1. TypeOK /\ IInv => InFlightRecoverable
  <2> SUFFICES ASSUME TypeOK, IInv, NEW x \in Ids, NEW c \in bk[x].refs \cup bk[x].cache
               PROVE  c \in live \cup fossil
    BY DEF InFlightRecoverable
  <2>1. c \in Chunks
    BY DEF TypeOK, BackupState
  <2> QED  BY <2>1 DEF IInv, NeededExist, Needed
<1> QED  BY <1>1, Invariant, TypeCorrect, PTL

(* Under the operating conditions no worker of the prune command meets a   *)
(* chunk that does not exist, the error that ends the process.             *)
THEOREM WorkersSafe ==
    ASSUME Relax = {}
    PROVE  Spec => []TasksFindTheirChunk
<1>1. IInv => TasksFindTheirChunk
  BY DEF IInv, TasksSafe
<1> QED  BY <1>1, Invariant, PTL

(* Under the operating conditions only exclusive prunes delete the latest  *)
(* snapshot of an id: selecting and deleting are separate steps with       *)
(* backups and crashes in between.                                         *)
THEOREM LatestStays ==
    ASSUME Relax = {}
    PROVE  Spec => LatestKept
<1> DEFINE A == \A s \in snaps : Latest(snaps, s) /\ ~opts.exclusive => s \in snaps'
<1>1. TypeOK /\ IInv /\ [Next]_vars => [A]_vars
  <2> SUFFICES ASSUME TypeOK, IInv, Next, NEW s \in snaps, Latest(snaps, s), ~opts.exclusive
               PROVE  s \in snaps'
    BY DEF vars, storage
  <2>1. CASE BackupNext
    BY <2>1, ZenonT(60) DEF BackupNext, StartBackup, UseCached, FindExisting, UploadChunk, RecordEndTime,
                CommitSnapshot, AbortBackup, storage
  <2>2. CASE PruneNext
    <3>1. CASE \E u \in flagged : DeleteSnapshot(u)
      <4>1. PICK u \in flagged : snaps' = snaps \ {u}
        BY <3>1 DEF DeleteSnapshot
      <4>2. PICK w \in snaps : w.id = u.id /\ w.rev > u.rev
        BY DEF IInv, CollectingSafe
      <4>3. s # u
        BY <4>2 DEF Latest, TypeOK, Snapshot
      <4> QED  BY <4>1, <4>3
    <3>2. CASE ~\E u \in flagged : DeleteSnapshot(u)
      BY <2>2, <3>2 DEF PruneNext, StartPrune, ListRevisions, ListCollections, GhostCollection,
         DeleteFossils, PostponeCollection, DropCollection, FinishDeleteOnly, Drained,
         SelectSnapshots, SaveCollection, FinishPrune, CrashPrune, storage
    <3> QED  BY <3>1, <3>2
  <2>3. CASE WorkerNext \/ (\E c \in Chunks : CheckResurrect(c)) \/ (MayTick /\ Tick)
    BY <2>3 DEF WorkerNext, Fossilize, Resurrect, DeleteFossil, DeleteChunk, CheckResurrect,
                Tick, storage
  <2> QED  BY <2>1, <2>2, <2>3 DEF Next
<1> QED  BY <1>1, Invariant, TypeCorrect, PTL DEF Spec, LatestKept

-----------------------------------------------------------------------------
(* FossilCollection implements SnapshotStorage.                            *)

(* The snapshots no exclusive prune has decided to delete. *)
Standing == snaps \ Doomed

CommitStep ==
    /\ ~opts.exclusive /\ opts' = opts
    /\ \E s \in Standing' : /\ \A u \in Standing : u.id = s.id => u.rev < s.rev
                           /\ Standing' = Standing \cup {s}

DeleteStep ==
    /\ opts'.exclusive = opts.exclusive
    /\ \E F \in SUBSET Standing :
          /\ \/ opts.exclusive
             \/ \A s \in F : \E u \in Standing \ F : u.id = s.id /\ u.rev > s.rev
          /\ Standing' = Standing \ F

(* A step of a backup commits at most one snapshot, the newest of its id. *)
LEMMA BackupStanding ==
    ASSUME TypeOK, IInv, NEW x \in Ids,
           \/ \E inc \in SUBSET Chunks : StartBackup(x, inc)
           \/ \E c \in Chunks : UseCached(x, c) \/ FindExisting(x, c) \/ UploadChunk(x, c)
           \/ RecordEndTime(x) \/ CommitSnapshot(x) \/ AbortBackup(x)
    PROVE  Standing' = Standing \/ CommitStep
<1>1. opts' = opts /\ flagged' = flagged
  BY DEF StartBackup, UseCached, FindExisting, UploadChunk, RecordEndTime, CommitSnapshot,
         AbortBackup, pruner
<1>2. Doomed' = Doomed  BY <1>1 DEF Doomed
<1>3. CASE CommitSnapshot(x)
  <2> DEFINE s == [id |-> x, rev |-> bk[x].rev, chunks |-> bk[x].refs, endTime |-> bk[x].endTime]
  <2>1. snaps' = snaps \cup {s} /\ Running(x)  BY <1>3 DEF CommitSnapshot, Running
  <2>2. ~opts.exclusive  BY <2>1 DEF IInv, ExclusiveAlone
  <2>3. Doomed = {}  BY <2>2 DEF Doomed
  <2>4. \A u \in snaps : u.id = x => u.rev < bk[x].rev  BY <2>1 DEF IInv, SnapshotsInOrder
  <2>5. \A u \in Standing : u.id = s.id => u.rev < s.rev  BY <2>4 DEF Standing
  <2>6. Standing' = Standing \cup {s} /\ s \in Standing'  BY <1>2, <2>1, <2>3 DEF Standing
  <2> HIDE DEF s
  <2> QED  BY <1>1, <2>2, <2>5, <2>6 DEF CommitStep
<1>4. CASE ~CommitSnapshot(x)
  <2>1. snaps' = snaps
    BY <1>4 DEF StartBackup, UseCached, FindExisting, UploadChunk, RecordEndTime, AbortBackup, storage
  <2> QED  BY <1>2, <2>1, SMTT(60) DEF Standing
<1> QED  BY <1>3, <1>4

(* A step of a prune deletes the snapshots it has flagged: at once if it   *)
(* is exclusive, else one by one, and never the latest.                    *)
LEMMA PruneStanding ==
    ASSUME Relax = {}, TypeOK, IInv, PruneNext
    PROVE  Standing' = Standing \/ DeleteStep
<1>1. opts \in Options  BY DEF TypeOK
<1>2. CASE \E F \in SUBSET listed : SelectSnapshots(F)
  <2>1. PICK F \in SUBSET listed : SelectSnapshots(F)  BY <1>2
  <2>2. /\ pc = "collections" /\ snaps' = snaps
        /\ opts' = [opts EXCEPT !.exhaustive = FALSE]
        /\ flagged' = flagged \/ flagged' = F
    BY <2>1 DEF SelectSnapshots, storage
  <2>3. opts'.exclusive = opts.exclusive  BY <1>1, <2>2 DEF Options
  <2>4. flagged = {} /\ F \subseteq snaps  BY <2>2 DEF IInv, CollectingSafe, ListingMisses
  <2>5. Doomed = {}  BY <2>4 DEF Doomed
  <2>6. CASE Doomed' = {}  BY <2>2, <2>5, <2>6 DEF Standing
  <2>7. CASE Doomed' # {}
    <3>1. opts.exclusive /\ Doomed' = F  BY <2>2, <2>3, <2>4, <2>7 DEF Doomed
    <3>2. Standing' = Standing \ F /\ F \subseteq Standing  BY <2>2, <2>4, <2>5, <3>1 DEF Standing
    <3> QED  BY <2>3, <3>1, <3>2 DEF DeleteStep
  <2> QED  BY <2>6, <2>7
<1>3. CASE \E s \in flagged : DeleteSnapshot(s)
  <2>1. PICK s \in flagged : DeleteSnapshot(s)  BY <1>3
  <2>2. snaps' = snaps \ {s} /\ flagged' = flagged \ {s} /\ opts' = opts
    BY <2>1 DEF DeleteSnapshot
  <2>3. CASE opts.exclusive
    <3>1. Doomed = flagged /\ Doomed' = flagged \ {s}  BY <2>2, <2>3 DEF Doomed
    <3> QED  BY <2>2, <3>1 DEF Standing
  <2>4. CASE ~opts.exclusive
    <3>1. Doomed = {} /\ Doomed' = {}  BY <2>2, <2>4 DEF Doomed
    <3>2. Standing = snaps /\ Standing' = snaps \ {s}  BY <2>2, <3>1 DEF Standing
    <3>3. CASE s \in snaps
      <4>1. PICK u \in snaps \ flagged : u.id = s.id /\ u.rev > s.rev
        BY <2>4 DEF IInv, CollectingSafe
      <4>2. u \in Standing \ {s}  BY <3>2, <4>1
      <4>3. {s} \in SUBSET Standing  BY <3>2, <3>3
      <4> QED  BY <2>2, <3>2, <4>1, <4>2, <4>3 DEF DeleteStep
    <3>4. CASE s \notin snaps  BY <3>2, <3>4
    <3> QED  BY <3>3, <3>4
  <2> QED  BY <2>3, <2>4
<1>4. CASE \/ \E o \in PruneOptions : StartPrune(o)
           \/ Drained \/ FinishPrune \/ (MayCrash /\ CrashPrune)
  <2>1. snaps' = snaps
    BY <1>4 DEF StartPrune, Drained, FinishPrune, CrashPrune, storage
  <2>2. Doomed = {}
    BY <1>4 DEF StartPrune, Drained, FinishPrune, CrashPrune, MayCrash, IInv, CollectingSafe, Doomed
  <2>3. flagged' = {} \/ flagged' = flagged
    BY <1>4 DEF StartPrune, Drained, FinishPrune, CrashPrune, PrunerGone
  <2>4. CASE \E o \in PruneOptions : StartPrune(o)
    <3>1. flagged = {} /\ flagged' = flagged
      BY <2>4 DEF StartPrune, IInv, CollectingSafe
    <3>2. Doomed' = {}  BY <3>1 DEF Doomed
    <3> QED  BY <2>1, <2>2, <3>2 DEF Standing
  <2>5. CASE Drained \/ FinishPrune \/ CrashPrune
    <3>1. flagged' = {}  BY <2>5 DEF Drained, FinishPrune, CrashPrune, PrunerGone
    <3>2. Doomed' = {}  BY <3>1 DEF Doomed
    <3> QED  BY <2>1, <2>2, <3>2 DEF Standing
  <2> QED  BY <1>4, <2>4, <2>5
<1>5. CASE \/ \E x \in toList : ListRevisions(x)
           \/ ListCollections
           \/ \E k \in todo : GhostCollection(k) \/ DeleteFossils(k) \/ PostponeCollection(k)
           \/ DropCollection \/ FinishDeleteOnly \/ SaveCollection
  <2>1. /\ snaps' = snaps /\ flagged' = flagged
        /\ \/ opts' = opts
           \/ opts' = [opts EXCEPT !.collectOnly = FALSE]
           \/ opts' = [opts EXCEPT !.deleteOnly = FALSE]
    BY <1>5 DEF ListRevisions, ListCollections, GhostCollection, DeleteFossils,
                PostponeCollection, DropCollection, FinishDeleteOnly, SaveCollection, storage
  <2>2. opts'.exclusive = opts.exclusive  BY <1>1, <2>1 DEF Options
  <2> QED  BY <2>1, <2>2 DEF Standing, Doomed
<1> QED  BY <1>2, <1>3, <1>4, <1>5 DEF PruneNext

(* The workers, check and the clock leave the snapshots alone; a worker    *)
(* does not end an exclusive prune, since it finds its chunk.              *)
LEMMA OthersStanding ==
    ASSUME IInv, WorkerNext \/ (\E c \in Chunks : CheckResurrect(c)) \/ Tick
    PROVE  Standing' = Standing
<1>1. \A t \in tasks : t.op \in {"fossilize", "resurrect"} => t.chunk \in live \cup fossil
  BY DEF IInv, TasksSafe, TasksFindTheirChunk
<1>2. snaps' = snaps
  BY DEF WorkerNext, Fossilize, Resurrect, DeleteFossil, DeleteChunk, CheckResurrect, Tick, storage
<1>3. flagged' = flagged /\ opts' = opts
  <2>1. ASSUME NEW t \in tasks, Fossilize(t) \/ Resurrect(t)  PROVE flagged' = flagged /\ opts' = opts
    BY <1>1, <2>1 DEF Fossilize, Resurrect, pruner
  <2>2. ASSUME NEW t \in tasks, DeleteFossil(t) \/ DeleteChunk(t)
        PROVE  flagged' = flagged /\ opts' = opts
    BY <2>2 DEF DeleteFossil, DeleteChunk, pruner
  <2> QED  BY <2>1, <2>2 DEF WorkerNext, CheckResurrect, Tick, pruner
<1> QED  BY <1>2, <1>3 DEF Standing, Doomed

(* What can be restored is what is standing. *)
LEMMA StandingRestorable ==
    ASSUME TypeOK, IInv
    PROVE  {s \in snaps \ Doomed : s.chunks \subseteq live \cup fossil} = Standing
BY DEF TypeOK, Snapshot, IInv, NeededExist, Needed, Standing

(* Every step of backups, prunes, workers and check is a step of a storage *)
(* that keeps its snapshots, or changes nothing there.                     *)
LEMMA StorageStep ==
    ASSUME Relax = {}, TypeOK, IInv, TypeOK', IInv', [Next]_vars
    PROVE  [Storage!Next]_(Storage!vars)
<1> DEFINE R == {s \in snaps \ Doomed : s.chunks \subseteq live \cup fossil}
<1>1. R = Standing  BY StandingRestorable
<1>2. R' = Standing'
  BY StandingRestorable DEF TypeOK, Snapshot, IInv, NeededExist, Needed, Standing
<1>3. Standing' = Standing \/ CommitStep \/ DeleteStep
  <2>1. CASE BackupNext  BY <2>1, BackupStanding DEF BackupNext
  <2>2. CASE PruneNext  BY <2>2, PruneStanding
  <2>3. CASE WorkerNext \/ (\E c \in Chunks : CheckResurrect(c)) \/ Tick
    BY <2>3, OthersStanding
  <2>4. CASE UNCHANGED vars  BY <2>4 DEF vars, storage, pruner, Standing, Doomed
  <2> QED  BY <2>1, <2>2, <2>3, <2>4 DEF Next
<1>4. opts'.exclusive \in BOOLEAN  BY DEF TypeOK, Options
<1>5. Standing' \subseteq Snapshot  BY DEF TypeOK, Standing
<1> HIDE DEF R
<1>6. CASE Standing' = Standing
  <2>1. Storage!Exclude  BY <1>1, <1>2, <1>4, <1>6 DEF Storage!Exclude, R, Standing
  <2> QED  BY <2>1 DEF Storage!Next
<1>7. CASE CommitStep
  <2>1. Storage!Commit  BY <1>1, <1>2, <1>5, <1>7 DEF Storage!Commit, CommitStep, R, Standing
  <2> QED  BY <2>1 DEF Storage!Next
<1>8. CASE DeleteStep
  <2>1. Storage!Delete  BY <1>1, <1>2, <1>8 DEF Storage!Delete, DeleteStep, R, Standing
  <2> QED  BY <2>1 DEF Storage!Next
<1> QED  BY <1>3, <1>6, <1>7, <1>8

(* The promise of a storage that many back up to while old snapshots are   *)
(* pruned without any lock: under the operating conditions above, which    *)
(* leave out some ordinary uses of prune, FossilCollection implements      *)
(* SnapshotStorage.                                                        *)
THEOREM SnapshotsAreKept ==
    ASSUME Relax = {}
    PROVE  Spec => KeepsSnapshots
<1>1. Init => Storage!Init
  <2> SUFFICES ASSUME Init  PROVE Storage!Init
    OBVIOUS
  <2>1. opts.exclusive = FALSE /\ Doomed = {}  BY DEF Init, NoOptions, Doomed
  <2>2. snaps \subseteq Snapshot
    BY InitialStorage DEF Init, Snapshot
  <2>3. \A s \in snaps : s.chunks \subseteq live \cup fossil  BY DEF Init, ChunksOf
  <2> QED  BY <2>1, <2>2, <2>3 DEF Storage!Init
<1>2. TypeOK /\ IInv /\ TypeOK' /\ IInv' /\ [Next]_vars => [Storage!Next]_(Storage!vars)
  BY StorageStep
<1> QED  BY <1>1, <1>2, Invariant, TypeCorrect, PTL DEF Spec, KeepsSnapshots, Storage!Spec

=============================================================================
