-------------------------- MODULE FossilCollection --------------------------
(***************************************************************************)
(* Lock-free deduplication: any number of backups run against a storage    *)
(* while one prune command removes snapshots and the chunks only they      *)
(* used.  Nothing is locked.  Prune works in two steps: it renames chunks  *)
(* it believes unreferenced to fossils and records them in a fossil        *)
(* collection; a later prune deletes the fossils of a collection for good  *)
(* once every repository has been seen to finish a backup after the        *)
(* collection, resurrecting the ones those backups turned out to use.      *)
(*                                                                         *)
(* Code: PruneSnapshots and its helpers (duplicacy_snapshotmanager.go),    *)
(* the chunk workers (duplicacy_chunkoperator.go) and the chunk handling   *)
(* of Backup (duplicacy_backupmanager.go).  The storage is two sets of     *)
(* chunk files (chunks/c and chunks/c.fsl) and a set of snapshot files.    *)
(***************************************************************************)
EXTENDS Integers, FiniteSets

CONSTANTS
    Ids,             \* snapshot ids
    Chunks,          \* chunk ids
    HostOf,          \* the host part of each id (the id itself without an '@')
    Ignored,         \* the ids given to prune with -ignore
    ExtraTime,       \* half a day if the storage is not strongly consistent, else 0
    MaxRunningTime,  \* the seven days after which a repository counts as dormant
    Threads,         \* worker goroutines of the prune's ChunkOperator
    FastListing,     \* storage.IsFastListing()
    InitialSnaps,    \* the snapshots the storage holds at the beginning
    PruneOptions,    \* the combinations of options prune is run with
    Relax,           \* the operating conditions that are NOT assumed (see below)
    MaxTime,         \* bound: the clock stops there
    MaxRev           \* bound: no revision of an id beyond this one

ASSUME Constants ==
    /\ Ignored \subseteq Ids
    /\ ExtraTime \in Nat
    /\ MaxRunningTime \in Nat
    /\ Threads \in Nat \ {0}
    /\ FastListing \in BOOLEAN
    /\ MaxTime \in Nat
    /\ MaxRev \in [Ids -> Nat \ {0}]
    /\ PruneOptions \subseteq [deleteOnly : BOOLEAN, collectOnly : BOOLEAN,
                                exhaustive : BOOLEAN, exclusive : BOOLEAN]

(* A snapshot file: the id, the revision, every chunk it references (file  *)
(* and metadata chunks alike) and the end time recorded in it.             *)
Snapshot == [id : Ids, rev : Nat, chunks : SUBSET Chunks, endTime : Nat]

(* The initial storage is one that earlier backups can have left: one file *)
(* per id and revision, and end times that grow with the revision.         *)
ASSUME InitialStorage ==
    /\ InitialSnaps \subseteq [id : Ids, rev : Nat \ {0}, chunks : SUBSET Chunks, endTime : {1}]
    /\ \A s, u \in InitialSnaps : s.id = u.id /\ s.rev = u.rev => s = u
    /\ \A s \in InitialSnaps : s.rev <= MaxRev[s.id]

VARIABLES
    live,      \* chunks whose file chunks/c exists
    fossil,    \* chunks whose file chunks/c.fsl exists
    snaps,     \* snapshot files
    now,       \* the clock
    bk,        \* the backup running for each id
    colls,     \* fossil collection files of the pruning host
    pc,        \* where the prune command is
    opts,      \* its options
    toList,    \* ids it has not listed yet
    listed,    \* allSnapshots: the snapshots it has read
    todo,      \* collections it has not processed yet
    cur,       \* the collection being deleted, in a set of at most one
    batch,     \* number of batches of tasks queued so far
    flagged,   \* listed snapshots with Flag set whose file is not yet deleted
    gathered,  \* the fossils of the collection being made
    tasks      \* tasks queued to, or running in, the ChunkOperator

storage == <<live, fossil, snaps>>
pruner  == <<pc, opts, toList, listed, todo, cur, batch, flagged, gathered>>
vars    == <<storage, now, bk, colls, pruner, tasks>>

-----------------------------------------------------------------------------
(* Backups.                                                                *)

(* st is "idle", then "files" while file chunks are packed, then "meta"    *)
(* once EndTime is taken and the snapshot's own chunks are packed.  refs   *)
(* are the chunks the snapshot will reference, absent those a FindChunk    *)
(* did not find and an upload is under way for.                            *)
NoBackup == [st |-> "idle", rev |-> 0, cache |-> {}, refs |-> {},
             absent |-> {}, endTime |-> 0]

BackupState == [st : {"idle", "files", "meta"}, rev : Nat, cache : SUBSET Chunks,
                refs : SUBSET Chunks, absent : SUBSET Chunks, endTime : Nat]

Running(x) == bk[x].st # "idle"

(* The snapshot with the highest revision of its id among S. *)
Latest(S, s) == s \in S /\ \A u \in S : u.id = s.id => u.rev <= s.rev

(* The chunk cache of the first backup of an id: all chunks, when the      *)
(* storage lists quickly.                                                  *)
FirstCache == IF FastListing THEN live ELSE {}

(* Backup reads the latest snapshot; its chunks form the chunk cache.  A   *)
(* backup that resumes from an incomplete snapshot takes over chunks of    *)
(* that one too, like those of unmodified files.  They are looked for in   *)
(* the list that FirstCache is made of; otherwise see "resumed" below.     *)
StartBackup(x, inc) ==
    /\ ~Running(x)
    /\ \/ /\ \A s \in snaps : s.id # x
          /\ FastListing => inc \subseteq live
          /\ bk' = [bk EXCEPT ![x] = [NoBackup EXCEPT !.st = "files", !.rev = 1,
                                                      !.cache = FirstCache \cup inc]]
       \/ \E s \in snaps :
             /\ s.id = x /\ Latest(snaps, s) /\ s.rev < MaxRev[x]
             /\ bk' = [bk EXCEPT ![x] = [NoBackup EXCEPT !.st = "files", !.rev = s.rev + 1,
                                                         !.cache = s.chunks \cup inc]]
    /\ UNCHANGED <<storage, now, colls, pruner, tasks>>

Unseen(x, c) == c \notin bk[x].refs /\ c \notin bk[x].absent

(* A chunk found in the cache, or one of an unmodified file, whose entry   *)
(* is taken over from the latest snapshot: the storage is not asked.       *)
UseCached(x, c) ==
    /\ Running(x) /\ Unseen(x, c) /\ c \in bk[x].cache
    /\ bk' = [bk EXCEPT ![x].refs = @ \cup {c}]
    /\ UNCHANGED <<storage, now, colls, pruner, tasks>>

(* UploadChunk asks FindChunk first.  A cached file chunk takes this way   *)
(* too when the last upload is longer ago than the keep-alive interval.    *)
FindExisting(x, c) ==
    /\ Running(x) /\ Unseen(x, c)
    /\ bk[x].st = "meta" => c \notin bk[x].cache
    /\ bk' = IF c \in live THEN [bk EXCEPT ![x].refs = @ \cup {c}]
                           ELSE [bk EXCEPT ![x].absent = @ \cup {c}]
    /\ UNCHANGED <<storage, now, colls, pruner, tasks>>

(* UploadFile for a chunk FindChunk did not find. *)
UploadChunk(x, c) ==
    /\ Running(x) /\ c \in bk[x].absent
    /\ live' = live \cup {c}
    /\ bk' = [bk EXCEPT ![x].refs = @ \cup {c}, ![x].absent = @ \ {c}]
    /\ UNCHANGED <<fossil, snaps, now, colls, pruner, tasks>>

(* All file chunks are there (WaitForCompletion): EndTime is taken, before *)
(* the metadata chunks and the snapshot file are uploaded.                 *)
RecordEndTime(x) ==
    /\ bk[x].st = "files" /\ bk[x].absent = {}
    /\ bk' = [bk EXCEPT ![x].st = "meta", ![x].endTime = now]
    /\ UNCHANGED <<storage, now, colls, pruner, tasks>>

(* UploadSnapshot writes the snapshot file last. *)
CommitSnapshot(x) ==
    /\ bk[x].st = "meta" /\ bk[x].absent = {} /\ bk[x].refs # {}
    /\ snaps' = snaps \cup {[id |-> x, rev |-> bk[x].rev, chunks |-> bk[x].refs,
                             endTime |-> bk[x].endTime]}
    /\ bk' = [bk EXCEPT ![x] = NoBackup]
    /\ UNCHANGED <<live, fossil, now, colls, pruner, tasks>>

(* An error or a kill ends a backup anywhere; uploaded chunks stay. *)
AbortBackup(x) ==
    /\ Running(x)
    /\ bk' = [bk EXCEPT ![x] = NoBackup]
    /\ UNCHANGED <<storage, now, colls, pruner, tasks>>

-----------------------------------------------------------------------------
(* Prune: starting, and reading the snapshots.                             *)

Options == [deleteOnly : BOOLEAN, collectOnly : BOOLEAN,
            exhaustive : BOOLEAN, exclusive : BOOLEAN]

NoOptions == [deleteOnly |-> FALSE, collectOnly |-> FALSE,
              exhaustive |-> FALSE, exclusive |-> FALSE]

(* The command is over, or gone: nothing but files is left of it. *)
PrunerGone ==
    /\ pc' = "idle" /\ opts' = NoOptions
    /\ toList' = {} /\ listed' = {} /\ todo' = {} /\ cur' = {} /\ batch' = 0
    /\ flagged' = {} /\ gathered' = {}

StartPrune(o) ==
    /\ pc = "idle"
    /\ pc' = "list" /\ opts' = o
    /\ toList' = {s.id : s \in snaps}
    /\ UNCHANGED <<storage, now, bk, colls, listed, todo, cur, batch, flagged, gathered, tasks>>

(* The revisions of one id are listed and read; backups may commit between *)
(* the listings of two ids.                                                *)
ListRevisions(x) ==
    /\ pc = "list" /\ x \in toList
    /\ toList' = toList \ {x}
    /\ listed' = listed \cup {s \in snaps : s.id = x}
    /\ UNCHANGED <<storage, now, bk, colls, pc, opts, todo, cur, batch, flagged, gathered, tasks>>

(* An option is dropped from the state once nothing depends on it. *)
ListCollections ==
    /\ pc = "list" /\ toList = {}
    /\ pc' = "collections"
    /\ todo' = IF opts.collectOnly THEN {} ELSE colls
    /\ opts' = [opts EXCEPT !.collectOnly = FALSE]
    /\ UNCHANGED <<storage, now, bk, colls, toList, listed, cur, batch, flagged, gathered, tasks>>

-----------------------------------------------------------------------------
(* Prune: fossil collections of earlier runs.                              *)

(* A collection: the latest revision of each id that was listed, as        *)
(* <<id, revision>> pairs, the revisions the run deleted, the fossils and  *)
(* the time it was finished.                                               *)
Collection == [lastRevs : SUBSET (Ids \X Nat), deleted : SUBSET (Ids \X Nat),
               fossils : SUBSET Chunks, endTime : Nat]

(* Mutant: the ids alone are recorded. *)
LastRevisionsDropped(S) == {s.id : s \in S}

LastRevisions(S) == {<<s.id, s.rev>> : s \in {u \in S : Latest(S, u)}}

(* Mutant: a snapshot that ends with the collection counts as later. *)
LateOrEqual(k, s) == s.endTime >= k.endTime + ExtraTime

(* IsDeletable, with the snapshots this run has read as allSnapshots. *)
New(k, s)  == \A r \in k.lastRevs : r[1] = s.id => s.rev > r[2]
Late(k, s) == s.endTime > k.endTime + ExtraTime

Considered == {s \in listed : s.id \notin Ignored}

(* Mutant: the loop stops before it. *)
NewSnapshotsBeforeLate(k) ==
    {s \in Considered : New(k, s) /\ ~Late(k, s)}

(* The loop over an id's new snapshots stops after the first late one. *)
NewSnapshots(k) ==
    {s \in Considered :
        /\ New(k, s)
        /\ \A u \in Considered : u.id = s.id /\ New(k, u) /\ Late(k, u) => s.rev <= u.rev}

HasNewSnapshot(k, h) ==
    \E s \in Considered : HostOf[s.id] = h /\ New(k, s) /\ Late(k, s)

(* No id of the host has a last snapshot of the past seven days. *)
Dormant(h) ==
    /\ \E s \in Considered : HostOf[s.id] = h /\ Latest(listed, s) /\ s.endTime > 0
    /\ \A s \in Considered :
          HostOf[s.id] = h /\ Latest(listed, s) => s.endTime < now - MaxRunningTime

IsDeletable(k) ==
    \A h \in {HostOf[s.id] : s \in Considered} : HasNewSnapshot(k, h) \/ Dormant(h)

(* Mutant: fossils are never resurrected. *)
NoNewChunks(k) == {}

(* IsDeletable returns no snapshots with FALSE, also to an exclusive run,  *)
(* which goes on regardless.                                               *)
NewChunks(k) ==
    IF IsDeletable(k) THEN UNION {s.chunks : s \in NewSnapshots(k)} ELSE {}

(* Mutant: the check is missing. *)
NoGhostCheck(k) == FALSE

(* A snapshot the collection was to delete is still there: the run that    *)
(* made the collection did not finish.                                     *)
HasGhost(k) == \E s \in listed : <<s.id, s.rev>> \in k.deleted

(* A task of the ChunkOperator.  Workers take tasks in queue order, so a   *)
(* task can only run while fewer than Threads tasks of earlier batches are *)
(* left; the tasks of one batch are about different files and run in any   *)
(* order.                                                                  *)
Task(op, c, b) == [op |-> op, chunk |-> c, batch |-> b]
Ops     == {"fossilize", "resurrect", "deleteFossil", "deleteChunk"}
TaskSet == [op : Ops, chunk : Chunks, batch : Nat]

GhostCollection(k) ==
    /\ pc = "collections" /\ k \in todo
    /\ HasGhost(k)
    /\ colls' = colls \ {k} /\ todo' = todo \ {k}
    /\ UNCHANGED <<storage, now, bk, pc, opts, toList, listed, cur, batch, flagged,
                   gathered, tasks>>

(* The fossils of a deletable collection are queued for deletion, or for   *)
(* resurrection if a new snapshot uses them.                               *)
DeleteFossils(k) ==
    /\ pc = "collections" /\ k \in todo
    /\ ~HasGhost(k)
    /\ IsDeletable(k) \/ opts.exclusive
    /\ batch' = batch + 1
    /\ tasks' = tasks \cup
          {Task(IF c \in NewChunks(k) THEN "resurrect" ELSE "deleteFossil", c, batch') :
              c \in k.fossils}
    /\ todo' = todo \ {k} /\ cur' = {k}
    /\ pc' = "dropping"
    /\ UNCHANGED <<storage, now, bk, colls, opts, toList, listed, flagged, gathered>>

(* AddTask blocks while Threads tasks are queued, and the workers hold     *)
(* Threads more: no more than that are left when the collection file goes. *)
DropCollection ==
    /\ pc = "dropping" /\ Cardinality(tasks) <= 2 * Threads
    /\ colls' = colls \ cur /\ cur' = {}
    /\ pc' = "collections"
    /\ UNCHANGED <<storage, now, bk, opts, toList, listed, todo, batch, flagged,
                   gathered, tasks>>

PostponeCollection(k) ==
    /\ pc = "collections" /\ k \in todo
    /\ ~HasGhost(k)
    /\ ~IsDeletable(k) /\ ~opts.exclusive
    /\ todo' = todo \ {k}
    /\ UNCHANGED <<storage, now, bk, colls, pc, opts, toList, listed, cur, batch,
                   flagged, gathered, tasks>>

(* -delete-only, and every return before the end: the deferred Stop waits  *)
(* for the tasks that are left.                                            *)
FinishDeleteOnly ==
    /\ pc = "collections" /\ todo = {} /\ opts.deleteOnly
    /\ pc' = "draining" /\ listed' = {}
    /\ opts' = [opts EXCEPT !.deleteOnly = FALSE]
    /\ UNCHANGED <<storage, now, bk, colls, toList, todo, cur, batch, flagged,
                   gathered, tasks>>

Drained ==
    /\ pc = "draining" /\ tasks = {}
    /\ PrunerGone
    /\ UNCHANGED <<storage, now, bk, colls, tasks>>

-----------------------------------------------------------------------------
(* Prune: collecting.                                                      *)

ChunksOf(S) == UNION {s.chunks : s \in S}

(* The paths an exhaustive run compares.  ListAllFiles names a file        *)
(* relative to chunks/, a collection names its fossils with that prefix,   *)
(* so whatever collections are pending, no fossil that is listed is ever   *)
(* found among referencedFossils.                                          *)
ListedPath(c)    == <<"", c>>
CollectedPath(c) == <<"chunks/", c>>

InReferencedFossils(c) == ListedPath(c) \in {CollectedPath(d) : d \in Chunks}

(* Non-exhaustive: chunks of the flagged snapshots that no other snapshot  *)
(* references are fossilized, or deleted at once in exclusive mode.        *)
TargetTasks(F, b) ==
    {Task(IF opts.exclusive THEN "deleteChunk" ELSE "fossilize", c, b) :
        c \in ChunksOf(F) \ ChunksOf(listed \ F)}

(* Exhaustive: every chunk file and every fossil file is looked at. *)
OrphanFossils(F) ==
    {c \in fossil : ~InReferencedFossils(c) /\ c \notin ChunksOf(listed \ F)}

ExhaustiveTasks(F, b) ==
    {Task(IF opts.exclusive THEN "deleteChunk" ELSE "fossilize", c, b) :
        c \in live \ ChunksOf(listed \ F)}
    \cup
    {Task("resurrect", c, b) :
        c \in {d \in fossil : ~InReferencedFossils(d) /\ d \in ChunksOf(listed \ F)}}
    \cup
    IF opts.exclusive THEN {Task("deleteFossil", c, b) : c \in OrphanFossils(F)} ELSE {}

(* The chunks that are made fossils, deleted or collected. *)
Collected(F) ==
    {t.chunk : t \in IF opts.exhaustive THEN ExhaustiveTasks(F, batch) ELSE TargetTasks(F, batch)}
    \cup (IF opts.exhaustive THEN OrphanFossils(F) ELSE {})

(* Mutant: some snapshot of every id stays. *)
KeepsOne(F) == \A s \in listed : \E u \in listed \ F : u.id = s.id

(* The latest snapshot of every id stays. *)
KeepsLatest(F) ==
    \A s \in listed : \E u \in listed \ F : u.id = s.id /\ Latest(listed, u)

(* The snapshots to delete are chosen by revision, tag or retention        *)
(* policy; here any set of them.                                           *)
SelectSnapshots(F) ==
    /\ pc = "collections" /\ todo = {} /\ ~opts.deleteOnly
    /\ IF (F = {} /\ ~opts.exhaustive) \/ (~opts.exclusive /\ ~KeepsLatest(F))
         THEN /\ pc' = "draining" /\ listed' = {}
              /\ UNCHANGED <<batch, flagged, gathered, tasks>>
         ELSE /\ pc' = "collecting" /\ listed' = listed
              /\ flagged' = F
              /\ batch' = batch + 1
              /\ tasks' = tasks \cup IF opts.exhaustive THEN ExhaustiveTasks(F, batch')
                                                        ELSE TargetTasks(F, batch')
              /\ gathered' = IF opts.exhaustive /\ ~opts.exclusive THEN OrphanFossils(F) ELSE {}
    /\ opts' = [opts EXCEPT !.exhaustive = FALSE]
    /\ UNCHANGED <<storage, now, bk, colls, toList, todo, cur>>

(* The collection is saved once all tasks are done, unless it is empty.    *)
(* What has been read of the snapshots is not used any more.               *)
SaveCollection ==
    /\ pc = "collecting" /\ tasks = {}
    /\ colls' = IF gathered = {} \/ opts.exclusive THEN colls
                ELSE colls \cup {[lastRevs |-> LastRevisions(listed),
                                  deleted  |-> {<<s.id, s.rev>> : s \in flagged},
                                  fossils  |-> gathered,
                                  endTime  |-> now]}
    /\ pc' = "deleting" /\ listed' = {} /\ gathered' = {}
    /\ UNCHANGED <<storage, now, bk, opts, toList, todo, cur, batch, flagged, tasks>>

(* Snapshot files are deleted one by one, after the collection is safe. *)
DeleteSnapshot(s) ==
    /\ pc = "deleting" /\ s \in flagged
    /\ snaps' = snaps \ {s}
    /\ flagged' = flagged \ {s}
    /\ UNCHANGED <<live, fossil, now, bk, colls, pc, opts, toList, listed, todo, cur,
                   batch, gathered, tasks>>

FinishPrune ==
    /\ pc = "deleting" /\ flagged = {}
    /\ PrunerGone
    /\ UNCHANGED <<storage, now, bk, colls, tasks>>

(* The prune process is killed; its queue dies with it. *)
CrashPrune ==
    /\ pc # "idle"
    /\ PrunerGone
    /\ tasks' = {}
    /\ UNCHANGED <<storage, now, bk, colls>>

-----------------------------------------------------------------------------
(* The workers of the prune's ChunkOperator.  An error logged by a worker  *)
(* ends the process.                                                       *)

Runnable(t) ==
    /\ t \in tasks
    /\ Cardinality({u \in tasks : u.batch < t.batch}) < Threads

Fossilize(t) ==
    /\ Runnable(t) /\ t.op = "fossilize"
    /\ IF t.chunk \in live \cup fossil
         THEN /\ live' = live \ {t.chunk}
              /\ fossil' = fossil \cup {t.chunk}
              /\ gathered' = gathered \cup {t.chunk}
              /\ tasks' = tasks \ {t}
              /\ UNCHANGED <<pc, opts, toList, listed, todo, cur, batch, flagged>>
         ELSE PrunerGone /\ tasks' = {} /\ UNCHANGED <<live, fossil>>
    /\ UNCHANGED <<snaps, now, bk, colls>>

Resurrect(t) ==
    /\ Runnable(t) /\ t.op = "resurrect"
    /\ IF t.chunk \in live \cup fossil
         THEN /\ live' = live \cup {t.chunk}
              /\ fossil' = fossil \ {t.chunk}
              /\ tasks' = tasks \ {t}
              /\ UNCHANGED pruner
         ELSE PrunerGone /\ tasks' = {} /\ UNCHANGED <<live, fossil>>
    /\ UNCHANGED <<snaps, now, bk, colls>>

(* Deleting a file that is not there is only a warning. *)
DeleteFossil(t) ==
    /\ Runnable(t) /\ t.op = "deleteFossil"
    /\ fossil' = fossil \ {t.chunk}
    /\ tasks' = tasks \ {t}
    /\ UNCHANGED <<live, snaps, now, bk, colls, pruner>>

DeleteChunk(t) ==
    /\ Runnable(t) /\ t.op = "deleteChunk"
    /\ live' = live \ {t.chunk}
    /\ tasks' = tasks \ {t}
    /\ UNCHANGED <<fossil, snaps, now, bk, colls, pruner>>

(* check -fossils -resurrect finds a chunk of a snapshot only as a fossil. *)
CheckResurrect(c) ==
    /\ c \in ChunksOf(snaps) /\ c \notin live /\ c \in fossil
    /\ live' = live \cup {c} /\ fossil' = fossil \ {c}
    /\ UNCHANGED <<snaps, now, bk, colls, pruner, tasks>>

Tick ==
    /\ now < MaxTime
    /\ now' = now + 1
    /\ UNCHANGED <<storage, bk, colls, pruner, tasks>>

-----------------------------------------------------------------------------
(* Operating conditions.  The code enforces none of these, and ordinary    *)
(* use can break them.  Each name in Relax drops the condition of that     *)
(* name, which shows what it is needed for.                                *)

Assumed(name) == name \notin Relax

(* "hosts": no two ids share a host.  Ids that do never back up at the     *)
(* same time (MayBackup): that is what the code presumes of a host.        *)
ASSUME OneIdPerHost ==
    /\ HostOf = [x \in Ids |-> HostOf[x]]
    /\ Assumed("hosts") => \A x, y \in Ids : HostOf[x] = HostOf[y] => x = y

(* An id prune can see: it has a snapshot, is not ignored, and its latest  *)
(* snapshot was not older than seven days at time t.                       *)
Protected(x, t) ==
    /\ x \notin Ignored
    /\ \E s \in snaps : s.id = x /\ Latest(snaps, s) /\ s.endTime >= t - MaxRunningTime

NothingPending == pc = "idle" /\ colls = {}

(* "unprotected": a first backup, a backup after more than seven days and  *)
(* one of an ignored id run only while no prune runs and none is pending.  *)
(* "exclusive": an exclusive prune runs alone, is not killed, and starts   *)
(* with no collection pending.                                             *)
MayBackup(x) ==
    /\ Assumed("unprotected") => Protected(x, now) \/ NothingPending
    /\ ~opts.exclusive
    /\ \A y \in Ids : Running(y) => HostOf[y] # HostOf[x]

MayPrune(o) ==
    /\ Assumed("unprotected") => \A x \in Ids : Running(x) => Protected(x, now)
    /\ o.exclusive => \A x \in Ids : ~Running(x)
    /\ o.exclusive /\ Assumed("exclusive") => colls = {}

MayCrash == ~opts.exclusive

(* A prune decides on the collections within one tick of listing. *)
MayTick ==
    /\ pc \notin {"list", "collections", "dropping"}
    /\ Assumed("unprotected") =>
          \A x \in Ids : Running(x) => Protected(x, now + 1) \/ NothingPending

(* "resumed": the chunks that a backup takes over from an incomplete       *)
(* snapshot are still there when it starts.                                *)
MayResume(inc) == Assumed("resumed") => inc \subseteq live

(* "overlap": no chunk is fossilized again that a pending collection names *)
(* or that tasks of an earlier one are left for.                           *)
Pending == (UNION {k.fossils : k \in colls}) \cup {t.chunk : t \in tasks}

MayCollect(F) == Assumed("overlap") => Collected(F) \cap Pending = {}

-----------------------------------------------------------------------------
Init ==
    /\ live = ChunksOf(InitialSnaps) /\ fossil = {}
    /\ snaps = InitialSnaps
    /\ now = 1
    /\ bk = [x \in Ids |-> NoBackup]
    /\ colls = {} /\ tasks = {}
    /\ pc = "idle" /\ opts = NoOptions
    /\ toList = {} /\ listed = {} /\ todo = {} /\ cur = {} /\ batch = 0
    /\ flagged = {} /\ gathered = {}

BackupNext ==
    \E x \in Ids :
        \/ \E inc \in SUBSET Chunks : MayBackup(x) /\ MayResume(inc) /\ StartBackup(x, inc)
        \/ \E c \in Chunks : UseCached(x, c) \/ FindExisting(x, c) \/ UploadChunk(x, c)
        \/ RecordEndTime(x)
        \/ CommitSnapshot(x)
        \/ AbortBackup(x)

PruneNext ==
    \/ \E o \in PruneOptions : MayPrune(o) /\ StartPrune(o)
    \/ \E x \in toList : ListRevisions(x)
    \/ ListCollections
    \/ \E k \in todo : GhostCollection(k) \/ DeleteFossils(k) \/ PostponeCollection(k)
    \/ DropCollection
    \/ FinishDeleteOnly
    \/ Drained
    \/ \E F \in SUBSET listed : MayCollect(F) /\ SelectSnapshots(F)
    \/ SaveCollection
    \/ \E s \in flagged : DeleteSnapshot(s)
    \/ FinishPrune
    \/ MayCrash /\ CrashPrune

WorkerNext ==
    \E t \in tasks : Fossilize(t) \/ Resurrect(t) \/ DeleteFossil(t) \/ DeleteChunk(t)

Next ==
    \/ BackupNext
    \/ PruneNext
    \/ WorkerNext
    \/ \E c \in Chunks : CheckResurrect(c)
    \/ MayTick /\ Tick

Spec == Init /\ [][Next]_vars

-----------------------------------------------------------------------------
(* Properties.                                                             *)

(* Every variable has its type. *)
TypeOK ==
    /\ live \in SUBSET Chunks /\ fossil \in SUBSET Chunks
    /\ snaps \in SUBSET Snapshot
    /\ now \in Nat
    /\ bk \in [Ids -> BackupState]
    /\ colls \in SUBSET Collection
    /\ pc \in {"idle", "list", "collections", "dropping", "draining", "collecting", "deleting"}
    /\ opts \in Options
    /\ toList \in SUBSET Ids
    /\ listed \in SUBSET Snapshot
    /\ todo \in SUBSET Collection /\ cur \in SUBSET Collection
    /\ batch \in Nat
    /\ flagged \in SUBSET Snapshot
    /\ gathered \in SUBSET Chunks
    /\ tasks \in SUBSET TaskSet

(* The snapshots an exclusive prune is deleting: their chunks go first. *)
Doomed == IF opts.exclusive THEN flagged ELSE {}

(* No data is lost: every chunk of every snapshot in the storage is there, *)
(* as a chunk or as a fossil a restore falls back to.                      *)
Recoverable == \A s \in snaps \ Doomed : s.chunks \subseteq live \cup fossil

(* The same for a backup under way: whatever prune does meanwhile, each    *)
(* chunk it has decided not to upload, and each it may still take from its *)
(* cache without asking the storage, exists.                               *)
InFlightRecoverable ==
    \A x \in Ids : bk[x].refs \cup bk[x].cache \subseteq live \cup fossil

(* All this is a storage as SnapshotStorage describes it: a snapshot in it *)
(* can be restored from the commit to the step that deletes it (the one    *)
(* that decides so if the prune is exclusive), whatever backups, prunes    *)
(* and their crashes do to its chunks.                                     *)
Storage == INSTANCE SnapshotStorage WITH
    snapshots  <- snaps \ Doomed,
    restorable <- {s \in snaps \ Doomed : s.chunks \subseteq live \cup fossil},
    alone      <- opts.exclusive

KeepsSnapshots == Storage!Spec

(* A worker never meets a chunk that is neither a chunk nor a fossil, the  *)
(* error that kills the prune process.                                     *)
TasksFindTheirChunk ==
    \A t \in tasks : t.op \in {"fossilize", "resurrect"} => t.chunk \in live \cup fossil

(* The latest revision of an id is deleted by exclusive prunes only: it is *)
(* what backups under way take their cached chunks from.                   *)
LatestKept ==
    [][\A s \in snaps : Latest(snaps, s) /\ ~opts.exclusive => s \in snaps']_vars

=============================================================================
