--------------------------- MODULE CopySnapshots ----------------------------
(***************************************************************************)
(* Copying snapshots from one storage to another (CopySnapshots in         *)
(* duplicacy_backupmanager.go): a pool of workers downloads the chunks the *)
(* destination does not list and hands each of them to a second pool,      *)
(* which uploads it; when both pools are stopped the snapshot files follow.*)
(* Meanwhile the source is pruned and others back up to the destination,   *)
(* which is pruned between copies.                                         *)
(*                                                                         *)
(* A pool (duplicacy_chunkoperator.go) has a queue as long as the number   *)
(* of its workers, and a count of tasks that is raised only after a task   *)
(* was put in the queue; Stop trusts the count.                            *)
(***************************************************************************)
EXTENDS Integers, FiniteSets

CONSTANTS Chunks,             \* revision -> the chunks of the snapshot, metadata included
          DownloadThreads,
          UploadThreads,
          EmptyChunks,        \* chunks of length 0 at the destination
          DestinationPruned,  \* whether the destination may be pruned during a copy
          MaxCopies           \* a bound on the number of copies

Revisions == DOMAIN Chunks
Chunk == UNION {Chunks[r] : r \in Revisions}

ASSUME ThreadsAssumption == DownloadThreads \in Nat \ {0} /\ UploadThreads \in Nat \ {0}
ASSUME ChunkAssumption == IsFiniteSet(Chunk) /\ EmptyChunks \subseteq Chunk
ASSUME BoundsAssumption == MaxCopies \in Nat /\ DestinationPruned \in BOOLEAN

VARIABLES source,       \* the chunks in the source, fossils included
          sourceFiles,  \* the revisions in the source
          dest,         \* chunk -> "none", "empty" or "whole" at the destination
          destFiles,    \* the revisions at the destination
          copies,       \* how many copies were started
          pc,           \* what the copying process does
          snapshots,    \* the revisions being copied
          toCopy,       \* chunks not asked for yet
          down,         \* the pool of downloads
          up            \* the pool of uploads

storages == <<source, sourceFiles, dest, destFiles>>
vars == <<storages, copies, pc, snapshots, toCopy, down, up>>

\* A pool: its queue, what the workers do for which chunk, the count, how many
\* workers were stopped.
CreateChunkOperator == [queue |-> {}, work |-> [c \in {} |-> ""], active |-> 0, stopped |-> 0]

Busy(pool) == DOMAIN pool.work
HasWorker(pool, threads) == Cardinality(Busy(pool)) + pool.stopped < threads

\* (Mutant: a queue has room for one more.)
HasRoomForOneMore(pool, threads) == Cardinality(pool.queue) <= threads

HasRoom(pool, threads) == Cardinality(pool.queue) < threads

\* AddTask, its first half and its second
Enqueue(pool, c) == [pool EXCEPT !.queue = @ \cup {c}]
Count(pool) == [pool EXCEPT !.active = @ + 1]

\* Of a worker: it takes a task, goes on to the next step of it, is done with it.
Take(pool, c, step) ==
    [pool EXCEPT !.queue = @ \ {c}, !.work = [d \in Busy(pool) \cup {c} |-> IF d = c THEN step ELSE pool.work[d]]]
Go(pool, c, step) == [pool EXCEPT !.work[c] = step]

\* (Mutant: a task that is done keeps being counted.)
DoneUncounted(pool, c) == [pool EXCEPT !.work = [d \in Busy(pool) \ {c} |-> pool.work[d]]]

Done(pool, c) == [pool EXCEPT !.active = @ - 1, !.work = [d \in Busy(pool) \ {c} |-> pool.work[d]]]

Idle ==
    /\ pc = "idle" /\ snapshots = {} /\ toCopy = {}
    /\ down = CreateChunkOperator /\ up = CreateChunkOperator

Exit ==
    /\ pc' = "idle" /\ snapshots' = {} /\ toCopy' = {}
    /\ down' = CreateChunkOperator /\ up' = CreateChunkOperator

Init ==
    /\ source = Chunk /\ sourceFiles = Revisions
    /\ dest = [c \in Chunk |-> IF c \in EmptyChunks THEN "empty" ELSE "none"] /\ destFiles = {}
    /\ copies = 0 /\ Idle

----------------------------------------------------------------------------
(* The process                                                             *)

\* The revisions asked for that the destination does not have.  Their lists of
\* chunks are read from the source; if this fails the copy ends.
Start(revisions) ==
    LET missing == (revisions \cap sourceFiles) \ destFiles
    IN  /\ pc = "idle" /\ copies < MaxCopies /\ copies' = copies + 1
        /\ IF missing = {} THEN UNCHANGED <<pc, snapshots>>
           ELSE pc' = "list" /\ snapshots' = missing
        /\ UNCHANGED <<storages, toCopy, down, up>>

\* A chunk of length 0 does not count as being there.
MissingChunks(needed) == {c \in needed : dest[c] # "whole"}

ListDestination ==
    /\ pc = "list"
    /\ toCopy' = MissingChunks(UNION {Chunks[r] : r \in snapshots}) /\ pc' = "add"
    /\ UNCHANGED <<storages, copies, snapshots, down, up>>

\* DownloadAsync
AddDownload(c) ==
    /\ pc = "add" /\ c \in toCopy /\ HasRoom(down, DownloadThreads)
    /\ down' = Enqueue(down, c) /\ toCopy' = toCopy \ {c} /\ pc' = "count"
    /\ UNCHANGED <<storages, copies, snapshots, up>>

CountDownload ==
    /\ pc = "count"
    /\ down' = Count(down) /\ pc' = "add"
    /\ UNCHANGED <<storages, copies, snapshots, toCopy, up>>

\* (Mutant: nobody waits for the tasks.)
MayStopAtOnce(pool) == TRUE

\* Stop waits until no task is counted and then for every worker to be idle.
MayStop(pool) == pool.active <= 0

StopDownloader ==
    /\ pc = "add" /\ toCopy = {} /\ MayStop(down)
    /\ pc' = "stop down"
    /\ UNCHANGED <<storages, copies, snapshots, toCopy, down, up>>

StopUploader ==
    /\ pc = "stop down" /\ down.stopped = DownloadThreads /\ MayStop(up)
    /\ pc' = "stop up"
    /\ UNCHANGED <<storages, copies, snapshots, toCopy, down, up>>

\* A worker that waits for a task or for the end may get the end.
StopWorker ==
    /\ \/ pc = "stop down" /\ HasWorker(down, DownloadThreads)
          /\ down' = [down EXCEPT !.stopped = @ + 1] /\ UNCHANGED up
       \/ pc = "stop up" /\ HasWorker(up, UploadThreads)
          /\ up' = [up EXCEPT !.stopped = @ + 1] /\ UNCHANGED down
    /\ UNCHANGED <<storages, copies, pc, snapshots, toCopy>>

\* The snapshot files, one after the other.
UploadFile(r) ==
    /\ pc = "stop up" /\ up.stopped = UploadThreads /\ r \in snapshots
    /\ destFiles' = destFiles \cup {r}
    /\ IF snapshots = {r} THEN Exit
       ELSE snapshots' = snapshots \ {r} /\ UNCHANGED <<pc, toCopy, down, up>>
    /\ UNCHANGED <<source, sourceFiles, dest, copies>>

\* Any error ends the process, and so does the user.
Fail == pc # "idle" /\ Exit /\ UNCHANGED <<storages, copies>>

----------------------------------------------------------------------------
(* The workers                                                             *)

TakeDownload(c) ==
    /\ c \in down.queue /\ HasWorker(down, DownloadThreads)
    /\ down' = Take(down, c, "get")
    /\ UNCHANGED <<storages, copies, pc, snapshots, toCopy, up>>

\* DownloadChunk: a chunk the source no longer has ends the process.
DownloadChunk(c) ==
    /\ c \in Busy(down) /\ down.work[c] = "get"
    /\ IF c \in source THEN down' = Go(down, c, "send") /\ UNCHANGED <<pc, snapshots, toCopy, up>> ELSE Exit
    /\ UNCHANGED <<storages, copies>>

\* The completion function: Upload, which waits for room in the other queue.
SendUpload(c) ==
    /\ c \in Busy(down) /\ down.work[c] = "send" /\ HasRoom(up, UploadThreads)
    /\ up' = Enqueue(up, c) /\ down' = Go(down, c, "count")
    /\ UNCHANGED <<storages, copies, pc, snapshots, toCopy>>

CountUpload(c) ==
    /\ c \in Busy(down) /\ down.work[c] = "count"
    /\ up' = Count(up) /\ down' = Go(down, c, "end")
    /\ UNCHANGED <<storages, copies, pc, snapshots, toCopy>>

\* (Mutant: a download is over before its upload is counted.)
MayEndEarly(step) == step \in {"count", "end"}

MayEnd(step) == step = "end"

EndDownload(c) ==
    /\ c \in Busy(down) /\ MayEnd(down.work[c])
    /\ down' = Done(down, c)
    /\ UNCHANGED <<storages, copies, pc, snapshots, toCopy, up>>

TakeUpload(c) ==
    /\ c \in up.queue /\ HasWorker(up, UploadThreads)
    /\ up' = Take(up, c, "put")
    /\ UNCHANGED <<storages, copies, pc, snapshots, toCopy, down>>

\* UploadChunk: whatever has the name of the chunk counts as the chunk.
UploadChunk(c) ==
    /\ c \in Busy(up)
    /\ dest' = [dest EXCEPT ![c] = IF @ = "none" THEN "whole" ELSE @]
    /\ up' = Done(up, c)
    /\ UNCHANGED <<source, sourceFiles, destFiles, copies, pc, snapshots, toCopy, down>>

----------------------------------------------------------------------------
(* Others                                                                  *)

\* A prune of the source deletes a revision and what no other uses.
PruneSource(r) ==
    /\ r \in sourceFiles
    /\ sourceFiles' = sourceFiles \ {r}
    /\ source' = UNION {Chunks[s] : s \in sourceFiles \ {r}}
    /\ UNCHANGED <<dest, destFiles, copies, pc, snapshots, toCopy, down, up>>

\* A backup to the destination uploads a chunk.
OtherUpload(c) ==
    /\ dest[c] = "none" /\ dest' = [dest EXCEPT ![c] = "whole"]
    /\ UNCHANGED <<source, sourceFiles, destFiles, copies, pc, snapshots, toCopy, down, up>>

\* A prune of the destination deletes a chunk no snapshot there uses.
PruneDestination(c) ==
    /\ pc = "idle" \/ DestinationPruned
    /\ dest[c] # "none" /\ \A r \in destFiles : c \notin Chunks[r]
    /\ dest' = [dest EXCEPT ![c] = "none"]
    /\ UNCHANGED <<source, sourceFiles, destFiles, copies, pc, snapshots, toCopy, down, up>>

Main ==
    \/ ListDestination \/ CountDownload \/ StopDownloader \/ StopUploader
    \/ \E c \in Chunk : AddDownload(c)
    \/ \E r \in Revisions : UploadFile(r)

Workers ==
    \/ StopWorker
    \/ \E c \in Chunk :
          \/ TakeDownload(c) \/ DownloadChunk(c) \/ SendUpload(c) \/ CountUpload(c) \/ EndDownload(c)
          \/ TakeUpload(c) \/ UploadChunk(c)

Next ==
    \/ \E revisions \in SUBSET Revisions : Start(revisions)
    \/ Main \/ Workers \/ Fail
    \/ \E r \in Revisions : PruneSource(r)
    \/ \E c \in Chunk : OtherUpload(c) \/ PruneDestination(c)

\* The goroutines of a process that is not stopped are scheduled.
Spec == Init /\ [][Next]_vars /\ WF_vars(Main) /\ WF_vars(Workers)

----------------------------------------------------------------------------
TypeOK ==
    /\ source \subseteq Chunk /\ sourceFiles \subseteq Revisions /\ destFiles \subseteq Revisions
    /\ dest \in [Chunk -> {"none", "empty", "whole"}] /\ copies \in 0..MaxCopies
    /\ pc \in {"idle", "list", "add", "count", "stop down", "stop up"}
    /\ snapshots \subseteq Revisions /\ toCopy \subseteq Chunk
    /\ \A pool \in {down, up} : pool.queue \subseteq Chunk /\ Busy(pool) \subseteq Chunk /\ pool.active \in Int
    /\ Cardinality(down.queue) <= DownloadThreads /\ Cardinality(Busy(down)) + down.stopped <= DownloadThreads
    /\ Cardinality(up.queue) <= UploadThreads /\ Cardinality(Busy(up)) + up.stopped <= UploadThreads

\* A snapshot at the destination has all its chunks there, whichever copies failed,
\* whatever was pruned in the source and whoever else uploads.
DestinationComplete == \A r \in destFiles : \A c \in Chunks[r] : dest[c] = "whole"

\* A pool whose workers are being stopped has nothing left to do, although the count
\* Stop looks at lags behind the queue.
StoppedWhenDone ==
    /\ pc \in {"stop down", "stop up"} => down.queue = {} /\ Busy(down) = {}
    /\ pc = "stop up" => up.queue = {} /\ Busy(up) = {}

\* A copy ends: a full queue of uploads does not keep the downloads waiting for ever.
CopyEnds == pc # "idle" ~> pc = "idle"

----------------------------------------------------------------------------
(* The inductive invariant behind DestinationComplete and StoppedWhenDone, *)
(* part by part.                                                           *)

WorkStep == {"get", "send", "count", "end", "put"}
Pool == [queue : SUBSET Chunk, work : UNION {[S -> WorkStep] : S \in SUBSET Chunk}, active : Int, stopped : Nat]

\* Before the first task of a copy its pools are new.
NewPools ==
    /\ pc \in {"idle", "list"} => toCopy = {} /\ down = CreateChunkOperator /\ up = CreateChunkOperator
    /\ pc \in {"stop down", "stop up"} => toCopy = {}

\* A chunk is asked for once: it is in one place of each pool, and in the second
\* pool only when it has left the first steps of the other.
OnePlace ==
    /\ toCopy \cap (down.queue \cup Busy(down) \cup up.queue \cup Busy(up)) = {}
    /\ down.queue \cap (Busy(down) \cup up.queue \cup Busy(up)) = {}
    /\ up.queue \cap Busy(up) = {}
    /\ \A c \in Busy(down) : c \in up.queue \cup Busy(up) => down.work[c] \in {"count", "end"}

Sending == {c \in Busy(down) : down.work[c] = "count"}

Uncounted == IF pc = "count" THEN 1 ELSE 0

\* The counts lag behind by the tasks that were sent and not counted.
Counts ==
    /\ down.active + Uncounted = Cardinality(down.queue) + Cardinality(Busy(down))
    /\ up.active + Cardinality(Sending) = Cardinality(up.queue) + Cardinality(Busy(up))

\* A chunk of a snapshot being copied is at the destination or on its way.
OnItsWay(c) ==
    \/ dest[c] = "whole" \/ c \in toCopy \cup down.queue \cup up.queue \cup Busy(up)
    \/ c \in Busy(down) /\ down.work[c] \in {"get", "send"}

Copied == pc \notin {"idle", "list"} => \A r \in snapshots : \A c \in Chunks[r] : OnItsWay(c)

PoolInv == TypeOK /\ down \in Pool /\ up \in Pool /\ NewPools /\ OnePlace /\ Counts /\ StoppedWhenDone

CopyInv == PoolInv /\ Copied /\ (\A c \in Chunk : dest[c] # "empty") /\ DestinationComplete
=============================================================================
