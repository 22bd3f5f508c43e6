-------------------------- MODULE ChunkDownloader ---------------------------
(***************************************************************************)
(* The download pipeline of a restore: the thread that restores one file   *)
(* after the other, the ChunkDownloader that decides which chunks to fetch *)
(* ahead, and the worker goroutines of the ChunkOperator that fetch them.  *)
(* The thread and the workers share a bounded task queue, an unbuffered    *)
(* completion channel, a counter of active tasks and the pool of chunk     *)
(* buffers.                                                                *)
(*                                                                         *)
(* Code: duplicacy_chunkdownloader.go, duplicacy_chunkoperator.go, Restore *)
(* and RestoreFile (duplicacy_backupmanager.go), GetChunk and PutChunk     *)
(* (duplicacy_config.go).  Chunks are identified by their hashes.          *)
(***************************************************************************)
EXTENDS Integers, Sequences, FiniteSets

CONSTANTS
    Threads,        \* worker goroutines, which is also the capacity of the task queue
    Restores,       \* the restores to consider: what AddFiles has made (module
                    \* RestorePlan) and what the target directory holds already
    AllowFailures,  \* -persist
    Faulty          \* the hashes whose download may fail

ASSUME Constants ==
    /\ Threads \in Nat \ {0}
    /\ AllowFailures \in BOOLEAN

(* What AddFiles makes: a file has a range of the tasks, and begins in the *)
(* last task of the one before it or later.  Hashes are numbers.           *)
ASSUME Plans == \A p \in Restores :
    /\ p.tasks \in Seq(Nat \ {0}) /\ p.needed \subseteq DOMAIN p.tasks
    /\ p.files \in Seq([start : DOMAIN p.tasks, end : DOMAIN p.tasks, want : Seq(Nat \ {0})])
    /\ \A n \in DOMAIN p.files : p.files[n].start <= p.files[n].end
    /\ \A m, n \in DOMAIN p.files : m < n => p.files[m].end <= p.files[n].start

VARIABLES
    plan,         \* this restore, which never changes: its tasks and files, the tasks
                  \* AddFiles marked needed, the files that exist already (existing),
                  \* the hashes their chunks may have (local) and -overwrite
    pc,           \* where the restoring thread is
    f,            \* the file it works on
    i,            \* the task of that file it works on
    found,        \* tasks of the file with a hash that is in the local copy
    failed,       \* failedFileCount > 0
    needed,       \* tasks marked needed
    started,      \* tasks with isDownloading set
    completed,    \* completedTasks
    held,         \* held[k]: the buffer of task k, 0 for nil
    last,         \* lastChunkIndex
    active,       \* numberOfActiveChunks
    queue,        \* taskQueue
    uncounted,    \* AddTask has sent a task and not yet counted it
    count,        \* numberOfActiveTasks
    worker,       \* the state of each goroutine
    pool,         \* chunkPool: how often each buffer is in it
    buffers       \* every buffer allocated: the hash of its data, and isBroken

restorer   == <<plan, f, found, failed>>
downloader == <<needed, started, completed, held, last, active>>
memory     == <<pool, buffers>>
vars       == <<restorer, pc, i, downloader, queue, uncounted, count, worker, memory>>

Alive   == pc \notin {"done", "exited"}
Tasks   == DOMAIN plan.tasks
Workers == 1 .. Threads

(* st is "idle", "fetch" with a buffer in hand, "send" waiting to send on  *)
(* the completion channel, "sent" returning from Run, or "stopped"; broken *)
(* is whether the download failed.                                         *)
Idle == [st |-> "idle", task |-> 0, buffer |-> 0, broken |-> FALSE]

-----------------------------------------------------------------------------
(* The chunk pool.                                                         *)

(* GetChunk for the buffer b: one from the pool, a new one if that is empty. *)
GetChunk(b) ==
    /\ \/ /\ \A c \in DOMAIN buffers : pool[c] = 0
          /\ b = Len(buffers) + 1
          /\ pool' = Append(pool, 0)
       \/ /\ b \in DOMAIN buffers /\ pool[b] > 0
          /\ pool' = [pool EXCEPT ![b] = @ - 1]
    /\ buffers' = [c \in 1 .. Len(pool') |->
                      IF c = b THEN [hash |-> 0, broken |-> FALSE] ELSE buffers[c]]

(* PutChunk for the buffers of the tasks in S. *)
PutChunks(S) ==
    [b \in DOMAIN pool |-> pool[b] + Cardinality({k \in S : held[k] = b})]

-----------------------------------------------------------------------------
(* The workers of the ChunkOperator.                                       *)

(* A task is received and DownloadChunk gets a buffer and resets it. *)
TakeTask(w) ==
    /\ Alive /\ worker[w].st = "idle" /\ queue # <<>>
    /\ queue' = Tail(queue)
    /\ \E b \in 1 .. Len(buffers) + 1 :
          /\ GetChunk(b)
          /\ worker' = [worker EXCEPT ![w] = [st |-> "fetch", task |-> Head(queue),
                                                 buffer |-> b, broken |-> FALSE]]
    /\ UNCHANGED <<restorer, pc, i, downloader, uncounted, count>>

(* The chunk is found, downloaded, decrypted and has the right id. *)
FetchChunk(w) ==
    /\ Alive /\ worker[w].st = "fetch"
    /\ buffers' = [buffers EXCEPT ![worker[w].buffer].hash = plan.tasks[worker[w].task]]
    /\ worker' = [worker EXCEPT ![w].st = "send"]
    /\ UNCHANGED <<restorer, pc, i, downloader, queue, uncounted, count, pool>>

(* The attempts are used up.  The error ends the process unless failures   *)
(* are allowed; then the chunk completes marked as broken.                 *)
FailChunk(w) ==
    /\ Alive /\ worker[w].st = "fetch" /\ plan.tasks[worker[w].task] \in Faulty
    /\ IF AllowFailures
         THEN /\ buffers' = [buffers EXCEPT ![worker[w].buffer].broken = TRUE]
              /\ worker' = [worker EXCEPT ![w].st = "send", ![w].broken = TRUE]
              /\ UNCHANGED pc
         ELSE /\ pc' = "exited"
              /\ UNCHANGED <<buffers, worker>>
    /\ UNCHANGED <<restorer, i, downloader, queue, uncounted, count, pool>>

(* Mutant: every buffer goes back to the pool. *)
FinishTaskPutting(w) ==
    /\ Alive /\ worker[w].st = "sent"
    /\ pool' = [pool EXCEPT ![worker[w].buffer] = @ + 1]
    /\ count' = count - 1
    /\ worker' = [worker EXCEPT ![w] = Idle]
    /\ UNCHANGED <<restorer, pc, i, downloader, queue, uncounted, buffers>>

(* A worker whose completion was received returns from Run.  A failed      *)
(* download did not clear chunk, so the deferred function puts the buffer  *)
(* back into the pool although the completion has handed it over.          *)
FinishTask(w) ==
    /\ Alive /\ worker[w].st = "sent"
    /\ pool' = IF worker[w].broken THEN [pool EXCEPT ![worker[w].buffer] = @ + 1] ELSE pool
    /\ count' = count - 1
    /\ worker' = [worker EXCEPT ![w] = Idle]
    /\ UNCHANGED <<restorer, pc, i, downloader, queue, uncounted, buffers>>

-----------------------------------------------------------------------------
(* The restoring thread.                                                   *)

(* DownloadAsync up to the send: waits while the queue is full. *)
AddTask(k) ==
    /\ Len(queue) < Threads
    /\ queue' = Append(queue, k)
    /\ uncounted' = TRUE

(* Mutant: a task is counted before and after it is sent. *)
CountTaskTwice ==
    /\ Alive /\ uncounted
    /\ uncounted' = FALSE /\ count' = count + 2
    /\ UNCHANGED <<restorer, pc, i, downloader, queue, worker, memory>>

(* AddTask counts a task only after it has been sent. *)
CountTask ==
    /\ Alive /\ uncounted
    /\ uncounted' = FALSE /\ count' = count + 1
    /\ UNCHANGED <<restorer, pc, i, downloader, queue, worker, memory>>

(* Reclaim(k) gives the buffers of completed tasks before k back to the    *)
(* pool; n downloads are added to the active ones with it.                 *)
Reclaimable(k) == IF last >= k THEN {} ELSE {c \in completed : c < k /\ held[c] # 0}

(* Mutant: reclaimed chunks stay active. *)
ReclaimKeepingActive(k, n) ==
    /\ pool' = PutChunks(Reclaimable(k))
    /\ held' = [t \in Tasks |-> IF t \in Reclaimable(k) THEN 0 ELSE held[t]]
    /\ completed' = completed \ Reclaimable(k)
    /\ active' = active + n
    /\ last' = IF last >= k THEN last ELSE k

(* Mutant: chunks fetched on demand are not counted as active. *)
ReclaimUncounted(k, n) ==
    /\ pool' = PutChunks(Reclaimable(k))
    /\ held' = [t \in Tasks |-> IF t \in Reclaimable(k) THEN 0 ELSE held[t]]
    /\ completed' = completed \ Reclaimable(k)
    /\ active' = active - Cardinality(Reclaimable(k))
    /\ last' = IF last >= k THEN last ELSE k

Reclaim(k, n) ==
    /\ pool' = PutChunks(Reclaimable(k))
    /\ held' = [t \in Tasks |-> IF t \in Reclaimable(k) THEN 0 ELSE held[t]]
    /\ completed' = completed \ Reclaimable(k)
    /\ active' = active - Cardinality(Reclaimable(k)) + n
    /\ last' = IF last >= k THEN last ELSE k

Ready(at) == pc = at /\ ~uncounted

Exists == Ready("file") /\ f <= Len(plan.files) /\ f \in plan.existing

(* Nothing to do for the file: it is unchanged, by size and time or by hash. *)
SkipFile ==
    /\ Exists
    /\ f' = f + 1
    /\ UNCHANGED <<plan, pc, found, failed, i, downloader, queue, uncounted, count, worker, memory>>

(* It is not, and may not be overwritten: an error, or a failed file. *)
RefuseFile ==
    /\ Exists /\ ~plan.overwrite
    /\ IF AllowFailures THEN failed' = TRUE /\ f' = f + 1 /\ UNCHANGED pc
                        ELSE pc' = "exited" /\ UNCHANGED <<failed, f>>
    /\ UNCHANGED <<plan, found, i, downloader, queue, uncounted, count, worker, memory>>

(* RestoreFile looks for the chunks in the local copy, marks the others    *)
(* needed and calls Prefetch, which begins with Reclaim.                   *)
StartFile ==
    /\ Ready("file") /\ f <= Len(plan.files)
    /\ f \notin plan.existing \/ plan.overwrite
    /\ \E offsetMap \in IF f \in plan.existing THEN SUBSET plan.local ELSE {{}} :
       LET range == plan.files[f].start .. plan.files[f].end IN
       /\ found' = {k \in range : plan.tasks[k] \in offsetMap}
       /\ needed' = needed \cup (range \ found')
    /\ Reclaim(plan.files[f].start, 0)
    /\ i' = plan.files[f].start
    /\ pc' = "prefetch"
    /\ UNCHANGED <<plan, f, failed, started, queue, uncounted, count, worker, buffers>>

(* Mutant: as many as the file has. *)
PrefetchUnlimited ==
    /\ Ready("prefetch")
    /\ LET wanted == {k \in i .. plan.files[f].end : k \in needed \ started} IN
       IF wanted = {}
         THEN /\ pc' = "chunk"
              /\ UNCHANGED <<queue, uncounted, started, active>>
         ELSE \E k \in wanted :
                 /\ \A l \in wanted : k <= l
                 /\ AddTask(k)
                 /\ started' = started \cup {k} /\ active' = active + 1
                 /\ UNCHANGED pc
    /\ UNCHANGED <<restorer, i, needed, completed, held, last, count, worker, memory>>

(* Prefetch: the needed chunks of the file, as many as threads permit. *)
Prefetch ==
    /\ Ready("prefetch")
    /\ LET wanted == {k \in i .. plan.files[f].end : k \in needed \ started} IN
       IF wanted = {} \/ active >= Threads
         THEN /\ pc' = "chunk"
              /\ UNCHANGED <<queue, uncounted, started, active>>
         ELSE \E k \in wanted :
                 /\ \A l \in wanted : k <= l
                 /\ AddTask(k)
                 /\ started' = started \cup {k} /\ active' = active + 1
                 /\ UNCHANGED pc
    /\ UNCHANGED <<restorer, i, needed, completed, held, last, count, worker, memory>>

InFile == i <= plan.files[f].end

(* The chunk is in the existing file, where it belongs. *)
UseLocalCopy ==
    /\ Ready("chunk") /\ InFile /\ i \in found
    /\ i' = i + 1
    /\ UNCHANGED <<restorer, pc, downloader, queue, uncounted, count, worker, memory>>

(* WaitForChunk(i): Reclaim, then the download is started unless it is. *)
WaitForChunk ==
    /\ Ready("chunk") /\ InFile
    /\ started' = started \cup {i}
    /\ IF i \in started
         THEN Reclaim(i, 0) /\ UNCHANGED <<queue, uncounted>>
         ELSE Reclaim(i, 1) /\ AddTask(i)
    /\ pc' = "ahead"
    /\ UNCHANGED <<restorer, i, needed, count, worker, buffers>>

(* Looking ahead: the tasks that follow, up to the first not needed, as    *)
(* many as threads permit.                                                 *)
LookAhead ==
    /\ Ready("ahead")
    /\ LET next == {k \in Tasks : k > i /\ k \notin needed \cap started
                                  /\ \A l \in i + 1 .. k - 1 : l \in needed \cap started} IN
       IF active >= Threads \/ next \cap needed = {}
         THEN /\ pc' = "receive"
              /\ UNCHANGED <<queue, uncounted, started, active>>
         ELSE \E k \in next :
                 /\ AddTask(k)
                 /\ started' = started \cup {k} /\ active' = active + 1
                 /\ UNCHANGED pc
    /\ UNCHANGED <<restorer, i, needed, completed, held, last, count, worker, memory>>

(* A completion, of any task, is received until the one for i is there. *)
Receive(w) ==
    /\ Ready("receive") /\ i \notin completed
    /\ worker[w].st = "send"
    /\ completed' = completed \cup {worker[w].task}
    /\ held' = [held EXCEPT ![worker[w].task] = worker[w].buffer]
    /\ worker' = [worker EXCEPT ![w].st = "sent"]
    /\ UNCHANGED <<restorer, pc, i, needed, started, last, active, queue, uncounted, count, memory>>

(* WaitForChunk returns the buffer: a broken one fails the file, the data  *)
(* of any other is written to it.                                          *)
UseChunk ==
    /\ Ready("receive") /\ i \in completed
    /\ IF buffers[held[i]].broken
         THEN /\ failed' = TRUE /\ f' = f + 1
              /\ pc' = "file"
              /\ UNCHANGED i
         ELSE /\ i' = i + 1
              /\ pc' = "chunk"
              /\ UNCHANGED <<failed, f>>
    /\ UNCHANGED <<plan, found, downloader, queue, uncounted, count, worker, memory>>

(* The hash of the file is checked at the end; RightData says that it is   *)
(* right when the files read meanwhile do not change.                      *)
FinishFile ==
    /\ Ready("chunk") /\ ~InFile
    /\ f' = f + 1
    /\ pc' = "file"
    /\ UNCHANGED <<plan, found, failed, i, downloader, queue, uncounted, count, worker, memory>>

(* After the last file Restore stops the operator, unless a file failed.   *)
(* Stop waits until no task is active, then for every worker to be idle.   *)
FinishRestore ==
    /\ Ready("file") /\ f > Len(plan.files)
    /\ pc' = IF failed \/ count < 0 THEN "done" ELSE "stop"
    /\ UNCHANGED <<restorer, i, downloader, queue, uncounted, count, worker, memory>>

(* Mutant: Stop does not wait for active tasks. *)
StopWorkerAtOnce(w) ==
    /\ Ready("stop")
    /\ worker[w].st = "idle"
    /\ worker' = [worker EXCEPT ![w].st = "stopped"]
    /\ UNCHANGED <<restorer, pc, i, downloader, queue, uncounted, count, memory>>

StopWorker(w) ==
    /\ Ready("stop") /\ count <= 0
    /\ worker[w].st = "idle"
    /\ worker' = [worker EXCEPT ![w].st = "stopped"]
    /\ UNCHANGED <<restorer, pc, i, downloader, queue, uncounted, count, memory>>

Stopped ==
    /\ Ready("stop") /\ \A w \in Workers : worker[w].st = "stopped"
    /\ pc' = "done" /\ count' = count - 1
    /\ UNCHANGED <<restorer, i, downloader, queue, uncounted, worker, memory>>

-----------------------------------------------------------------------------
Init ==
    /\ plan \in Restores
    /\ pc = "file" /\ f = 1 /\ i = 0 /\ found = {} /\ failed = FALSE
    /\ needed = plan.needed /\ started = {} /\ completed = {}
    /\ held = [k \in Tasks |-> 0] /\ last = 0 /\ active = 0
    /\ queue = <<>> /\ uncounted = FALSE /\ count = 0
    /\ worker = [w \in Workers |-> Idle]
    /\ pool = <<>> /\ buffers = <<>>

RestorerNext ==
    \/ CountTask \/ SkipFile \/ RefuseFile \/ StartFile \/ Prefetch \/ UseLocalCopy
    \/ WaitForChunk \/ LookAhead \/ UseChunk \/ FinishFile \/ FinishRestore \/ Stopped
    \/ \E w \in Workers : Receive(w) \/ StopWorker(w)

WorkerNext(w) == TakeTask(w) \/ FetchChunk(w) \/ FailChunk(w) \/ FinishTask(w)

Terminating == ~Alive /\ UNCHANGED vars

Next ==
    \/ RestorerNext
    \/ \E w \in Workers : WorkerNext(w)
    \/ Terminating

(* Goroutines are scheduled, and a download ends, well or badly. *)
Fairness == WF_vars(RestorerNext) /\ \A w \in Workers : WF_vars(WorkerNext(w))

Spec == Init /\ [][Next]_vars /\ Fairness

-----------------------------------------------------------------------------
(* Properties.                                                             *)

(* Every variable has its type. *)
TypeOK ==
    /\ plan \in Restores
    /\ pc \in {"file", "prefetch", "chunk", "ahead", "receive", "stop", "done", "exited"}
    /\ f \in 1 .. Len(plan.files) + 1
    /\ i \in 0 .. Len(plan.tasks) + 1
    /\ failed \in BOOLEAN /\ uncounted \in BOOLEAN
    /\ found \subseteq Tasks /\ needed \subseteq Tasks
    /\ started \subseteq Tasks /\ completed \subseteq Tasks
    /\ held \in [Tasks -> 0 .. Len(buffers)]
    /\ last \in 0 .. Len(plan.tasks) /\ active \in 0 .. Len(plan.tasks)
    /\ queue \in Seq(Tasks) /\ Len(queue) <= Threads
    /\ count \in Int
    /\ worker \in [Workers -> [st : {"idle", "fetch", "send", "sent", "stopped"},
                               task : Tasks \cup {0}, buffer : 0 .. Len(buffers),
                               broken : BOOLEAN]]
    /\ pool \in Seq(Nat) /\ Len(pool) = Len(buffers)
    /\ buffers \in Seq([hash : Nat, broken : BOOLEAN])

(* AddFiles turns the range of chunks of a file into one of tasks: the     *)
(* tasks of every place in it are for the chunk the snapshot has there,    *)
(* whichever chunks the file shares with the ones before it.               *)
Planned(p) ==
    \A n \in DOMAIN p.files : \A k \in p.files[n].start .. p.files[n].end :
        p.files[n].want[k - p.files[n].start + 1] = p.tasks[k]

FilesPlanned == Planned(plan)

(* RestoreFile never writes the wrong data: the buffer WaitForChunk returns *)
(* for a place in a file is either marked broken or holds the data of the  *)
(* chunk the snapshot has at that place.                                   *)
RightData ==
    pc = "receive" /\ i \in completed =>
        \/ buffers[held[i]].broken
        \/ buffers[held[i]].hash = plan.files[f].want[i - plan.files[f].start + 1]

(* No two of the pool, the downloader and the workers use one buffer. *)
BuffersOwnedOnce ==
    \A b \in DOMAIN buffers :
        pool[b] + Cardinality({k \in Tasks : held[k] = b})
                + Cardinality({w \in Workers : worker[w].st \in {"fetch", "send"}
                                               /\ worker[w].buffer = b}) <= 1

(* AddTask and the workers never wait for each other: when the queue is    *)
(* full and the thread, which may be about to add a task, is not receiving,*)
(* some worker can go on.                                                  *)
QueueDrains ==
    Alive /\ pc # "receive" /\ (pc = "ahead" => active < Threads) /\ Len(queue) = Threads =>
        \E w \in Workers : worker[w].st # "send"

(* numberOfActiveChunks is what its comment says: the chunks being         *)
(* downloaded, or downloaded and not reclaimed.                            *)
ActiveChunks ==
    active = Cardinality({k \in started :
                \/ \E n \in DOMAIN queue : queue[n] = k
                \/ \E w \in Workers : worker[w].st \in {"fetch", "send"} /\ worker[w].task = k
                \/ held[k] # 0})

(* Stop leaves nothing behind: although a task is counted only after it    *)
(* has been sent, no worker is stopped while a task is queued or running.  *)
StoppedWhenIdle ==
    (\E w \in Workers : worker[w].st = "stopped") =>
        queue = <<>> /\ \A w \in Workers : worker[w].st \in {"idle", "stopped"}

(* A restore into an empty directory ends. *)
RestoreEnds ==
    plan.existing = {} => <>~Alive

(* Every chunk that was downloaded is received and inserted in the         *)
(* completed tasks, which is the only way out of "send".                   *)
DownloadsComplete ==
    \A w \in Workers : worker[w].st = "send" ~> worker[w].st # "send"

-----------------------------------------------------------------------------
(* The inductive invariants of module DownloaderProofs.                    *)

(* The tasks queued, the workers that have one in hand and those tasks,    *)
(* and the tasks under way or not reclaimed.                               *)
Queued  == {queue[n] : n \in DOMAIN queue}
Running == {w \in Workers : worker[w].st \in {"fetch", "send"}}
InHand  == {worker[w].task : w \in Running}
Flying  == Queued \cup InHand \cup completed

(* A task is started once, and then in one place. *)
OnePlace ==
    /\ \A m, n \in DOMAIN queue : queue[m] = queue[n] => m = n
    /\ \A v, w \in Running : worker[v].task = worker[w].task => v = w
    /\ \A w \in Running : worker[w].task # 0 /\ worker[w].buffer # 0
    /\ Queued \cap InHand = {} /\ Queued \cap completed = {} /\ InHand \cap completed = {}
    /\ Flying \subseteq started
    /\ completed = {k \in Tasks : held[k] # 0}

(* The thread goes through the tasks of the files in order, and what has   *)
(* been reclaimed is behind it.                                            *)
Position ==
    /\ pc = "file" /\ f <= Len(plan.files) => last <= plan.files[f].start
    /\ pc \in {"prefetch", "chunk", "ahead", "receive"} =>
          /\ f <= Len(plan.files)
          /\ plan.files[f].start <= i /\ i <= plan.files[f].end + 1
          /\ last <= i /\ last <= plan.files[f].end
    /\ pc \in {"ahead", "receive"} => i <= plan.files[f].end /\ last = i

(* numberOfActiveChunks exceeds the number of threads only by the chunk    *)
(* the thread has asked for, which it reclaims before it asks for the next.*)
Limited ==
    /\ active = Cardinality(Flying)
    /\ active <= Threads \/ (active = Threads + 1 /\ last \in Flying)
    /\ active > Threads /\ pc \in {"file", "prefetch", "chunk", "stop"} => last \in completed

(* Every task is counted from when it is queued until its worker is idle,  *)
(* except while the thread is in AddTask.                                  *)
Uncounted == IF uncounted THEN 1 ELSE 0
Occupied  == {w \in Workers : worker[w].st \in {"fetch", "send", "sent"}}
Counts ==
    /\ pc # "done" => count + Uncounted = Len(queue) + Cardinality(Occupied)
    /\ pc \in {"stop", "done"} => ~uncounted
    /\ \A w \in Workers : worker[w].st = "stopped" => pc \in {"stop", "done", "exited"}

PipelineInv == TypeOK /\ OnePlace /\ Position /\ Limited /\ Counts /\ StoppedWhenIdle

(* Without failures: a buffer is in the pool, or with one task, or with    *)
(* one worker.                                                             *)
Owned ==
    /\ \A b \in DOMAIN pool : pool[b] <= 1
    /\ \A k \in completed : pool[held[k]] = 0
    /\ \A k, l \in completed : held[k] = held[l] => k = l
    /\ \A w \in Running : pool[worker[w].buffer] = 0
    /\ \A v, w \in Running : worker[v].buffer = worker[w].buffer => v = w
    /\ \A w \in Running : \A k \in completed : worker[w].buffer # held[k]

(* What was downloaded is in the buffer of the task. *)
Filled ==
    /\ \A k \in completed : buffers[held[k]].hash = plan.tasks[k]
    /\ \A w \in Running : worker[w].st = "send" =>
          buffers[worker[w].buffer].hash = plan.tasks[worker[w].task]

BufferInv == Owned /\ Filled /\ \A w \in Workers : ~worker[w].broken

=============================================================================
