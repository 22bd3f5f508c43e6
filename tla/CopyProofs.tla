----------------------------- MODULE CopyProofs -----------------------------
(***************************************************************************)
(* CopySnapshots for any number of workers, snapshots and chunks: no pool  *)
(* is stopped with work left, and a snapshot at the destination has all    *)
(* its chunks there.                                                       *)
(***************************************************************************)
EXTENDS CopySnapshots, FiniteSetTheorems, TLAPS

-----------------------------------------------------------------------------
(* The pools.                                                              *)

(* What the type of a pool says of its fields. *)
LEMMA PoolFields ==
    ASSUME NEW p \in Pool
    PROVE  /\ p.queue \subseteq Chunk /\ Busy(p) \subseteq Chunk
           /\ p.work \in [Busy(p) -> WorkStep]
           /\ p.active \in Int /\ p.stopped \in Nat
BY DEF Pool, Busy

(* Sets of chunks are finite, and a natural number counts them. *)
LEMMA ChunkSets ==
    ASSUME NEW S \in SUBSET Chunk
    PROVE  IsFiniteSet(S) /\ Cardinality(S) \in Nat /\ (Cardinality(S) = 0 <=> S = {})
<1>1. IsFiniteSet(S)
  BY ChunkAssumption, FS_Subset
<1> QED  BY <1>1, FS_CardinalityType, FS_EmptySet

(* A chunk more, or less, in a set. *)
LEMMA OneMore ==
    ASSUME NEW S \in SUBSET Chunk, NEW c \in Chunk
    PROVE  /\ c \notin S => Cardinality(S \cup {c}) = Cardinality(S) + 1
           /\ c \in S => Cardinality(S \ {c}) = Cardinality(S) - 1
BY ChunkSets, FS_AddElement, FS_RemoveElement

(* A new pool. *)
LEMMA NewPool ==
    /\ CreateChunkOperator \in Pool
    /\ CreateChunkOperator.queue = {} /\ Busy(CreateChunkOperator) = {}
    /\ CreateChunkOperator.active = 0 /\ CreateChunkOperator.stopped = 0
<1>1. [c \in {} |-> ""] \in [{} -> WorkStep]
  OBVIOUS
<1>2. [c \in {} |-> ""] \in UNION {[S -> WorkStep] : S \in SUBSET Chunk}
  BY <1>1
<1> QED  BY <1>2 DEF CreateChunkOperator, Pool, Busy

(* Work on the chunks of any set is work of a pool. *)
LEMMA WorkOf ==
    ASSUME NEW S \in SUBSET Chunk, NEW w \in [S -> WorkStep]
    PROVE  w \in UNION {[T -> WorkStep] : T \in SUBSET Chunk}
OBVIOUS

(* AddTask, its two halves. *)
LEMMA EnqueueFields ==
    ASSUME NEW p \in Pool, NEW c \in Chunk
    PROVE  /\ Enqueue(p, c) \in Pool
           /\ Enqueue(p, c).queue = p.queue \cup {c} /\ Enqueue(p, c).work = p.work
           /\ Busy(Enqueue(p, c)) = Busy(p)
           /\ Enqueue(p, c).active = p.active /\ Enqueue(p, c).stopped = p.stopped
BY DEF Pool, Enqueue, Busy

LEMMA CountFields ==
    ASSUME NEW p \in Pool
    PROVE  /\ Count(p) \in Pool
           /\ Count(p).queue = p.queue /\ Count(p).work = p.work /\ Busy(Count(p)) = Busy(p)
           /\ Count(p).active = p.active + 1 /\ Count(p).stopped = p.stopped
BY DEF Pool, Count, Busy

(* A worker takes a task, goes on with it and is done with it. *)
LEMMA TakeFields ==
    ASSUME NEW p \in Pool, NEW c \in Chunk, NEW step \in WorkStep
    PROVE  /\ Take(p, c, step) \in Pool
           /\ Take(p, c, step).queue = p.queue \ {c} /\ Busy(Take(p, c, step)) = Busy(p) \cup {c}
           /\ \A d \in Busy(p) \cup {c} : Take(p, c, step).work[d] = IF d = c THEN step ELSE p.work[d]
           /\ Take(p, c, step).active = p.active /\ Take(p, c, step).stopped = p.stopped
<1> DEFINE w == [d \in Busy(p) \cup {c} |-> IF d = c THEN step ELSE p.work[d]]
<1>1. Busy(p) \cup {c} \in SUBSET Chunk /\ w \in [Busy(p) \cup {c} -> WorkStep]
  BY PoolFields
<1>2. w \in UNION {[S -> WorkStep] : S \in SUBSET Chunk}
  BY <1>1, WorkOf
<1>3. DOMAIN w = Busy(p) \cup {c}
  OBVIOUS
<1>4. Take(p, c, step) = [p EXCEPT !.queue = @ \ {c}, !.work = w]
  BY DEF Take
<1>5. \A d \in Busy(p) \cup {c} : w[d] = IF d = c THEN step ELSE p.work[d]
  OBVIOUS
<1> HIDE DEF w
<1>6. Take(p, c, step) \in Pool /\ Take(p, c, step).work = w
  BY <1>2, <1>4 DEF Pool
<1> QED  BY <1>3, <1>4, <1>5, <1>6 DEF Pool, Busy

LEMMA GoFields ==
    ASSUME NEW p \in Pool, NEW c \in Busy(p), NEW step \in WorkStep
    PROVE  /\ Go(p, c, step) \in Pool
           /\ Go(p, c, step).queue = p.queue /\ Busy(Go(p, c, step)) = Busy(p)
           /\ \A d \in Busy(p) : Go(p, c, step).work[d] = IF d = c THEN step ELSE p.work[d]
           /\ Go(p, c, step).active = p.active /\ Go(p, c, step).stopped = p.stopped
<1> DEFINE w == [p.work EXCEPT ![c] = step]
<1>1. Busy(p) \in SUBSET Chunk /\ w \in [Busy(p) -> WorkStep]
  BY PoolFields
<1>2. w \in UNION {[S -> WorkStep] : S \in SUBSET Chunk}
  BY <1>1, WorkOf
<1>3. DOMAIN w = Busy(p) /\ \A d \in Busy(p) : w[d] = IF d = c THEN step ELSE p.work[d]
  BY PoolFields
<1>4. Go(p, c, step) = [p EXCEPT !.work = w]
  BY DEF Go
<1> HIDE DEF w
<1>5. Go(p, c, step) \in Pool /\ Go(p, c, step).work = w
  BY <1>2, <1>4 DEF Pool
<1> QED  BY <1>3, <1>4, <1>5 DEF Pool, Busy

LEMMA DoneFields ==
    ASSUME NEW p \in Pool, NEW c
    PROVE  /\ Done(p, c) \in Pool
           /\ Done(p, c).queue = p.queue /\ Busy(Done(p, c)) = Busy(p) \ {c}
           /\ \A d \in Busy(p) \ {c} : Done(p, c).work[d] = p.work[d]
           /\ Done(p, c).active = p.active - 1 /\ Done(p, c).stopped = p.stopped
<1> DEFINE w == [d \in Busy(p) \ {c} |-> p.work[d]]
<1>1. Busy(p) \ {c} \in SUBSET Chunk /\ w \in [Busy(p) \ {c} -> WorkStep]
  BY PoolFields
<1>2. w \in UNION {[S -> WorkStep] : S \in SUBSET Chunk}
  BY <1>1, WorkOf
<1>3. DOMAIN w = Busy(p) \ {c} /\ \A d \in Busy(p) \ {c} : w[d] = p.work[d]
  OBVIOUS
<1>4. Done(p, c) = [p EXCEPT !.active = @ - 1, !.work = w]
  BY DEF Done
<1> HIDE DEF w
<1>6. p.active - 1 \in Int
  BY PoolFields
<1>5. Done(p, c) \in Pool /\ Done(p, c).work = w
  <2>1. Done(p, c) = [queue |-> p.queue, work |-> w, active |-> p.active - 1, stopped |-> p.stopped]
    BY <1>4 DEF Pool
  <2> QED  BY <2>1, <1>2, <1>6 DEF Pool
<1> QED  BY <1>3, <1>4, <1>5 DEF Pool, Busy

(* A worker is stopped. *)
LEMMA StopFields ==
    ASSUME NEW p \in Pool, NEW q, q = [p EXCEPT !.stopped = @ + 1]
    PROVE  /\ q \in Pool /\ q.queue = p.queue /\ q.work = p.work /\ Busy(q) = Busy(p)
           /\ q.active = p.active /\ q.stopped = p.stopped + 1
BY DEF Pool, Busy

-----------------------------------------------------------------------------
(* The pools, action by action.                                            *)

(* The process ends, and its pools with it. *)
LEMMA ExitPools ==
    ASSUME PoolInv, Exit, UNCHANGED <<storages, copies>>
    PROVE  PoolInv'
<1>1. Cardinality({}) = 0 /\ Sending' = {}
  BY FS_EmptySet, NewPool DEF Exit, Sending
<1>3. /\ down' = CreateChunkOperator /\ up' = CreateChunkOperator
      /\ pc' = "idle" /\ snapshots' = {} /\ toCopy' = {} /\ UNCHANGED <<source, sourceFiles, dest, destFiles, copies>>
  BY DEF Exit, storages
<1>4. /\ down'.queue = {} /\ Busy(down') = {} /\ down'.active \in Int /\ down'.stopped = 0
      /\ up'.queue = {} /\ Busy(up') = {} /\ up'.active \in Int /\ up'.stopped = 0
  BY <1>3, NewPool
<1>5. /\ Cardinality(down'.queue) <= DownloadThreads /\ Cardinality(Busy(down')) + down'.stopped <= DownloadThreads
      /\ Cardinality(up'.queue) <= UploadThreads /\ Cardinality(Busy(up')) + up'.stopped <= UploadThreads
  BY <1>1, <1>4, ThreadsAssumption
<1>2. TypeOK'
  BY <1>3, <1>4, <1>5 DEF PoolInv, TypeOK
<1> QED  BY <1>1, <1>2, NewPool DEF Exit, PoolInv, NewPools, OnePlace, Counts, Uncounted, StoppedWhenDone

(* What the invariant says of the cardinalities. *)
LEMMA PoolCounts ==
    ASSUME PoolInv
    PROVE  /\ down.queue \in SUBSET Chunk /\ Busy(down) \in SUBSET Chunk /\ Sending \in SUBSET Chunk
           /\ up.queue \in SUBSET Chunk /\ Busy(up) \in SUBSET Chunk
           /\ Cardinality(down.queue) \in Nat /\ (Cardinality(down.queue) = 0 <=> down.queue = {})
           /\ Cardinality(Busy(down)) \in Nat /\ (Cardinality(Busy(down)) = 0 <=> Busy(down) = {})
           /\ Cardinality(Sending) \in Nat /\ (Cardinality(Sending) = 0 <=> Sending = {})
           /\ Cardinality(up.queue) \in Nat /\ (Cardinality(up.queue) = 0 <=> up.queue = {})
           /\ Cardinality(Busy(up)) \in Nat /\ (Cardinality(Busy(up)) = 0 <=> Busy(up) = {})
           /\ down.active \in Int /\ up.active \in Int /\ down.stopped \in Nat /\ up.stopped \in Nat
<1>1. /\ down.queue \in SUBSET Chunk /\ Busy(down) \in SUBSET Chunk /\ Sending \in SUBSET Chunk
      /\ up.queue \in SUBSET Chunk /\ Busy(up) \in SUBSET Chunk
  BY PoolFields DEF PoolInv, Sending
<1> QED  BY <1>1, ChunkSets, PoolFields DEF PoolInv

LEMMA StartPools ==
    ASSUME PoolInv, NEW revisions \in SUBSET Revisions, Start(revisions)
    PROVE  PoolInv'
<1>2. pc = "idle" /\ pc' \in {"idle", "list"} /\ UNCHANGED <<source, sourceFiles, dest, destFiles, toCopy, down, up>>
  BY DEF Start, PoolInv, TypeOK, storages
<1>4. snapshots' \subseteq Revisions
  BY DEF Start, PoolInv, TypeOK
<1>5. copies' \in 0..MaxCopies
  BY BoundsAssumption DEF Start, PoolInv, TypeOK
<1>1. TypeOK'
  BY <1>2, <1>4, <1>5 DEF PoolInv, TypeOK
<1>3. Sending' = Sending
  BY <1>2 DEF Sending
<1> QED  BY <1>1, <1>2, <1>3 DEF PoolInv, NewPools, OnePlace, Counts, Uncounted, StoppedWhenDone

LEMMA ListPools ==
    ASSUME PoolInv, ListDestination
    PROVE  PoolInv'
<1>1. pc = "list" /\ pc' = "add" /\ UNCHANGED <<storages, copies, snapshots, down, up>>
  BY DEF ListDestination
<1>2. toCopy' \in SUBSET Chunk
  BY DEF PoolInv, TypeOK, ListDestination, MissingChunks, Chunk
<1>3. Sending' = Sending
  BY <1>1 DEF Sending
<1>4. TypeOK'
  BY <1>1, <1>2 DEF PoolInv, TypeOK, storages
<1>5. down.queue = {} /\ Busy(down) = {} /\ up.queue = {} /\ Busy(up) = {}
  BY <1>1, NewPool DEF PoolInv, NewPools
<1> QED  BY <1>1, <1>2, <1>3, <1>4, <1>5 DEF PoolInv, NewPools, OnePlace, Counts, Uncounted, StoppedWhenDone

LEMMA AddPools ==
    ASSUME PoolInv, NEW c \in Chunk, AddDownload(c)
    PROVE  PoolInv'
<1>1. /\ pc = "add" /\ pc' = "count" /\ c \in toCopy /\ toCopy' = toCopy \ {c}
      /\ down' = Enqueue(down, c) /\ UNCHANGED <<storages, copies, snapshots, up>>
      /\ Cardinality(down.queue) < DownloadThreads
  BY DEF AddDownload, HasRoom
<1>2. /\ down' \in Pool /\ down'.queue = down.queue \cup {c} /\ down'.work = down.work
      /\ Busy(down') = Busy(down) /\ down'.active = down.active /\ down'.stopped = down.stopped
  BY <1>1, EnqueueFields DEF PoolInv
<1>3. c \notin down.queue
  BY <1>1 DEF PoolInv, OnePlace
<1>4. Cardinality(down'.queue) = Cardinality(down.queue) + 1
  BY <1>2, <1>3, PoolCounts, OneMore, ZenonT(60)
<1>5. Sending' = Sending
  BY <1>2 DEF Sending
<1>6. TypeOK'
  BY <1>1, <1>2, <1>4, PoolCounts, ThreadsAssumption DEF PoolInv, TypeOK, storages
<1>7. OnePlace'
  BY <1>1, <1>2 DEF PoolInv, OnePlace
<1>8. Counts'
  BY <1>1, <1>2, <1>4, <1>5, PoolCounts DEF PoolInv, Counts, Uncounted
<1> QED  BY <1>1, <1>2, <1>6, <1>7, <1>8 DEF PoolInv, NewPools, StoppedWhenDone

LEMMA CountPools ==
    ASSUME PoolInv, CountDownload
    PROVE  PoolInv'
<1>1. pc = "count" /\ pc' = "add" /\ down' = Count(down) /\ UNCHANGED <<storages, copies, snapshots, toCopy, up>>
  BY DEF CountDownload
<1>2. /\ down' \in Pool /\ down'.queue = down.queue /\ down'.work = down.work
      /\ Busy(down') = Busy(down) /\ down'.active = down.active + 1 /\ down'.stopped = down.stopped
  BY <1>1, CountFields DEF PoolInv
<1>3. Sending' = Sending
  BY <1>2 DEF Sending
<1>4. TypeOK'
  BY <1>1, <1>2, PoolCounts DEF PoolInv, TypeOK, storages
<1>5. OnePlace'
  BY <1>1, <1>2 DEF PoolInv, OnePlace
<1>6. Counts'
  BY <1>1, <1>2, <1>3, PoolCounts DEF PoolInv, Counts, Uncounted
<1> QED  BY <1>1, <1>2, <1>4, <1>5, <1>6 DEF PoolInv, NewPools, StoppedWhenDone

(* Stop trusts the count, and the count can be trusted: a task that was    *)
(* sent and not counted is being counted by somebody Stop has waited for.  *)
LEMMA StopPools ==
    ASSUME PoolInv, StopDownloader \/ StopUploader
    PROVE  PoolInv'
<1>1. UNCHANGED <<storages, copies, snapshots, toCopy, down, up>>
  BY DEF StopDownloader, StopUploader
<1>2. Sending' = Sending
  BY <1>1 DEF Sending
<1>3. CASE StopDownloader
  <2>1. pc = "add" /\ pc' = "stop down" /\ toCopy = {}
    BY <1>3 DEF StopDownloader
  <2>10. down.active <= 0
    BY <1>3 DEF StopDownloader, MayStop
  <2>11. pc = "add"
    BY <2>1
  <2>8. Counts /\ down.active \in Int
    BY PoolCounts DEF PoolInv
  <2>6. /\ Cardinality(down.queue) \in Nat /\ Cardinality(Busy(down)) \in Nat
        /\ Cardinality(down.queue) = 0 => down.queue = {}
        /\ Cardinality(Busy(down)) = 0 => Busy(down) = {}
    BY PoolCounts
  <2>3. down.active = Cardinality(down.queue) + Cardinality(Busy(down))
    BY <2>11, <2>6, <2>8 DEF Counts, Uncounted
  <2>9. Cardinality(down.queue) = 0 /\ Cardinality(Busy(down)) = 0
    BY <2>10, <2>3, <2>6, <2>8
  <2>2. down.queue = {} /\ Busy(down) = {}
    BY <2>6, <2>9
  <2>4. TypeOK'
    BY <1>1, <2>1 DEF PoolInv, TypeOK, storages
  <2>5. Counts'
    BY <1>1, <1>2, <2>1 DEF PoolInv, Counts, Uncounted
  <2> QED  BY <1>1, <2>1, <2>2, <2>4, <2>5 DEF PoolInv, NewPools, OnePlace, StoppedWhenDone
<1>4. CASE StopUploader
  <2>1. pc = "stop down" /\ pc' = "stop up"
    BY <1>4 DEF StopUploader
  <2>10. up.active <= 0
    BY <1>4 DEF StopUploader, MayStop
  <2>2. down.queue = {} /\ Busy(down) = {} /\ Sending = {}
    BY <2>1 DEF PoolInv, StoppedWhenDone, Sending
  <2>6. /\ Cardinality(up.queue) \in Nat /\ Cardinality(Busy(up)) \in Nat
        /\ Cardinality(up.queue) = 0 => up.queue = {}
        /\ Cardinality(Busy(up)) = 0 => Busy(up) = {}
        /\ Cardinality(Sending) = 0
    BY <2>2, PoolCounts
  <2>8. Counts /\ up.active \in Int
    BY PoolCounts DEF PoolInv
  <2>7. up.active = Cardinality(up.queue) + Cardinality(Busy(up))
    BY <2>6, <2>8 DEF Counts, Uncounted
  <2>9. Cardinality(up.queue) = 0 /\ Cardinality(Busy(up)) = 0
    BY <2>10, <2>6, <2>7, <2>8
  <2>3. up.queue = {} /\ Busy(up) = {}
    BY <2>6, <2>9
  <2>4. TypeOK'
    BY <1>1, <2>1 DEF PoolInv, TypeOK, storages
  <2>5. Counts'
    BY <1>1, <1>2, <2>1 DEF PoolInv, Counts, Uncounted
  <2> QED  BY <1>1, <2>1, <2>2, <2>3, <2>4, <2>5 DEF PoolInv, NewPools, OnePlace, StoppedWhenDone
<1> QED  BY <1>3, <1>4

LEMMA StopWorkerPools ==
    ASSUME PoolInv, StopWorker
    PROVE  PoolInv'
<1>1. UNCHANGED <<storages, copies, pc, snapshots, toCopy>> /\ pc \in {"stop down", "stop up"}
  BY DEF StopWorker
<1>2. /\ down' \in Pool /\ down'.queue = down.queue /\ down'.work = down.work
      /\ Busy(down') = Busy(down) /\ down'.active = down.active
      /\ Cardinality(Busy(down)) + down'.stopped <= DownloadThreads
  <2>1. CASE down' = [down EXCEPT !.stopped = @ + 1] /\ HasWorker(down, DownloadThreads)
    BY <2>1, StopFields, PoolCounts, ThreadsAssumption DEF PoolInv, HasWorker
  <2>2. CASE UNCHANGED down
    BY <2>2 DEF PoolInv, TypeOK
  <2> QED  BY <2>1, <2>2 DEF StopWorker
<1>3. /\ up' \in Pool /\ up'.queue = up.queue /\ up'.work = up.work
      /\ Busy(up') = Busy(up) /\ up'.active = up.active
      /\ Cardinality(Busy(up)) + up'.stopped <= UploadThreads
  <2>1. CASE up' = [up EXCEPT !.stopped = @ + 1] /\ HasWorker(up, UploadThreads)
    BY <2>1, StopFields, PoolCounts, ThreadsAssumption DEF PoolInv, HasWorker
  <2>2. CASE UNCHANGED up
    BY <2>2 DEF PoolInv, TypeOK
  <2> QED  BY <2>1, <2>2 DEF StopWorker
<1>4. Sending' = Sending
  BY <1>2 DEF Sending
<1>5. TypeOK'
  BY <1>1, <1>2, <1>3 DEF PoolInv, TypeOK, storages
<1> QED  BY <1>1, <1>2, <1>3, <1>4, <1>5 DEF PoolInv, NewPools, OnePlace, Counts, Uncounted, StoppedWhenDone

(* A pool is new, or nothing but the snapshots to be written changes. *)
LEMMA UploadFilePools ==
    ASSUME PoolInv, NEW r \in Revisions, UploadFile(r)
    PROVE  PoolInv'
<1>1. /\ r \in snapshots /\ destFiles' = destFiles \cup {r}
      /\ UNCHANGED <<source, sourceFiles, dest, copies>>
  BY DEF UploadFile
<1>2. CASE Exit
  <2>1. Cardinality({}) = 0 /\ Sending' = {}
    BY <1>2, FS_EmptySet, NewPool DEF Exit, Sending
  <2>2. /\ down' = CreateChunkOperator /\ up' = CreateChunkOperator
        /\ pc' = "idle" /\ snapshots' = {} /\ toCopy' = {}
    BY <1>2 DEF Exit
  <2>3. /\ down'.queue = {} /\ Busy(down') = {} /\ down'.active \in Int /\ down'.stopped = 0
        /\ up'.queue = {} /\ Busy(up') = {} /\ up'.active \in Int /\ up'.stopped = 0
    BY <2>2, NewPool
  <2>4. /\ Cardinality(down'.queue) <= DownloadThreads /\ Cardinality(Busy(down')) + down'.stopped <= DownloadThreads
        /\ Cardinality(up'.queue) <= UploadThreads /\ Cardinality(Busy(up')) + up'.stopped <= UploadThreads
    BY <2>1, <2>3, ThreadsAssumption
  <2>5. TypeOK'
    BY <1>1, <2>2, <2>3, <2>4 DEF PoolInv, TypeOK
  <2> QED  BY <2>1, <2>2, <2>5, NewPool DEF PoolInv, NewPools, OnePlace, Counts, Uncounted, StoppedWhenDone
<1>3. CASE snapshots' = snapshots \ {r} /\ UNCHANGED <<pc, toCopy, down, up>>
  <2>1. Sending' = Sending
    BY <1>3 DEF Sending
  <2>2. TypeOK'
    BY <1>1, <1>3 DEF PoolInv, TypeOK
  <2> QED  BY <1>3, <2>1, <2>2 DEF PoolInv, NewPools, OnePlace, Counts, Uncounted, StoppedWhenDone
<1> QED  BY <1>2, <1>3 DEF UploadFile

(* Steps that change nothing but the storages. *)
LEMMA StoragePools ==
    ASSUME PoolInv, UNCHANGED <<copies, pc, snapshots, toCopy, down, up>>,
           source' \subseteq Chunk, sourceFiles' \subseteq Revisions, destFiles' \subseteq Revisions,
           dest' \in [Chunk -> {"none", "empty", "whole"}]
    PROVE  PoolInv'
<1>1. Sending' = Sending
  BY DEF Sending
<1>2. TypeOK'
  BY DEF PoolInv, TypeOK
<1> QED  BY <1>1, <1>2 DEF PoolInv, NewPools, OnePlace, Counts, Uncounted, StoppedWhenDone

LEMMA TakeDownloadPools ==
    ASSUME PoolInv, NEW c \in Chunk, TakeDownload(c)
    PROVE  PoolInv'
<1>1. /\ c \in down.queue /\ down' = Take(down, c, "get")
      /\ UNCHANGED <<storages, copies, pc, snapshots, toCopy, up>>
  BY DEF TakeDownload
<1>2. Cardinality(Busy(down)) + down.stopped < DownloadThreads
  BY DEF TakeDownload, HasWorker
<1>3. /\ down' \in Pool /\ down'.queue = down.queue \ {c} /\ Busy(down') = Busy(down) \cup {c}
      /\ \A d \in Busy(down) \cup {c} : down'.work[d] = IF d = c THEN "get" ELSE down.work[d]
      /\ down'.active = down.active /\ down'.stopped = down.stopped
  <2>1. down \in Pool /\ "get" \in WorkStep
    BY DEF PoolInv, WorkStep
  <2> QED  BY <2>1, <1>1, TakeFields
<1>4. c \notin Busy(down) /\ c \notin toCopy /\ c \notin up.queue \cup Busy(up)
  BY <1>1 DEF PoolInv, OnePlace
<1>5. /\ Cardinality(down'.queue) = Cardinality(down.queue) - 1
      /\ Cardinality(Busy(down')) = Cardinality(Busy(down)) + 1
  BY <1>1, <1>3, <1>4, PoolCounts, OneMore, SMTT(60)
<1>6. Sending' = Sending
  BY <1>3, <1>4 DEF Sending
<1>7. /\ Cardinality(down'.queue) <= DownloadThreads
      /\ Cardinality(Busy(down')) + down'.stopped <= DownloadThreads
  <2>1. down'.stopped = down.stopped
    BY <1>3
  <2>2. Cardinality(down.queue) <= DownloadThreads
    BY DEF PoolInv, TypeOK
  <2> QED  BY <2>1, <2>2, <1>2, <1>5, PoolCounts, ThreadsAssumption
<1>8. TypeOK'
  BY <1>1, <1>7, <1>3, PoolFields DEF PoolInv, TypeOK, storages
<1>9. OnePlace'
  BY <1>1, <1>3, <1>4 DEF PoolInv, OnePlace
<1>10. Counts'
  <2>1. Uncounted' = Uncounted /\ Uncounted \in Int
    BY <1>1 DEF Uncounted
  <2>2. Counts /\ up' = up /\ down'.active = down.active
    BY <1>1, <1>3 DEF PoolInv
  <2> QED  BY <2>1, <2>2, <1>5, <1>6, PoolCounts DEF Counts
<1>11. StoppedWhenDone'
  BY <1>1 DEF PoolInv, StoppedWhenDone
<1>12. NewPools'
  BY <1>1, NewPool DEF PoolInv, NewPools
<1> QED  BY <1>1, <1>3, <1>8, <1>9, <1>10, <1>11, <1>12 DEF PoolInv

LEMMA DownloadPools ==
    ASSUME PoolInv, NEW c \in Chunk, DownloadChunk(c)
    PROVE  PoolInv'
<1>1. CASE Exit
  BY <1>1, ExitPools DEF DownloadChunk
<1>2. CASE down' = Go(down, c, "send") /\ UNCHANGED <<pc, snapshots, toCopy, up>>
  <2>1. c \in Busy(down) /\ down.work[c] = "get" /\ UNCHANGED <<storages, copies>>
    BY DEF DownloadChunk
  <2>2. /\ down' \in Pool /\ down'.queue = down.queue /\ Busy(down') = Busy(down)
        /\ \A d \in Busy(down) : down'.work[d] = IF d = c THEN "send" ELSE down.work[d]
        /\ down'.active = down.active /\ down'.stopped = down.stopped
    <3>1. down \in Pool /\ "send" \in WorkStep
      BY DEF PoolInv, WorkStep
    <3> QED  BY <3>1, <1>2, <2>1, GoFields
  <2>3. Sending' = Sending
    BY <2>1, <2>2 DEF Sending
  <2>4. TypeOK'
    BY <1>2, <2>1, <2>2 DEF PoolInv, TypeOK, storages
  <2>5. OnePlace'
    BY <1>2, <2>1, <2>2 DEF PoolInv, OnePlace
  <2>6. Counts'
    BY <1>2, <2>2, <2>3 DEF PoolInv, Counts, Uncounted
  <2>7. NewPools'
    BY <1>2, <2>1, NewPool DEF PoolInv, NewPools
  <2>8. StoppedWhenDone'
    BY <1>2, <2>2 DEF PoolInv, StoppedWhenDone
  <2> QED  BY <1>2, <2>2, <2>4, <2>5, <2>6, <2>7, <2>8 DEF PoolInv
<1> QED  BY <1>1, <1>2 DEF DownloadChunk

LEMMA SendPools ==
    ASSUME PoolInv, NEW c \in Chunk, SendUpload(c)
    PROVE  PoolInv'
<1>1. /\ c \in Busy(down) /\ down.work[c] = "send" /\ up' = Enqueue(up, c) /\ down' = Go(down, c, "count")
      /\ UNCHANGED <<storages, copies, pc, snapshots, toCopy>>
  BY DEF SendUpload
<1>2. Cardinality(up.queue) < UploadThreads
  BY DEF SendUpload, HasRoom
<1>3. down \in Pool /\ up \in Pool /\ "count" \in WorkStep
  BY DEF PoolInv, WorkStep
<1>4. /\ down' \in Pool /\ down'.queue = down.queue /\ Busy(down') = Busy(down)
      /\ \A d \in Busy(down) : down'.work[d] = IF d = c THEN "count" ELSE down.work[d]
      /\ down'.active = down.active /\ down'.stopped = down.stopped
  BY <1>1, <1>3, GoFields
<1>5. /\ up' \in Pool /\ up'.queue = up.queue \cup {c} /\ Busy(up') = Busy(up)
      /\ up'.active = up.active /\ up'.stopped = up.stopped
  BY <1>1, <1>3, EnqueueFields
<1>6. c \notin up.queue /\ c \notin Busy(up) /\ c \notin toCopy /\ c \notin down.queue
  BY <1>1 DEF PoolInv, OnePlace
<1>7. Sending' = Sending \cup {c} /\ c \notin Sending
  BY <1>1, <1>4 DEF Sending
<1>8. /\ Cardinality(up'.queue) = Cardinality(up.queue) + 1
      /\ Cardinality(Sending') = Cardinality(Sending) + 1
  BY <1>5, <1>6, <1>7, PoolCounts, OneMore, SMTT(60)
<1>9. Cardinality(up'.queue) <= UploadThreads
  BY <1>2, <1>8, PoolCounts, ThreadsAssumption
<1>10. TypeOK'
  BY <1>1, <1>4, <1>5, <1>9 DEF PoolInv, TypeOK, storages
<1>11. OnePlace'
  BY <1>1, <1>4, <1>5, <1>6 DEF PoolInv, OnePlace
<1>12. Counts'
  <2>1. Uncounted' = Uncounted /\ Uncounted \in Int
    BY <1>1 DEF Uncounted
  <2>2. Counts /\ down'.active = down.active /\ down'.queue = down.queue /\ Busy(down') = Busy(down)
    BY <1>4 DEF PoolInv
  <2>3. up'.active = up.active /\ Busy(up') = Busy(up)
    BY <1>5
  <2> QED  BY <2>1, <2>2, <2>3, <1>8, PoolCounts DEF Counts
<1>13. StoppedWhenDone'
  BY <1>1, <1>4 DEF PoolInv, StoppedWhenDone
<1>14. NewPools'
  BY <1>1, NewPool DEF PoolInv, NewPools
<1> QED  BY <1>4, <1>5, <1>10, <1>11, <1>12, <1>13, <1>14 DEF PoolInv

LEMMA CountUploadPools ==
    ASSUME PoolInv, NEW c \in Chunk, CountUpload(c)
    PROVE  PoolInv'
<1>1. /\ c \in Busy(down) /\ down.work[c] = "count" /\ up' = Count(up) /\ down' = Go(down, c, "end")
      /\ UNCHANGED <<storages, copies, pc, snapshots, toCopy>>
  BY DEF CountUpload
<1>3. down \in Pool /\ up \in Pool /\ "end" \in WorkStep
  BY DEF PoolInv, WorkStep
<1>4. /\ down' \in Pool /\ down'.queue = down.queue /\ Busy(down') = Busy(down)
      /\ \A d \in Busy(down) : down'.work[d] = IF d = c THEN "end" ELSE down.work[d]
      /\ down'.active = down.active /\ down'.stopped = down.stopped
  BY <1>1, <1>3, GoFields
<1>5. /\ up' \in Pool /\ up'.queue = up.queue /\ Busy(up') = Busy(up)
      /\ up'.active = up.active + 1 /\ up'.stopped = up.stopped
  BY <1>1, <1>3, CountFields
<1>7. Sending' = Sending \ {c} /\ c \in Sending
  BY <1>1, <1>4 DEF Sending
<1>8. Cardinality(Sending') = Cardinality(Sending) - 1
  BY <1>7, PoolCounts, OneMore
<1>10. TypeOK'
  BY <1>1, <1>4, <1>5, PoolFields DEF PoolInv, TypeOK, storages
<1>11. OnePlace'
  BY <1>1, <1>4, <1>5 DEF PoolInv, OnePlace
<1>12. Counts'
  <2>1. Uncounted' = Uncounted /\ Uncounted \in Int
    BY <1>1 DEF Uncounted
  <2>2. Counts /\ down'.active = down.active /\ down'.queue = down.queue /\ Busy(down') = Busy(down)
    BY <1>4 DEF PoolInv
  <2>3. up'.active = up.active + 1 /\ Busy(up') = Busy(up) /\ up'.queue = up.queue
    BY <1>5
  <2> QED  BY <2>1, <2>2, <2>3, <1>8, PoolCounts DEF Counts
<1>13. StoppedWhenDone'
  BY <1>1, <1>4 DEF PoolInv, StoppedWhenDone
<1>14. NewPools'
  BY <1>1, NewPool DEF PoolInv, NewPools
<1> QED  BY <1>4, <1>5, <1>10, <1>11, <1>12, <1>13, <1>14 DEF PoolInv

LEMMA EndDownloadPools ==
    ASSUME PoolInv, NEW c \in Chunk, EndDownload(c)
    PROVE  PoolInv'
<1>1. /\ c \in Busy(down) /\ down.work[c] = "end" /\ down' = Done(down, c)
      /\ UNCHANGED <<storages, copies, pc, snapshots, toCopy, up>>
  BY DEF EndDownload, MayEnd
<1>4. /\ down' \in Pool /\ down'.queue = down.queue /\ Busy(down') = Busy(down) \ {c}
      /\ \A d \in Busy(down) \ {c} : down'.work[d] = down.work[d]
      /\ down'.active = down.active - 1 /\ down'.stopped = down.stopped
  <2>1. down \in Pool
    BY DEF PoolInv
  <2> QED  BY <1>1, <2>1, DoneFields
<1>5. Sending' = Sending
  BY <1>1, <1>4 DEF Sending
<1>6. Cardinality(Busy(down')) = Cardinality(Busy(down)) - 1
  BY <1>1, <1>4, PoolCounts, OneMore
<1>9. Cardinality(Busy(down')) + down'.stopped <= DownloadThreads
  <2>1. down'.stopped = down.stopped
    BY <1>4
  <2>2. Cardinality(Busy(down)) + down.stopped <= DownloadThreads
    BY DEF PoolInv, TypeOK
  <2> QED  BY <2>1, <2>2, <1>6, PoolCounts, ThreadsAssumption
<1>10. TypeOK'
  BY <1>1, <1>4, <1>9, PoolFields DEF PoolInv, TypeOK, storages
<1>11. OnePlace'
  BY <1>1, <1>4 DEF PoolInv, OnePlace
<1>12. Counts'
  <2>1. Uncounted' = Uncounted /\ Uncounted \in Int
    BY <1>1 DEF Uncounted
  <2>2. Counts /\ down'.active = down.active - 1 /\ down'.queue = down.queue /\ up' = up
    BY <1>1, <1>4 DEF PoolInv
  <2> QED  BY <2>1, <2>2, <1>5, <1>6, PoolCounts DEF Counts
<1>13. StoppedWhenDone'
  BY <1>1, <1>4 DEF PoolInv, StoppedWhenDone
<1>14. NewPools'
  BY <1>1, NewPool DEF PoolInv, NewPools
<1> QED  BY <1>1, <1>4, <1>10, <1>11, <1>12, <1>13, <1>14 DEF PoolInv

LEMMA TakeUploadPools ==
    ASSUME PoolInv, NEW c \in Chunk, TakeUpload(c)
    PROVE  PoolInv'
<1>1. /\ c \in up.queue /\ up' = Take(up, c, "put")
      /\ UNCHANGED <<storages, copies, pc, snapshots, toCopy, down>>
  BY DEF TakeUpload
<1>2. Cardinality(Busy(up)) + up.stopped < UploadThreads
  BY DEF TakeUpload, HasWorker
<1>3. /\ up' \in Pool /\ up'.queue = up.queue \ {c} /\ Busy(up') = Busy(up) \cup {c}
      /\ up'.active = up.active /\ up'.stopped = up.stopped
  <2>1. up \in Pool /\ "put" \in WorkStep
    BY DEF PoolInv, WorkStep
  <2> QED  BY <2>1, <1>1, TakeFields
<1>4. c \notin Busy(up)
  BY <1>1 DEF PoolInv, OnePlace
<1>5. /\ Cardinality(up'.queue) = Cardinality(up.queue) - 1
      /\ Cardinality(Busy(up')) = Cardinality(Busy(up)) + 1
  BY <1>1, <1>3, <1>4, PoolCounts, OneMore, ZenonT(60)
<1>6. Sending' = Sending
  BY <1>1 DEF Sending
<1>7. /\ Cardinality(up'.queue) <= UploadThreads
      /\ Cardinality(Busy(up')) + up'.stopped <= UploadThreads
  <2>1. up'.stopped = up.stopped
    BY <1>3
  <2>2. Cardinality(up.queue) <= UploadThreads
    BY DEF PoolInv, TypeOK
  <2> QED  BY <2>1, <2>2, <1>2, <1>5, PoolCounts, ThreadsAssumption
<1>8. TypeOK'
  BY <1>1, <1>7, <1>3, PoolFields DEF PoolInv, TypeOK, storages
<1>9. OnePlace'
  BY <1>1, <1>3, <1>4 DEF PoolInv, OnePlace
<1>10. Counts'
  <2>1. Uncounted' = Uncounted /\ Uncounted \in Int
    BY <1>1 DEF Uncounted
  <2>2. Counts /\ down' = down /\ up'.active = up.active
    BY <1>1, <1>3 DEF PoolInv
  <2> QED  BY <2>1, <2>2, <1>5, <1>6, PoolCounts DEF Counts
<1>11. StoppedWhenDone'
  BY <1>1 DEF PoolInv, StoppedWhenDone
<1>12. NewPools'
  BY <1>1, NewPool DEF PoolInv, NewPools
<1> QED  BY <1>1, <1>3, <1>8, <1>9, <1>10, <1>11, <1>12 DEF PoolInv

LEMMA UploadPools ==
    ASSUME PoolInv, NEW c \in Chunk, UploadChunk(c)
    PROVE  PoolInv'
<1>1. /\ c \in Busy(up) /\ up' = Done(up, c)
      /\ UNCHANGED <<source, sourceFiles, destFiles, copies, pc, snapshots, toCopy, down>>
  BY DEF UploadChunk
<1>2. dest' \in [Chunk -> {"none", "empty", "whole"}]
  BY DEF UploadChunk, PoolInv, TypeOK
<1>4. /\ up' \in Pool /\ up'.queue = up.queue /\ Busy(up') = Busy(up) \ {c}
      /\ up'.active = up.active - 1 /\ up'.stopped = up.stopped
  <2>1. up \in Pool
    BY DEF PoolInv
  <2> QED  BY <1>1, <2>1, DoneFields
<1>5. Sending' = Sending
  BY <1>1 DEF Sending
<1>6. Cardinality(Busy(up')) = Cardinality(Busy(up)) - 1
  BY <1>1, <1>4, PoolCounts, OneMore
<1>9. Cardinality(Busy(up')) + up'.stopped <= UploadThreads
  <2>1. up'.stopped = up.stopped
    BY <1>4
  <2>2. Cardinality(Busy(up)) + up.stopped <= UploadThreads
    BY DEF PoolInv, TypeOK
  <2> QED  BY <2>1, <2>2, <1>6, PoolCounts, ThreadsAssumption
<1>10. TypeOK'
  BY <1>1, <1>2, <1>4, <1>9, PoolFields DEF PoolInv, TypeOK
<1>11. OnePlace'
  BY <1>1, <1>4 DEF PoolInv, OnePlace
<1>12. Counts'
  <2>1. Uncounted' = Uncounted /\ Uncounted \in Int
    BY <1>1 DEF Uncounted
  <2>2. Counts /\ up'.active = up.active - 1 /\ up'.queue = up.queue /\ down' = down
    BY <1>1, <1>4 DEF PoolInv
  <2> QED  BY <2>1, <2>2, <1>5, <1>6, PoolCounts DEF Counts
<1>13. StoppedWhenDone'
  BY <1>1, <1>4 DEF PoolInv, StoppedWhenDone
<1>14. NewPools'
  BY <1>1, NewPool DEF PoolInv, NewPools
<1> QED  BY <1>1, <1>4, <1>10, <1>11, <1>12, <1>13, <1>14 DEF PoolInv

-----------------------------------------------------------------------------
(* The invariant of the pools.                                             *)

LEMMA PoolInit ==
    ASSUME Init
    PROVE  PoolInv
<1>1. Cardinality({}) = 0 /\ Sending = {}
  BY FS_EmptySet, NewPool DEF Init, Idle, Sending
<1>2. /\ down.queue = {} /\ Busy(down) = {} /\ down.active \in Int /\ down.stopped = 0
      /\ up.queue = {} /\ Busy(up) = {} /\ up.active \in Int /\ up.stopped = 0
  BY NewPool DEF Init, Idle
<1>3. /\ Cardinality(down.queue) <= DownloadThreads /\ Cardinality(Busy(down)) + down.stopped <= DownloadThreads
      /\ Cardinality(up.queue) <= UploadThreads /\ Cardinality(Busy(up)) + up.stopped <= UploadThreads
  BY <1>1, <1>2, ThreadsAssumption
<1>4. copies \in 0..MaxCopies
  BY BoundsAssumption DEF Init
<1>5. TypeOK
  BY <1>2, <1>3, <1>4 DEF Init, Idle, TypeOK
<1> QED  BY <1>1, <1>5, NewPool DEF Init, Idle, PoolInv, NewPools, OnePlace, Counts, Uncounted, StoppedWhenDone

LEMMA PoolNext ==
    ASSUME PoolInv, [Next]_vars
    PROVE  PoolInv'
<1>1. CASE \E revisions \in SUBSET Revisions : Start(revisions)
  BY <1>1, StartPools
<1>2. CASE Main
  BY <1>2, ListPools, CountPools, StopPools, AddPools, UploadFilePools DEF Main
<1>3. CASE Workers
  BY <1>3, StopWorkerPools, TakeDownloadPools, DownloadPools, SendPools, CountUploadPools,
     EndDownloadPools, TakeUploadPools, UploadPools DEF Workers
<1>4. CASE Fail
  BY <1>4, ExitPools DEF Fail
<1>5. CASE \E r \in Revisions : PruneSource(r)
  <2>1. PICK r \in Revisions : PruneSource(r)
    BY <1>5
  <2>2. source' \subseteq Chunk /\ sourceFiles' \subseteq Revisions
    BY <2>1 DEF PruneSource, PoolInv, TypeOK, Chunk
  <2> QED  BY <2>1, <2>2, StoragePools DEF PruneSource, PoolInv, TypeOK
<1>6. CASE \E c \in Chunk : OtherUpload(c) \/ PruneDestination(c)
  <2>1. dest' \in [Chunk -> {"none", "empty", "whole"}]
    BY <1>6 DEF OtherUpload, PruneDestination, PoolInv, TypeOK
  <2> QED  BY <1>6, <2>1, StoragePools DEF OtherUpload, PruneDestination, PoolInv, TypeOK
<1>7. CASE UNCHANGED vars
  BY <1>7, StoragePools DEF vars, storages, PoolInv, TypeOK
<1> QED  BY <1>1, <1>2, <1>3, <1>4, <1>5, <1>6, <1>7 DEF Next

(* PoolInv holds whatever happens to the storages: with chunks of length 0, *)
(* with a destination that is pruned during a copy.                        *)
THEOREM PoolInvariant == Spec => []PoolInv
<1>1. Init => PoolInv
  BY PoolInit
<1>2. PoolInv /\ [Next]_vars => PoolInv'
  BY PoolNext
<1> QED  BY <1>1, <1>2, PTL DEF Spec

(* Every variable has its type, queues and pools keep to their sizes. *)
THEOREM TypeCorrect == Spec => []TypeOK
<1>1. PoolInv => TypeOK
  BY DEF PoolInv
<1> QED  BY <1>1, PoolInvariant, PTL

(* Stop leaves no work behind in either pool (ChunkOperator.Stop looks at  *)
(* a count that is raised only after a task was put in the queue).         *)
THEOREM NothingLeftBehind == Spec => []StoppedWhenDone
<1>1. PoolInv => StoppedWhenDone
  BY DEF PoolInv
<1> QED  BY <1>1, PoolInvariant, PTL

-----------------------------------------------------------------------------
(* The destination, when nothing of length 0 was ever there and nobody     *)
(* prunes it during a copy.                                                *)

LEMMA CopyInit ==
    ASSUME Init, EmptyChunks = {}
    PROVE  CopyInv
<1>1. \A c \in Chunk : dest[c] = "none"
  BY DEF Init
<1> QED  BY <1>1, PoolInit DEF Init, Idle, CopyInv, Copied, DestinationComplete

(* The chunks of a revision are chunks. *)
LEMMA ChunksOf == \A r \in Revisions : Chunks[r] \subseteq Chunk
BY DEF Chunk

(* A step of a copy that removes nothing from the destination and leaves a *)
(* chunk that was on its way on its way.                                   *)
LEMMA CopyGoesOn ==
    ASSUME CopyInv, PoolInv', snapshots' \subseteq snapshots, destFiles' = destFiles,
           pc' \notin {"idle", "list"} => pc \notin {"idle", "list"},
           \A c \in Chunk : dest'[c] = dest[c] \/ (dest[c] = "none" /\ dest'[c] = "whole"),
           pc' \notin {"idle", "list"} => \A c \in Chunk : OnItsWay(c) => OnItsWay(c)'
    PROVE  CopyInv'
<1>1. snapshots \subseteq Revisions /\ destFiles \subseteq Revisions
  BY DEF CopyInv, PoolInv, TypeOK
<1>2. Copied'
  BY <1>1, ChunksOf DEF CopyInv, Copied
<1>3. DestinationComplete'
  BY <1>1, ChunksOf DEF CopyInv, DestinationComplete
<1> QED  BY <1>2, <1>3 DEF CopyInv

(* The process: from the listing to the snapshot file. *)
LEMMA CopyMain ==
    ASSUME CopyInv, PoolInv', Main
    PROVE  CopyInv'
<1>0. PoolInv /\ down \in Pool /\ up \in Pool
  BY DEF CopyInv, PoolInv
<1>1. CASE ListDestination
  <2>1. /\ pc' = "add" /\ toCopy' = MissingChunks(UNION {Chunks[r] : r \in snapshots})
        /\ UNCHANGED <<source, sourceFiles, dest, destFiles, snapshots>>
    BY <1>1 DEF ListDestination, storages
  <2>2. \A r \in snapshots : \A c \in Chunks[r] : dest'[c] = "whole" \/ c \in toCopy'
    BY <2>1 DEF MissingChunks
  <2>3. Copied'
    BY <2>1, <2>2 DEF Copied, OnItsWay
  <2> QED  BY <2>1, <2>3 DEF CopyInv, DestinationComplete
<1>2. ASSUME NEW c \in Chunk, AddDownload(c)  PROVE CopyInv'
  <2>1. /\ pc = "add" /\ toCopy' = toCopy \ {c} /\ down' = Enqueue(down, c)
        /\ UNCHANGED <<source, sourceFiles, dest, destFiles, snapshots, up>>
    BY <1>2 DEF AddDownload, storages
  <2>2. down'.queue = down.queue \cup {c} /\ down'.work = down.work /\ Busy(down') = Busy(down)
    BY <2>1, <1>0, EnqueueFields
  <2>3. \A d \in Chunk : OnItsWay(d) => OnItsWay(d)'
    BY <2>1, <2>2 DEF OnItsWay
  <2> QED  BY <2>1, <2>3, CopyGoesOn
<1>3. CASE CountDownload
  <2>1. /\ pc = "count" /\ down' = Count(down)
        /\ UNCHANGED <<source, sourceFiles, dest, destFiles, snapshots, toCopy, up>>
    BY <1>3 DEF CountDownload, storages
  <2>2. down'.queue = down.queue /\ down'.work = down.work /\ Busy(down') = Busy(down)
    BY <2>1, <1>0, CountFields
  <2>3. \A d \in Chunk : OnItsWay(d) => OnItsWay(d)'
    BY <2>1, <2>2 DEF OnItsWay
  <2> QED  BY <2>1, <2>3, CopyGoesOn
<1>4. CASE StopDownloader \/ StopUploader
  <2>1. /\ pc \in {"add", "stop down"}
        /\ UNCHANGED <<source, sourceFiles, dest, destFiles, snapshots, toCopy, down, up>>
    BY <1>4 DEF StopDownloader, StopUploader, storages
  <2>2. \A d \in Chunk : OnItsWay(d) => OnItsWay(d)'
    BY <2>1 DEF OnItsWay
  <2> QED  BY <2>1, <2>2, CopyGoesOn
<1>5. ASSUME NEW r \in Revisions, UploadFile(r)  PROVE CopyInv'
  <2>1. /\ pc = "stop up" /\ r \in snapshots /\ destFiles' = destFiles \cup {r}
        /\ UNCHANGED <<source, sourceFiles, dest>>
    BY <1>5 DEF UploadFile
  <2>2. toCopy = {} /\ down.queue = {} /\ Busy(down) = {} /\ up.queue = {} /\ Busy(up) = {}
    BY <2>1, <1>0 DEF PoolInv, NewPools, StoppedWhenDone
  <2>3. \A c \in Chunks[r] : dest[c] = "whole"
    BY <2>1, <2>2 DEF CopyInv, Copied, OnItsWay
  <2>4. DestinationComplete'
    BY <2>1, <2>3 DEF CopyInv, DestinationComplete
  <2>5. Copied'
    <3>1. CASE Exit
      BY <3>1 DEF Exit, Copied
    <3>2. CASE snapshots' = snapshots \ {r} /\ UNCHANGED <<pc, toCopy, down, up>>
      BY <3>2, <2>1 DEF CopyInv, Copied, OnItsWay
    <3> QED  BY <3>1, <3>2, <1>5 DEF UploadFile
  <2> QED  BY <2>1, <2>4, <2>5 DEF CopyInv
<1> QED  BY <1>1, <1>2, <1>3, <1>4, <1>5 DEF Main

(* The process ends: nothing is being copied any more. *)
LEMMA CopyExit ==
    ASSUME CopyInv, PoolInv', Exit, UNCHANGED <<storages, copies>>
    PROVE  CopyInv'
BY DEF CopyInv, Copied, DestinationComplete, Exit, storages

(* The workers hand a chunk on from one pool to the other. *)
LEMMA CopyWorkers ==
    ASSUME CopyInv, PoolInv', Workers
    PROVE  CopyInv'
<1>0. PoolInv /\ down \in Pool /\ up \in Pool /\ dest \in [Chunk -> {"none", "empty", "whole"}]
  BY DEF CopyInv, PoolInv, TypeOK
<1>10. pc \notin {"idle", "list"} \/ (Busy(down) = {} /\ Busy(up) = {} /\ down.queue = {} /\ up.queue = {})
  BY <1>0, NewPool DEF PoolInv, NewPools
<1>1. CASE StopWorker
  <2>1. /\ pc \in {"stop down", "stop up"}
        /\ UNCHANGED <<source, sourceFiles, dest, destFiles, snapshots, toCopy>>
    BY <1>1 DEF StopWorker, storages
  <2>2. down'.queue = down.queue /\ down'.work = down.work /\ Busy(down') = Busy(down)
    BY <1>1, <1>0, StopFields DEF StopWorker
  <2>3. up'.queue = up.queue /\ Busy(up') = Busy(up)
    BY <1>1, <1>0, StopFields DEF StopWorker
  <2>4. \A d \in Chunk : OnItsWay(d) => OnItsWay(d)'
    BY <2>1, <2>2, <2>3 DEF OnItsWay
  <2> QED  BY <2>1, <2>4, CopyGoesOn
<1>2. ASSUME NEW c \in Chunk, TakeDownload(c)  PROVE CopyInv'
  <2>1. /\ c \in down.queue /\ down' = Take(down, c, "get")
        /\ UNCHANGED <<source, sourceFiles, dest, destFiles, pc, snapshots, toCopy, up>>
    BY <1>2 DEF TakeDownload, storages
  <2>2. /\ down'.queue = down.queue \ {c} /\ Busy(down') = Busy(down) \cup {c}
        /\ \A d \in Busy(down) \cup {c} : down'.work[d] = IF d = c THEN "get" ELSE down.work[d]
    <3>1. "get" \in WorkStep
      BY DEF WorkStep
    <3> QED  BY <3>1, <2>1, <1>0, TakeFields
  <2>3. \A d \in Chunk : OnItsWay(d) => OnItsWay(d)'
    BY <2>1, <2>2 DEF OnItsWay
  <2> QED  BY <2>1, <2>3, CopyGoesOn
<1>3. ASSUME NEW c \in Chunk, DownloadChunk(c)  PROVE CopyInv'
  <2>1. CASE Exit
    BY <1>3, <2>1, CopyExit DEF DownloadChunk
  <2>2. CASE down' = Go(down, c, "send") /\ UNCHANGED <<pc, snapshots, toCopy, up>>
    <3>1. c \in Busy(down) /\ down.work[c] = "get" /\ UNCHANGED <<source, sourceFiles, dest, destFiles>>
      BY <1>3 DEF DownloadChunk, storages
    <3>2. /\ down'.queue = down.queue /\ Busy(down') = Busy(down)
          /\ \A d \in Busy(down) : down'.work[d] = IF d = c THEN "send" ELSE down.work[d]
      <4>1. "send" \in WorkStep
        BY DEF WorkStep
      <4> QED  BY <4>1, <2>2, <3>1, <1>0, GoFields
    <3>3. \A d \in Chunk : OnItsWay(d) => OnItsWay(d)'
      BY <2>2, <3>1, <3>2 DEF OnItsWay
    <3> QED  BY <2>2, <3>1, <3>3, CopyGoesOn
  <2> QED  BY <2>1, <2>2, <1>3 DEF DownloadChunk
<1>4. ASSUME NEW c \in Chunk, SendUpload(c)  PROVE CopyInv'
  <2>1. /\ c \in Busy(down) /\ up' = Enqueue(up, c) /\ down' = Go(down, c, "count")
        /\ UNCHANGED <<source, sourceFiles, dest, destFiles, pc, snapshots, toCopy>>
    BY <1>4 DEF SendUpload, storages
  <2>2. /\ down'.queue = down.queue /\ Busy(down') = Busy(down)
        /\ \A d \in Busy(down) : down'.work[d] = IF d = c THEN "count" ELSE down.work[d]
    <3>1. "count" \in WorkStep
      BY DEF WorkStep
    <3> QED  BY <3>1, <2>1, <1>0, GoFields
  <2>3. up'.queue = up.queue \cup {c} /\ Busy(up') = Busy(up)
    BY <2>1, <1>0, EnqueueFields
  <2>4. \A d \in Chunk : OnItsWay(d) => OnItsWay(d)'
    BY <2>1, <2>2, <2>3 DEF OnItsWay
  <2> QED  BY <2>1, <2>4, CopyGoesOn
<1>5. ASSUME NEW c \in Chunk, CountUpload(c)  PROVE CopyInv'
  <2>1. /\ c \in Busy(down) /\ down.work[c] = "count" /\ up' = Count(up) /\ down' = Go(down, c, "end")
        /\ UNCHANGED <<source, sourceFiles, dest, destFiles, pc, snapshots, toCopy>>
    BY <1>5 DEF CountUpload, storages
  <2>2. /\ down'.queue = down.queue /\ Busy(down') = Busy(down)
        /\ \A d \in Busy(down) : down'.work[d] = IF d = c THEN "end" ELSE down.work[d]
    <3>1. "end" \in WorkStep
      BY DEF WorkStep
    <3> QED  BY <3>1, <2>1, <1>0, GoFields
  <2>3. up'.queue = up.queue /\ Busy(up') = Busy(up)
    BY <2>1, <1>0, CountFields
  <2>4. \A d \in Chunk : OnItsWay(d) => OnItsWay(d)'
    BY <2>1, <2>2, <2>3 DEF OnItsWay
  <2> QED  BY <2>1, <2>4, CopyGoesOn
<1>6. ASSUME NEW c \in Chunk, EndDownload(c)  PROVE CopyInv'
  <2>1. /\ c \in Busy(down) /\ down.work[c] = "end" /\ down' = Done(down, c)
        /\ UNCHANGED <<source, sourceFiles, dest, destFiles, pc, snapshots, toCopy, up>>
    BY <1>6 DEF EndDownload, MayEnd, storages
  <2>2. /\ down'.queue = down.queue /\ Busy(down') = Busy(down) \ {c}
        /\ \A d \in Busy(down) \ {c} : down'.work[d] = down.work[d]
    BY <2>1, <1>0, DoneFields
  <2>3. \A d \in Chunk : OnItsWay(d) => OnItsWay(d)'
    BY <2>1, <2>2 DEF OnItsWay
  <2> QED  BY <2>1, <2>3, CopyGoesOn
<1>7. ASSUME NEW c \in Chunk, TakeUpload(c)  PROVE CopyInv'
  <2>1. /\ c \in up.queue /\ up' = Take(up, c, "put")
        /\ UNCHANGED <<source, sourceFiles, dest, destFiles, pc, snapshots, toCopy, down>>
    BY <1>7 DEF TakeUpload, storages
  <2>2. up'.queue = up.queue \ {c} /\ Busy(up') = Busy(up) \cup {c}
    <3>1. "put" \in WorkStep
      BY DEF WorkStep
    <3> QED  BY <3>1, <2>1, <1>0, TakeFields
  <2>3. \A d \in Chunk : OnItsWay(d) => OnItsWay(d)'
    BY <2>1, <2>2 DEF OnItsWay
  <2> QED  BY <2>1, <2>3, CopyGoesOn
<1>8. ASSUME NEW c \in Chunk, UploadChunk(c)  PROVE CopyInv'
  <2>1. /\ c \in Busy(up) /\ up' = Done(up, c)
        /\ dest' = [dest EXCEPT ![c] = IF @ = "none" THEN "whole" ELSE @]
        /\ UNCHANGED <<source, sourceFiles, destFiles, pc, snapshots, toCopy, down>>
    BY <1>8 DEF UploadChunk
  <2>2. up'.queue = up.queue /\ Busy(up') = Busy(up) \ {c}
    BY <2>1, <1>0, DoneFields
  <2>3. /\ \A d \in Chunk : dest'[d] = dest[d] \/ (dest[d] = "none" /\ dest'[d] = "whole")
        /\ dest'[c] = "whole" /\ \A d \in Chunk : dest[d] = "whole" => dest'[d] = "whole"
    BY <2>1, <1>0 DEF CopyInv
  <2>4. \A d \in Chunk : OnItsWay(d) => OnItsWay(d)'
    BY <2>1, <2>2, <2>3 DEF OnItsWay
  <2> QED  BY <2>1, <2>3, <2>4, CopyGoesOn
<1> QED  BY <1>1, <1>2, <1>3, <1>4, <1>5, <1>6, <1>7, <1>8 DEF Workers

LEMMA CopyNext ==
    ASSUME CopyInv, [Next]_vars, DestinationPruned = FALSE
    PROVE  CopyInv'
<1>0. PoolInv'
  BY PoolNext DEF CopyInv
<1>1. ASSUME NEW revisions \in SUBSET Revisions, Start(revisions)  PROVE CopyInv'
  BY <1>0, <1>1 DEF Start, CopyInv, Copied, DestinationComplete, storages
<1>2. CASE \E r \in Revisions : PruneSource(r)
  <2>1. UNCHANGED <<dest, destFiles, copies, pc, snapshots, toCopy, down, up>>
    BY <1>2 DEF PruneSource
  <2> QED  BY <2>1, <1>0 DEF CopyInv, Copied, OnItsWay, DestinationComplete
<1>3. ASSUME NEW c \in Chunk, OtherUpload(c)  PROVE CopyInv'
  <2>1. /\ UNCHANGED <<destFiles, pc, snapshots, toCopy, down, up>>
        /\ dest[c] = "none" /\ dest' = [dest EXCEPT ![c] = "whole"] /\ dest \in [Chunk -> {"none", "empty", "whole"}]
    BY <1>3 DEF OtherUpload, CopyInv, PoolInv, TypeOK
  <2>2. \A d \in Chunk : dest'[d] = dest[d] \/ (dest[d] = "none" /\ dest'[d] = "whole")
    BY <2>1
  <2>3. \A d \in Chunk : OnItsWay(d) => OnItsWay(d)'
    BY <2>1, <2>2 DEF OnItsWay
  <2> QED  BY <2>1, <2>2, <2>3, <1>0, CopyGoesOn
<1>4. ASSUME NEW c \in Chunk, PruneDestination(c)  PROVE CopyInv'
  <2>1. /\ UNCHANGED <<destFiles, pc, snapshots>> /\ pc = "idle"
        /\ dest' = [dest EXCEPT ![c] = "none"] /\ dest \in [Chunk -> {"none", "empty", "whole"}]
        /\ \A r \in destFiles : c \notin Chunks[r]
        /\ destFiles \subseteq Revisions
    BY <1>4 DEF PruneDestination, CopyInv, PoolInv, TypeOK
  <2>2. \A d \in Chunk : dest'[d] = IF d = c THEN "none" ELSE dest[d]
    BY <2>1
  <2>3. DestinationComplete'
    BY <2>1, <2>2, ChunksOf DEF CopyInv, DestinationComplete
  <2> QED  BY <2>1, <2>2, <2>3, <1>0 DEF CopyInv, Copied
<1>5. CASE Fail
  BY <1>0, <1>5, CopyExit DEF Fail
<1>6. CASE UNCHANGED vars
  BY <1>0, <1>6 DEF vars, storages, CopyInv, Copied, OnItsWay, DestinationComplete
<1> QED  BY <1>0, <1>1, <1>2, <1>3, <1>4, <1>5, <1>6, CopyMain, CopyWorkers DEF Next

(* A snapshot at the destination has all its chunks there, whichever       *)
(* copies failed, in whatever order the workers of the two pools went,     *)
(* whatever prune took from the source meanwhile and whoever else uploads  *)
(* to the destination.                                                     *)
THEOREM CopiesComplete ==
    ASSUME EmptyChunks = {}, DestinationPruned = FALSE
    PROVE  Spec => []DestinationComplete
<1>1. Init => CopyInv
  BY CopyInit
<1>2. CopyInv /\ [Next]_vars => CopyInv'
  BY CopyNext
<1>3. CopyInv => DestinationComplete
  BY DEF CopyInv
<1> QED  BY <1>1, <1>2, <1>3, PTL DEF Spec

=============================================================================
