-------------------------- MODULE DownloaderProofs --------------------------
(***************************************************************************)
(* RestorePlan, for any files of any snapshot, and ChunkDownloader for any *)
(* number of threads and any plan AddFiles makes.                          *)
(***************************************************************************)
EXTENDS ChunkDownloader, RestorePlan, CommonLemmas, FiniteSetTheorems

-----------------------------------------------------------------------------
(* Sequences as queues.                                                    *)

Elements(q)  == {q[n] : n \in DOMAIN q}
Distinct(q)  == \A m, n \in DOMAIN q : q[m] = q[n] => m = n

(* A function on 1 .. n is a sequence. *)
LEMMA AsSequence ==
    ASSUME NEW S, NEW n \in Nat, NEW q \in [1 .. n -> S]
    PROVE  q \in Seq(S) /\ Len(q) = n /\ DOMAIN q = 1 .. n
OBVIOUS

LEMMA SendElement ==
    ASSUME NEW S, NEW q \in Seq(S), NEW x \in S
    PROVE  /\ Append(q, x) \in Seq(S) /\ Len(Append(q, x)) = Len(q) + 1
           /\ Elements(Append(q, x)) = Elements(q) \cup {x}
           /\ Distinct(q) /\ x \notin Elements(q) => Distinct(Append(q, x))
<1> DEFINE r == Append(q, x)
<1>1. /\ r \in Seq(S) /\ Len(q) \in Nat /\ Len(r) = Len(q) + 1
      /\ DOMAIN q = 1 .. Len(q) /\ DOMAIN r = 1 .. Len(q) + 1
      /\ \A n \in 1 .. Len(q) : r[n] = q[n]
      /\ r[Len(q) + 1] = x
  OBVIOUS
<1> HIDE DEF r
<1>2. Elements(r) = Elements(q) \cup {x}
  <2>1. Elements(r) \subseteq Elements(q) \cup {x}
    <3> SUFFICES ASSUME NEW n \in DOMAIN r PROVE r[n] \in Elements(q) \cup {x}  BY DEF Elements
    <3>1. n \in 1 .. Len(q) \/ n = Len(q) + 1  BY <1>1
    <3> QED  BY <1>1, <3>1 DEF Elements
  <2>2. Elements(q) \subseteq Elements(r)
    <3> SUFFICES ASSUME NEW n \in DOMAIN q PROVE q[n] \in Elements(r)  BY DEF Elements
    <3>1. n \in DOMAIN r /\ r[n] = q[n]  BY <1>1
    <3> QED  BY <3>1 DEF Elements
  <2>3. x \in Elements(r)
    <3>1. Len(q) + 1 \in DOMAIN r  BY <1>1
    <3> QED  BY <1>1, <3>1 DEF Elements
  <2> QED  BY <2>1, <2>2, <2>3
<1>3. ASSUME Distinct(q), x \notin Elements(q), NEW m \in DOMAIN r, NEW n \in DOMAIN r, r[m] = r[n]
      PROVE  m = n
  <2>1. \A l \in 1 .. Len(q) : q[l] # x  BY <1>1, <1>3 DEF Elements
  <2>2. (m \in 1 .. Len(q) \/ m = Len(q) + 1) /\ (n \in 1 .. Len(q) \/ n = Len(q) + 1)  BY <1>1
  <2> QED  BY <1>1, <1>3, <2>1, <2>2 DEF Distinct
<1>4. Distinct(q) /\ x \notin Elements(q) => Distinct(r)  BY <1>3 DEF Distinct
<1> QED  BY <1>1, <1>2, <1>4 DEF r

LEMMA ReceiveElement ==
    ASSUME NEW S, NEW q \in Seq(S), q # <<>>, Distinct(q)
    PROVE  /\ Tail(q) \in Seq(S) /\ Len(Tail(q)) = Len(q) - 1 /\ Len(q) \in Nat \ {0}
           /\ Head(q) \in S /\ Head(q) \in Elements(q)
           /\ Elements(Tail(q)) = Elements(q) \ {Head(q)}
           /\ Distinct(Tail(q))
<1> DEFINE r == Tail(q)
<1>1. /\ r \in Seq(S) /\ Len(q) \in Nat \ {0} /\ Len(r) = Len(q) - 1
      /\ DOMAIN q = 1 .. Len(q) /\ DOMAIN r = 1 .. Len(q) - 1
      /\ \A n \in 1 .. Len(q) - 1 : r[n] = q[n + 1]
      /\ Head(q) = q[1] /\ 1 \in DOMAIN q /\ q[1] \in S
  OBVIOUS
<1> HIDE DEF r
<1>2. Elements(r) = Elements(q) \ {q[1]}
  <2>1. Elements(r) \subseteq Elements(q) \ {q[1]}
    <3> SUFFICES ASSUME NEW n \in DOMAIN r PROVE r[n] \in Elements(q) \ {q[1]}  BY DEF Elements
    <3>1. n + 1 \in DOMAIN q /\ r[n] = q[n + 1] /\ n + 1 # 1  BY <1>1
    <3> QED  BY <1>1, <3>1 DEF Elements, Distinct
  <2>2. Elements(q) \ {q[1]} \subseteq Elements(r)
    <3> SUFFICES ASSUME NEW n \in DOMAIN q, n # 1 PROVE q[n] \in Elements(r)  BY DEF Elements
    <3>1. n - 1 \in DOMAIN r /\ r[n - 1] = q[n]  BY <1>1
    <3> QED  BY <3>1 DEF Elements
  <2> QED  BY <2>1, <2>2
<1>3. Distinct(r)
  <2> SUFFICES ASSUME NEW m \in DOMAIN r, NEW n \in DOMAIN r, r[m] = r[n] PROVE m = n
    BY DEF Distinct
  <2>1. m + 1 \in DOMAIN q /\ n + 1 \in DOMAIN q /\ q[m + 1] = q[n + 1]  BY <1>1
  <2>2. m + 1 = n + 1  BY <2>1 DEF Distinct
  <2> QED  BY <1>1, <2>2
<1>4. Head(q) \in Elements(q)  BY <1>1 DEF Elements
<1> QED  BY <1>1, <1>2, <1>3, <1>4 DEF r

(* A sequence without repetitions has as many elements as it is long. *)
LEMMA CountElements ==
    ASSUME NEW S, NEW q \in Seq(S), Distinct(q)
    PROVE  IsFiniteSet(Elements(q)) /\ Cardinality(Elements(q)) = Len(q)
<1>1. Len(q) \in Nat /\ DOMAIN q = 1 .. Len(q)  OBVIOUS
<1>2. IsFiniteSet(1 .. Len(q)) /\ Cardinality(1 .. Len(q)) = Len(q)
  BY <1>1, FS_Interval
<1>3. q \in Bijection(1 .. Len(q), Elements(q))
  <2>1. q \in [1 .. Len(q) -> Elements(q)]
    <3>1. q \in [1 .. Len(q) -> S]  OBVIOUS
    <3>2. \A n \in 1 .. Len(q) : q[n] \in Elements(q)  BY <1>1 DEF Elements
    <3> QED  BY <3>1, <3>2
  <2>2. \A m, n \in 1 .. Len(q) : q[m] = q[n] => m = n  BY <1>1 DEF Distinct
  <2>3. \A x \in Elements(q) : \E n \in 1 .. Len(q) : q[n] = x  BY <1>1 DEF Elements
  <2> QED  BY <1>1, <2>1, <2>2, <2>3 DEF Bijection, Injection, IsInjective, Surjection
<1> QED  BY <1>2, <1>3, FS_Bijection DEF ExistsBijection

-----------------------------------------------------------------------------
(* Types.                                                                  *)

WorkerState == [st : {"idle", "fetch", "send", "sent", "stopped"}, task : Tasks \cup {0},
                buffer : 0 .. Len(buffers), broken : BOOLEAN]
Buffer      == [hash : Nat, broken : BOOLEAN]

(* What the restoring thread knows, and what it shares with the workers. *)
ThreadOK ==
    /\ plan \in Restores
    /\ pc \in {"file", "prefetch", "chunk", "ahead", "receive", "stop", "done", "exited"}
    /\ f \in 1 .. Len(plan.files) + 1 /\ i \in 0 .. Len(plan.tasks) + 1
    /\ failed \in BOOLEAN /\ uncounted \in BOOLEAN
    /\ found \subseteq Tasks /\ needed \subseteq Tasks /\ started \subseteq Tasks
    /\ last \in 0 .. Len(plan.tasks) /\ count \in Int
StoreOK ==
    /\ completed \subseteq Tasks /\ held \in [Tasks -> 0 .. Len(buffers)]
    /\ queue \in Seq(Tasks) /\ Len(queue) <= Threads
    /\ worker \in [Workers -> WorkerState]
    /\ pool \in Seq(Nat) /\ Len(pool) = Len(buffers) /\ buffers \in Seq(Buffer)

LEMMA TypeParts ==
    /\ TypeOK <=> ThreadOK /\ StoreOK /\ active \in 0 .. Len(plan.tasks)
    /\ TypeOK' <=> ThreadOK' /\ StoreOK' /\ active' \in 0 .. Len(plan.tasks)'
  BY DEF TypeOK, ThreadOK, StoreOK, WorkerState, Buffer

(* The tasks and the files of a plan. *)
LEMMA PlanShape ==
    ASSUME plan \in Restores
    PROVE  /\ Len(plan.tasks) \in Nat /\ Tasks = 1 .. Len(plan.tasks)
           /\ Len(plan.files) \in Nat
           /\ \A k \in Tasks : plan.tasks[k] \in Nat
           /\ plan.needed \subseteq Tasks
           /\ \A n \in 1 .. Len(plan.files) :
                 /\ plan.files[n].start \in Tasks /\ plan.files[n].end \in Tasks
                 /\ plan.files[n].start <= plan.files[n].end
           /\ \A m, n \in 1 .. Len(plan.files) : m < n => plan.files[m].end <= plan.files[n].start
<1> DEFINE File == [start : DOMAIN plan.tasks, end : DOMAIN plan.tasks, want : Seq(Nat \ {0})]
           Hash == Nat \ {0}
<1>1. /\ plan.tasks \in Seq(Hash) /\ plan.files \in Seq(File)
      /\ plan.needed \subseteq DOMAIN plan.tasks
      /\ \A n \in DOMAIN plan.files : plan.files[n].start <= plan.files[n].end
      /\ \A m, n \in DOMAIN plan.files : m < n => plan.files[m].end <= plan.files[n].start
  BY Plans
<1>2. \A x \in Hash : x \in Nat  OBVIOUS
<1>3. \A x \in File : x.start \in DOMAIN plan.tasks /\ x.end \in DOMAIN plan.tasks  OBVIOUS
<1> HIDE DEF File, Hash
<1>4. Len(plan.tasks) \in Nat /\ DOMAIN plan.tasks = 1 .. Len(plan.tasks)  BY <1>1
<1>5. Len(plan.files) \in Nat /\ DOMAIN plan.files = 1 .. Len(plan.files)  BY <1>1
<1>6. \A k \in 1 .. Len(plan.tasks) : plan.tasks[k] \in Hash  BY <1>1
<1>7. \A n \in 1 .. Len(plan.files) : plan.files[n] \in File  BY <1>1
<1> QED  BY <1>1, <1>2, <1>3, <1>4, <1>5, <1>6, <1>7 DEF Tasks

(* Sets of tasks and of workers are finite. *)
LEMMA TaskSets ==
    ASSUME plan \in Restores, NEW S \in SUBSET Tasks
    PROVE  /\ IsFiniteSet(S) /\ Cardinality(S) \in Nat /\ Cardinality(S) <= Len(plan.tasks)
           /\ Cardinality(S) = 0 <=> S = {}
<1>1. Len(plan.tasks) \in Nat /\ Tasks = 1 .. Len(plan.tasks)  BY PlanShape
<1>2. IsFiniteSet(Tasks) /\ Cardinality(Tasks) = Len(plan.tasks)  BY <1>1, FS_Interval
<1>3. IsFiniteSet(S) /\ Cardinality(S) <= Cardinality(Tasks)  BY <1>2, FS_Subset
<1> QED  BY <1>2, <1>3, FS_CardinalityType, FS_EmptySet

LEMMA WorkerSets ==
    ASSUME NEW S \in SUBSET Workers
    PROVE  /\ IsFiniteSet(S) /\ Cardinality(S) \in Nat
           /\ Cardinality(S) = 0 <=> S = {}
<1>1. IsFiniteSet(Workers)  BY Constants, FS_Interval DEF Workers
<1>2. IsFiniteSet(S)  BY <1>1, FS_Subset
<1> QED  BY <1>2, FS_CardinalityType, FS_EmptySet

-----------------------------------------------------------------------------
(* Parts of the invariant that a step leaves alone.                        *)

LEMMA SamePlaces ==
    ASSUME OnePlace, UNCHANGED <<plan, queue, worker, completed, held, started>>
    PROVE  OnePlace' /\ Flying' = Flying
  BY DEF OnePlace, Flying, Queued, InHand, Running, Tasks

LEMMA SameStore ==
    ASSUME StoreOK, UNCHANGED <<plan, completed, held, queue, worker, memory>>
    PROVE  StoreOK'
  BY DEF StoreOK, WorkerState, Tasks, memory

LEMMA SameCounts ==
    ASSUME Counts, StoppedWhenIdle, UNCHANGED <<queue, worker, count, uncounted>>,
           pc' # "done" => pc # "done",
           pc' \in {"stop", "done"} => ~uncounted,
           pc \in {"stop", "done", "exited"} => pc' \in {"stop", "done", "exited"}
    PROVE  Counts' /\ StoppedWhenIdle'
  BY DEF Counts, StoppedWhenIdle, Uncounted, Occupied

LEMMA SameLimit ==
    ASSUME Limited, Flying' = Flying, UNCHANGED <<active, last, completed>>,
           active > Threads /\ pc' \in {"file", "prefetch", "chunk", "stop"} => last \in completed
    PROVE  Limited'
  BY DEF Limited

(* numberOfActiveChunks is at most the number of tasks. *)
LEMMA ActiveBound ==
    ASSUME plan \in Restores, plan' = plan, OnePlace', Limited', started' \subseteq Tasks
    PROVE  active' \in 0 .. Len(plan.tasks)'
<1>1. Flying' \in SUBSET Tasks  BY DEF OnePlace
<1>2. /\ Cardinality(Flying') \in Nat /\ Cardinality(Flying') <= Len(plan.tasks)
      /\ Len(plan.tasks) \in Nat
  BY <1>1, TaskSets, PlanShape
<1>3. active' = Cardinality(Flying')  BY DEF Limited
<1> QED  BY <1>2, <1>3

(* Steps of the thread that concern only its own place. *)
LEMMA ThreadStep ==
    ASSUME PipelineInv, UNCHANGED <<plan, downloader, queue, uncounted, count, worker, memory>>,
           ThreadOK', Position',
           active > Threads /\ pc' \in {"file", "prefetch", "chunk", "stop"} => last \in completed,
           pc' # "done" => pc # "done",
           pc' \in {"stop", "done"} => ~uncounted,
           pc \in {"stop", "done", "exited"} => pc' \in {"stop", "done", "exited"}
    PROVE  PipelineInv'
<1>1. UNCHANGED <<needed, started, completed, held, last, active>>  BY DEF downloader
<1>2. OnePlace' /\ Flying' = Flying  BY <1>1, SamePlaces DEF PipelineInv
<1>3. StoreOK'  BY <1>1, SameStore, TypeParts DEF PipelineInv
<1>4. Counts' /\ StoppedWhenIdle'  BY SameCounts DEF PipelineInv
<1>5. Limited'  BY <1>1, <1>2, SameLimit DEF PipelineInv
<1>6. active' \in 0 .. Len(plan.tasks)'  BY <1>1 DEF PipelineInv, TypeOK
<1> QED  BY <1>2, <1>3, <1>4, <1>5, <1>6, TypeParts DEF PipelineInv

(* From one file to the next. *)
LEMMA NextFile ==
    ASSUME ThreadOK, f <= Len(plan.files), last <= plan.files[f].end,
           pc' = "file", f' = f + 1, UNCHANGED <<plan, last>>
    PROVE  f' \in 1 .. Len(plan.files)' + 1 /\ Position'
<1>1. plan \in Restores /\ f \in Nat \ {0} /\ last \in Nat
  BY PlanShape DEF ThreadOK
<1>2. f \in 1 .. Len(plan.files) /\ Len(plan.files) \in Nat  BY <1>1, PlanShape
<1>3. ASSUME f + 1 <= Len(plan.files) PROVE last <= plan.files[f + 1].start
  <2>1. f + 1 \in 1 .. Len(plan.files) /\ f < f + 1  BY <1>2, <1>3
  <2>2. plan.files[f].end <= plan.files[f + 1].start  BY <1>1, <1>2, <2>1, PlanShape
  <2>3. plan.files[f].end \in Nat /\ plan.files[f + 1].start \in Nat
    BY <1>1, <1>2, <2>1, PlanShape
  <2> QED  BY <1>1, <2>2, <2>3
<1> QED  BY <1>2, <1>3 DEF Position

(* The file at hand. *)
LEMMA ThisFile ==
    ASSUME ThreadOK, f <= Len(plan.files)
    PROVE  /\ plan.files[f].start \in Tasks /\ plan.files[f].end \in Tasks
           /\ plan.files[f].start <= plan.files[f].end
           /\ plan.files[f].start \in Nat \ {0} /\ plan.files[f].end \in Nat \ {0}
           /\ plan.files[f].end <= Len(plan.tasks)
           /\ i \in Nat /\ last \in Nat /\ Len(plan.tasks) \in Nat /\ plan \in Restores
           /\ Tasks = 1 .. Len(plan.tasks)
<1>1. plan \in Restores /\ f \in 1 .. Len(plan.files)  BY PlanShape DEF ThreadOK
<1> QED  BY <1>1, PlanShape DEF ThreadOK

LEMMA SkipFileInv ==
    ASSUME PipelineInv, SkipFile
    PROVE  PipelineInv'
<1>1. /\ pc = "file" /\ pc' = pc /\ f <= Len(plan.files) /\ f' = f + 1
      /\ UNCHANGED <<plan, found, failed, i, downloader, queue, uncounted, count, worker, memory>>
  BY DEF SkipFile, Exists, Ready
<1>2. ThreadOK  BY TypeParts DEF PipelineInv
<1>3. last <= plan.files[f].end  BY <1>1, <1>2, ThisFile DEF PipelineInv, Position
<1>4. UNCHANGED <<last, needed, started>>  BY <1>1 DEF downloader
<1>5. f' \in 1 .. Len(plan.files)' + 1 /\ Position'  BY <1>1, <1>2, <1>3, <1>4, NextFile
<1>6. ThreadOK'  BY <1>1, <1>2, <1>4, <1>5 DEF ThreadOK, Tasks
<1>7. active > Threads => last \in completed  BY <1>1 DEF PipelineInv, Limited
<1> QED  BY <1>1, <1>5, <1>6, <1>7, ThreadStep

LEMMA RefuseFileInv ==
    ASSUME PipelineInv, RefuseFile
    PROVE  PipelineInv'
<1>1. /\ pc = "file" /\ f <= Len(plan.files)
      /\ UNCHANGED <<plan, found, i, downloader, queue, uncounted, count, worker, memory>>
      /\ \/ failed' = TRUE /\ f' = f + 1 /\ pc' = pc
         \/ pc' = "exited" /\ UNCHANGED <<failed, f>>
  BY DEF RefuseFile, Exists, Ready
<1>2. ThreadOK  BY TypeParts DEF PipelineInv
<1>3. last <= plan.files[f].end  BY <1>1, <1>2, ThisFile DEF PipelineInv, Position
<1>4. UNCHANGED <<last, needed, started>>  BY <1>1 DEF downloader
<1>5. active > Threads => last \in completed  BY <1>1 DEF PipelineInv, Limited
<1>6. CASE failed' = TRUE /\ f' = f + 1 /\ pc' = pc
  <2>1. f' \in 1 .. Len(plan.files)' + 1 /\ Position'  BY <1>1, <1>2, <1>3, <1>4, <1>6, NextFile
  <2>2. ThreadOK'  BY <1>1, <1>2, <1>4, <1>6, <2>1 DEF ThreadOK, Tasks
  <2> QED  BY <1>1, <1>5, <1>6, <2>1, <2>2, ThreadStep
<1>7. CASE pc' = "exited" /\ UNCHANGED <<failed, f>>
  <2>1. ThreadOK'  BY <1>1, <1>2, <1>4, <1>7 DEF ThreadOK, Tasks
  <2>2. Position'  BY <1>7 DEF Position
  <2> QED  BY <1>1, <1>5, <1>7, <2>1, <2>2, ThreadStep
<1> QED  BY <1>1, <1>6, <1>7

LEMMA UseLocalCopyInv ==
    ASSUME PipelineInv, UseLocalCopy
    PROVE  PipelineInv'
<1>1. /\ pc = "chunk" /\ pc' = pc /\ i <= plan.files[f].end /\ i' = i + 1
      /\ UNCHANGED <<restorer, downloader, queue, uncounted, count, worker, memory>>
  BY DEF UseLocalCopy, Ready, InFile
<1>2. ThreadOK  BY TypeParts DEF PipelineInv
<1>3. /\ f <= Len(plan.files) /\ plan.files[f].start <= i /\ last <= i
      /\ last <= plan.files[f].end
  BY <1>1 DEF PipelineInv, Position
<1>4. UNCHANGED <<plan, f, found, failed, last, needed, started>>  BY <1>1 DEF downloader, restorer
<1>5. /\ plan.files[f].start <= i + 1 /\ i + 1 <= plan.files[f].end + 1 /\ last <= i + 1
      /\ i + 1 \in 0 .. Len(plan.tasks) + 1
  BY <1>1, <1>2, <1>3, ThisFile, SMTT(60)
<1>6. Position'  BY <1>1, <1>3, <1>4, <1>5 DEF Position
<1>7. ThreadOK'  BY <1>1, <1>2, <1>4, <1>5 DEF ThreadOK, Tasks
<1>8. active > Threads => last \in completed  BY <1>1 DEF PipelineInv, Limited
<1> QED  BY <1>1, <1>4, <1>6, <1>7, <1>8, ThreadStep

LEMMA UseChunkInv ==
    ASSUME PipelineInv, UseChunk
    PROVE  PipelineInv'
<1>1. /\ pc = "receive" /\ i \in completed
      /\ UNCHANGED <<plan, found, downloader, queue, uncounted, count, worker, memory>>
      /\ \/ failed' = TRUE /\ f' = f + 1 /\ pc' = "file" /\ i' = i
         \/ i' = i + 1 /\ pc' = "chunk" /\ UNCHANGED <<failed, f>>
  BY DEF UseChunk, Ready
<1>2. ThreadOK  BY TypeParts DEF PipelineInv
<1>3. f <= Len(plan.files) /\ plan.files[f].start <= i /\ i <= plan.files[f].end /\ last = i
  BY <1>1 DEF PipelineInv, Position
<1>4. UNCHANGED <<last, needed, started>>  BY <1>1 DEF downloader
<1>5. CASE failed' = TRUE /\ f' = f + 1 /\ pc' = "file" /\ i' = i
  <2>1. f' \in 1 .. Len(plan.files)' + 1 /\ Position'  BY <1>1, <1>2, <1>3, <1>4, <1>5, NextFile
  <2>2. ThreadOK'  BY <1>1, <1>2, <1>4, <1>5, <2>1 DEF ThreadOK, Tasks
  <2> QED  BY <1>1, <1>3, <1>5, <2>1, <2>2, ThreadStep
<1>6. CASE i' = i + 1 /\ pc' = "chunk" /\ UNCHANGED <<failed, f>>
  <2>1. /\ plan.files[f].start <= i + 1 /\ i + 1 <= plan.files[f].end + 1 /\ last <= i + 1
        /\ i + 1 \in 0 .. Len(plan.tasks) + 1
    BY <1>2, <1>3, ThisFile, SMTT(60)
  <2>2. Position'  BY <1>1, <1>3, <1>4, <1>6, <2>1 DEF Position
  <2>3. ThreadOK'  BY <1>1, <1>2, <1>4, <1>6, <2>1 DEF ThreadOK, Tasks
  <2> QED  BY <1>1, <1>3, <1>6, <2>2, <2>3, ThreadStep
<1> QED  BY <1>1, <1>5, <1>6

LEMMA FinishFileInv ==
    ASSUME PipelineInv, FinishFile
    PROVE  PipelineInv'
<1>1. /\ pc = "chunk" /\ pc' = "file" /\ f' = f + 1
      /\ UNCHANGED <<plan, found, failed, i, downloader, queue, uncounted, count, worker, memory>>
  BY DEF FinishFile, Ready
<1>2. ThreadOK  BY TypeParts DEF PipelineInv
<1>3. f <= Len(plan.files) /\ last <= plan.files[f].end  BY <1>1 DEF PipelineInv, Position
<1>4. UNCHANGED <<last, needed, started>>  BY <1>1 DEF downloader
<1>5. f' \in 1 .. Len(plan.files)' + 1 /\ Position'  BY <1>1, <1>2, <1>3, <1>4, NextFile
<1>6. ThreadOK'  BY <1>1, <1>2, <1>4, <1>5 DEF ThreadOK, Tasks
<1>7. active > Threads => last \in completed  BY <1>1 DEF PipelineInv, Limited
<1> QED  BY <1>1, <1>5, <1>6, <1>7, ThreadStep

LEMMA FinishRestoreInv ==
    ASSUME PipelineInv, FinishRestore
    PROVE  PipelineInv'
<1>1. /\ pc = "file" /\ ~uncounted /\ pc' \in {"done", "stop"}
      /\ UNCHANGED <<restorer, i, downloader, queue, uncounted, count, worker, memory>>
  BY DEF FinishRestore, Ready
<1>2. ThreadOK  BY TypeParts DEF PipelineInv
<1>3. UNCHANGED <<plan, f, found, failed, last, needed, started>>  BY <1>1 DEF downloader, restorer
<1>4. ThreadOK'  BY <1>1, <1>2, <1>3 DEF ThreadOK, Tasks
<1>5. Position'  BY <1>1 DEF Position
<1>6. active > Threads => last \in completed  BY <1>1 DEF PipelineInv, Limited
<1> QED  BY <1>1, <1>3, <1>4, <1>5, <1>6, ThreadStep

-----------------------------------------------------------------------------
(* Chunks reclaimed and tasks added.                                       *)

(* Completed tasks R are reclaimed. *)
LEMMA ReclaimPlaces ==
    ASSUME StoreOK, OnePlace, NEW R \in SUBSET completed, completed' = completed \ R,
           held' = [t \in Tasks |-> IF t \in R THEN 0 ELSE held[t]],
           UNCHANGED <<plan, worker, queue, started>>
    PROVE  OnePlace' /\ Flying' = Flying \ R
<1>1. Tasks' = Tasks /\ Queued' = Queued /\ InHand' = InHand /\ Running' = Running
  BY DEF Tasks, Queued, InHand, Running
<1>2. Flying' = Flying \ R  BY <1>1 DEF Flying, OnePlace
<1>3. completed' = {k \in Tasks : held'[k] # 0}
  BY DEF OnePlace, StoreOK
<1>4. Flying' \subseteq started'  BY <1>2 DEF OnePlace
<1> QED  BY <1>1, <1>2, <1>3, <1>4 DEF OnePlace

(* Completed tasks R are reclaimed and the task k is queued. *)
LEMMA AddPlaces ==
    ASSUME StoreOK, OnePlace, NEW R \in SUBSET completed, completed' = completed \ R,
           held' = [t \in Tasks |-> IF t \in R THEN 0 ELSE held[t]],
           NEW k \in Tasks, k \notin started, started' = started \cup {k},
           queue' = Append(queue, k), UNCHANGED <<plan, worker>>
    PROVE  OnePlace' /\ Flying' = (Flying \ R) \cup {k}
<1>1. Tasks' = Tasks /\ InHand' = InHand /\ Running' = Running
  BY DEF Tasks, InHand, Running
<1>2. k \notin Flying  BY DEF OnePlace
<1>3. /\ Queued = Elements(queue) /\ Queued' = Elements(queue')
      /\ Distinct(queue)
  BY DEF Queued, Elements, Distinct, OnePlace
<1>4. Queued' = Queued \cup {k} /\ Distinct(queue')
  <2>1. k \notin Elements(queue)  BY <1>2, <1>3 DEF Flying
  <2>2. queue \in Seq(Tasks)  BY DEF StoreOK
  <2> QED  BY <1>3, <2>1, <2>2, SendElement
<1>5. Flying' = (Flying \ R) \cup {k}  BY <1>1, <1>4 DEF Flying, OnePlace
<1>6. completed' = {t \in Tasks : held'[t] # 0}
  BY DEF OnePlace, StoreOK
<1>7. Flying' \subseteq started'  BY <1>5 DEF OnePlace
<1>8. Queued' \cap InHand = {} /\ Queued' \cap completed' = {} /\ InHand \cap completed' = {}
  BY <1>2, <1>4 DEF Flying, OnePlace
<1>9. \A m, n \in DOMAIN queue' : queue'[m] = queue'[n] => m = n  BY <1>4 DEF Distinct
<1>10. /\ \A v, w \in Running' : worker'[v].task = worker'[w].task => v = w
       /\ \A w \in Running' : worker'[w].task # 0 /\ worker'[w].buffer # 0
  BY <1>1 DEF OnePlace
<1>11. OnePlace'  BY <1>1, <1>6, <1>7, <1>8, <1>9, <1>10 DEF OnePlace
<1> QED  BY <1>5, <1>11

(* How many tasks are under way or not reclaimed then. *)
LEMMA FlyingCount ==
    ASSUME ThreadOK, OnePlace, NEW R \in SUBSET completed
    PROVE  /\ Cardinality(Flying) \in Nat /\ Cardinality(R) \in Nat
           /\ Cardinality(R) = 0 <=> R = {}
           /\ Cardinality(Flying \ R) = Cardinality(Flying) - Cardinality(R)
           /\ \A k \in Tasks : k \notin started =>
                 Cardinality((Flying \ R) \cup {k}) = Cardinality(Flying) - Cardinality(R) + 1
<1>1. plan \in Restores /\ Flying \in SUBSET Tasks /\ R \in SUBSET Tasks /\ Flying \subseteq started
      /\ Flying \cap R = R
  BY DEF ThreadOK, OnePlace, Flying
<1>2. /\ IsFiniteSet(Flying) /\ Cardinality(Flying) \in Nat /\ Cardinality(R) \in Nat
      /\ Cardinality(R) = 0 <=> R = {}
  BY <1>1, TaskSets
<1>3. IsFiniteSet(Flying \ R) /\ Cardinality(Flying \ R) = Cardinality(Flying) - Cardinality(R)
  BY <1>1, <1>2, FS_Difference
<1>4. ASSUME NEW k \in Tasks, k \notin started
      PROVE  Cardinality((Flying \ R) \cup {k}) = Cardinality(Flying) - Cardinality(R) + 1
  <2>1. k \notin Flying \ R  BY <1>1, <1>4
  <2> QED  BY <1>3, <2>1, FS_AddElement
<1> QED  BY <1>2, <1>3, <1>4

(* The pool takes the buffers. *)
LEMMA ReclaimStore ==
    ASSUME StoreOK, plan \in Restores, NEW R \in SUBSET completed, completed' = completed \ R,
           held' = [t \in Tasks |-> IF t \in R THEN 0 ELSE held[t]],
           pool' = PutChunks(R), UNCHANGED <<plan, worker, buffers>>,
           queue' \in Seq(Tasks), Len(queue') <= Threads
    PROVE  StoreOK'
<1>1. Tasks' = Tasks /\ WorkerState' = WorkerState  BY DEF Tasks, WorkerState
<1>2. /\ pool \in Seq(Nat) /\ Len(pool) \in Nat /\ DOMAIN pool = 1 .. Len(pool)
      /\ Len(pool) = Len(buffers)
  BY DEF StoreOK
<1>3. ASSUME NEW b \in DOMAIN pool PROVE pool[b] + Cardinality({k \in R : held[k] = b}) \in Nat
  <2>1. {k \in R : held[k] = b} \in SUBSET Tasks  BY DEF StoreOK
  <2>2. Cardinality({k \in R : held[k] = b}) \in Nat  BY <2>1, TaskSets
  <2>3. pool[b] \in Nat  BY <1>2
  <2> QED  BY <2>2, <2>3
<1>4. pool' \in [1 .. Len(pool) -> Nat]  BY <1>2, <1>3 DEF PutChunks
<1>5. pool' \in Seq(Nat) /\ Len(pool') = Len(pool)  BY <1>2, <1>4, AsSequence
<1>6. completed' \subseteq Tasks /\ held' \in [Tasks -> 0 .. Len(buffers)]
  <2>1. 0 \in 0 .. Len(buffers)  BY <1>2
  <2> QED  BY <2>1 DEF StoreOK
<1> QED  BY <1>1, <1>2, <1>5, <1>6 DEF StoreOK

(* A task is queued and not counted yet. *)
LEMMA AddCounts ==
    ASSUME StoreOK, Counts, StoppedWhenIdle, NEW k \in Tasks, queue' = Append(queue, k),
           ~uncounted, uncounted' = TRUE, UNCHANGED <<count, worker>>, count \in Int,
           pc \notin {"stop", "done", "exited"}, pc' \notin {"stop", "done", "exited"}
    PROVE  Counts' /\ StoppedWhenIdle'
<1>1. \A w \in Workers : worker[w].st # "stopped"  BY DEF Counts
<1>2. count = Len(queue) + Cardinality(Occupied)
  <2>1. count + 0 = Len(queue) + Cardinality(Occupied)  BY DEF Counts, Uncounted
  <2> QED  BY <2>1
<1>3. Occupied' = Occupied  BY DEF Occupied
<1>4. Len(queue') = Len(queue) + 1 /\ Len(queue) \in Nat  BY DEF StoreOK
<1>5. Cardinality(Occupied) \in Nat  BY WorkerSets DEF Occupied
<1>6. count' + Uncounted' = Len(queue') + Cardinality(Occupied')
  <2>1. Uncounted' = 1 /\ count' = count  BY DEF Uncounted
  <2> QED  BY <1>2, <1>3, <1>4, <1>5, <2>1
<1> QED  BY <1>1, <1>6 DEF Counts, StoppedWhenIdle

(* A step of Prefetch or of the loop that looks ahead. *)
LEMMA FetchAhead ==
    ASSUME PipelineInv, pc \in {"prefetch", "ahead"}, ~uncounted, pc' = pc, active < Threads,
           NEW k \in Tasks, k \notin started, AddTask(k), started' = started \cup {k},
           active' = active + 1,
           UNCHANGED <<restorer, i, needed, completed, held, last, count, worker, memory>>
    PROVE  PipelineInv'
<1>1. ThreadOK /\ StoreOK /\ active \in Nat /\ Threads \in Nat
  <2>1. ThreadOK /\ StoreOK /\ active \in 0 .. Len(plan.tasks)  BY TypeParts DEF PipelineInv
  <2> QED  BY <2>1, Constants
<1>2. queue' = Append(queue, k) /\ Len(queue) < Threads /\ uncounted' = TRUE  BY DEF AddTask
<1>3. UNCHANGED <<plan, f, found, failed, pool, buffers>>  BY DEF restorer, memory
<1>4. held' = [t \in Tasks |-> IF t \in {} THEN 0 ELSE held[t]] /\ completed' = completed \ {}
  BY <1>1 DEF StoreOK
<1>5. OnePlace' /\ Flying' = (Flying \ {}) \cup {k}
  BY <1>1, <1>2, <1>3, <1>4, AddPlaces DEF PipelineInv
<1>6. Cardinality(Flying') = active + 1
  <2>1. Cardinality({}) = 0 /\ {} \in SUBSET completed  BY FS_EmptySet
  <2>2. Cardinality(Flying') = Cardinality(Flying) - 0 + 1
    BY <1>1, <1>5, <2>1, FlyingCount DEF PipelineInv
  <2> QED  BY <1>1, <2>2 DEF PipelineInv, Limited
<1>7. Limited'
  <2>1. active' <= Threads /\ ~(active' > Threads)  BY <1>1
  <2> QED  BY <1>6, <2>1 DEF Limited
<1>8. ThreadOK'  BY <1>1, <1>2, <1>3 DEF ThreadOK, Tasks
<1>9. Position'  BY <1>3 DEF PipelineInv, Position
<1>10. StoreOK'
  <2>1. queue' \in Seq(Tasks) /\ Len(queue') <= Threads
    BY <1>1, <1>2, SendElement DEF StoreOK
  <2> QED  BY <1>1, <1>3, <2>1 DEF StoreOK, WorkerState, Tasks
<1>11. Counts' /\ StoppedWhenIdle'
  BY <1>1, <1>2, AddCounts DEF PipelineInv, ThreadOK
<1>12. active' \in 0 .. Len(plan.tasks)'
  BY <1>1, <1>3, <1>5, <1>7, <1>8, ActiveBound DEF ThreadOK, Tasks
<1> QED  BY <1>5, <1>7, <1>8, <1>9, <1>10, <1>11, <1>12, TypeParts DEF PipelineInv

LEMMA PrefetchInv ==
    ASSUME PipelineInv, Prefetch
    PROVE  PipelineInv'
<1> DEFINE wanted == {k \in i .. plan.files[f].end : k \in needed \ started}
<1>1. ThreadOK  BY TypeParts DEF PipelineInv
<1>2. /\ pc = "prefetch" /\ ~uncounted
      /\ UNCHANGED <<restorer, i, needed, completed, held, last, count, worker, memory>>
  BY DEF Prefetch, Ready
<1>3. CASE wanted = {} \/ active >= Threads
  <2>1. pc' = "chunk" /\ UNCHANGED <<queue, uncounted, started, active>>  BY <1>3 DEF Prefetch
  <2>2. UNCHANGED <<plan, f, found, failed, downloader>>  BY <1>2, <2>1 DEF restorer, downloader
  <2>3. ThreadOK'  BY <1>1, <1>2, <2>1, <2>2 DEF ThreadOK, Tasks
  <2>4. Position'  BY <1>2, <2>1, <2>2 DEF PipelineInv, Position
  <2>5. active > Threads => last \in completed  BY <1>2 DEF PipelineInv, Limited
  <2> QED  BY <1>2, <2>1, <2>2, <2>3, <2>4, <2>5, ThreadStep
<1>4. CASE ~(wanted = {} \/ active >= Threads)
  <2>1. PICK k \in wanted : AddTask(k) /\ started' = started \cup {k} /\ active' = active + 1 /\ pc' = pc
    BY <1>4 DEF Prefetch
  <2>2. k \in Tasks /\ k \notin started  BY <1>1 DEF ThreadOK
  <2>3. active < Threads
    <3>1. active \in Int  BY DEF PipelineInv, TypeOK
    <3> QED  BY <1>4, <3>1, Constants
  <2> QED  BY <1>2, <2>1, <2>2, <2>3, FetchAhead
<1> QED  BY <1>3, <1>4

LEMMA LookAheadInv ==
    ASSUME PipelineInv, LookAhead
    PROVE  PipelineInv'
<1> DEFINE next == {k \in Tasks : k > i /\ k \notin needed \cap started
                                  /\ \A l \in i + 1 .. k - 1 : l \in needed \cap started}
<1>1. ThreadOK  BY TypeParts DEF PipelineInv
<1>2. /\ pc = "ahead" /\ ~uncounted
      /\ UNCHANGED <<restorer, i, needed, completed, held, last, count, worker, memory>>
  BY DEF LookAhead, Ready
<1>3. CASE active >= Threads \/ next \cap needed = {}
  <2>1. pc' = "receive" /\ UNCHANGED <<queue, uncounted, started, active>>  BY <1>3 DEF LookAhead
  <2>2. UNCHANGED <<plan, f, found, failed, downloader>>  BY <1>2, <2>1 DEF restorer, downloader
  <2>3. ThreadOK'  BY <1>1, <1>2, <2>1, <2>2 DEF ThreadOK, Tasks
  <2>4. Position'  BY <1>2, <2>1, <2>2 DEF PipelineInv, Position
  <2> QED  BY <1>2, <2>1, <2>2, <2>3, <2>4, ThreadStep
<1>4. CASE ~(active >= Threads \/ next \cap needed = {})
  <2>1. PICK k \in next : AddTask(k) /\ started' = started \cup {k} /\ active' = active + 1 /\ pc' = pc
    BY <1>4 DEF LookAhead
  <2>2. PICK l \in next : l \in needed  BY <1>4
  <2>3. k = l
    <3>1. i \in Nat /\ k \in Nat /\ l \in Nat  BY <1>1, PlanShape DEF ThreadOK
    <3>2. ~(k < l) /\ ~(l < k)  BY <3>1
    <3> QED  BY <3>1, <3>2
  <2>4. k \in Tasks /\ k \notin started  BY <2>2, <2>3
  <2>5. active < Threads
    <3>1. active \in Int  BY DEF PipelineInv, TypeOK
    <3> QED  BY <1>4, <3>1, Constants
  <2> QED  BY <1>2, <2>1, <2>4, <2>5, FetchAhead
<1> QED  BY <1>3, <1>4

(* Reclaim(k), when nothing after k has been reclaimed, leaves at most as  *)
(* many chunks as threads, or it has been called for k before.             *)
LEMMA ReclaimLimit ==
    ASSUME PipelineInv, NEW k \in Tasks, last <= k, active > Threads => last \in completed
    PROVE  /\ Reclaimable(k) \in SUBSET completed
           /\ (IF last >= k THEN last ELSE k) = k
           /\ active \in Nat /\ Threads \in Nat /\ Cardinality(Reclaimable(k)) \in Nat
           /\ Cardinality(Flying \ Reclaimable(k)) = active - Cardinality(Reclaimable(k))
           /\ \/ active - Cardinality(Reclaimable(k)) <= Threads
              \/ /\ Reclaimable(k) = {} /\ last = k /\ last \in completed
                 /\ active - Cardinality(Reclaimable(k)) = Threads + 1
<1> DEFINE R == Reclaimable(k)
           c == Cardinality(R)
<1>1. ThreadOK /\ StoreOK /\ OnePlace  BY TypeParts DEF PipelineInv
<1>2. active \in Nat /\ Threads \in Nat
  <2>1. active \in 0 .. Len(plan.tasks)  BY TypeParts DEF PipelineInv
  <2> QED  BY <2>1, Constants
<1>3. last \in Nat /\ k \in Nat  BY <1>1, PlanShape DEF ThreadOK
<1>4. R \in SUBSET completed  BY DEF Reclaimable
<1>5. (IF last >= k THEN last ELSE k) = k  BY <1>3
<1>6. active = Cardinality(Flying) /\ (active <= Threads \/ active = Threads + 1)
  BY DEF PipelineInv, Limited
<1>7. c \in Nat /\ (c = 0 <=> R = {}) /\ Cardinality(Flying \ R) = active - c
  BY <1>1, <1>4, <1>6, FlyingCount
<1>8. ASSUME ~(active - c <= Threads)
      PROVE  R = {} /\ last = k /\ last \in completed /\ active - c = Threads + 1
  <2>1. active = Threads + 1 /\ c = 0  BY <1>2, <1>6, <1>7, <1>8
  <2>2. active > Threads  BY <1>2, <2>1
  <2>3. R = {} /\ last \in completed  BY <1>7, <2>1, <2>2
  <2>4. held[last] # 0  BY <1>1, <2>3 DEF OnePlace
  <2>5. ~(last < k)  BY <2>3, <2>4, <1>3 DEF Reclaimable
  <2> QED  BY <1>2, <1>3, <2>1, <2>3, <2>5
<1> QED  BY <1>2, <1>4, <1>5, <1>7, <1>8

LEMMA StartFileInv ==
    ASSUME PipelineInv, StartFile
    PROVE  PipelineInv'
<1> DEFINE k == plan.files[f].start
           range == plan.files[f].start .. plan.files[f].end
<1>1. ThreadOK /\ StoreOK /\ OnePlace  BY TypeParts DEF PipelineInv
<1>2. /\ pc = "file" /\ f <= Len(plan.files) /\ Reclaim(k, 0) /\ i' = k /\ pc' = "prefetch"
      /\ UNCHANGED <<plan, f, failed, started, queue, uncounted, count, worker, buffers>>
  BY DEF StartFile, Ready
<1>3. found' \subseteq range /\ needed' \subseteq needed \cup range
  <2>1. PICK S : found' = {t \in range : plan.tasks[t] \in S} /\ needed' = needed \cup (range \ found')
    BY DEF StartFile
  <2> QED  BY <2>1
<1>4. /\ k \in Tasks /\ range \subseteq Tasks /\ k <= plan.files[f].end
      /\ k \in 0 .. Len(plan.tasks) /\ plan \in Restores /\ plan.files[f].end \in Nat /\ k \in Nat
  BY <1>1, <1>2, ThisFile, SMTT(60)
<1>5. last <= k  BY <1>2 DEF PipelineInv, Position
<1>6. active > Threads => last \in completed  BY <1>2 DEF PipelineInv, Limited
<1> HIDE DEF k, range
<1>7. /\ pool' = PutChunks(Reclaimable(k))
      /\ held' = [t \in Tasks |-> IF t \in Reclaimable(k) THEN 0 ELSE held[t]]
      /\ completed' = completed \ Reclaimable(k)
      /\ active' = active - Cardinality(Reclaimable(k)) + 0
      /\ last' = k /\ Reclaimable(k) \in SUBSET completed
  BY <1>2, <1>4, <1>5, <1>6, ReclaimLimit DEF Reclaim
<1>8. OnePlace' /\ Flying' = Flying \ Reclaimable(k)
  BY <1>1, <1>2, <1>7, ReclaimPlaces
<1>9. Limited'
  <2>1. active' = active - Cardinality(Reclaimable(k)) /\ active' = Cardinality(Flying')
        /\ active' \in Int /\ Threads \in Int
    BY <1>4, <1>5, <1>6, <1>7, <1>8, ReclaimLimit
  <2>2. \/ active' <= Threads
        \/ active' = Threads + 1 /\ last' \in completed'
    BY <1>4, <1>5, <1>6, <1>7, <2>1, ReclaimLimit
  <2>3. active' > Threads => last' \in completed'  BY <2>1, <2>2
  <2>4. completed' \subseteq Flying'  BY DEF Flying
  <2> QED  BY <2>1, <2>2, <2>3, <2>4 DEF Limited
<1>10. ThreadOK'
  <2>1. i' \in 0 .. Len(plan.tasks)' + 1 /\ last' \in 0 .. Len(plan.tasks)'
    BY <1>1, <1>2, <1>4, <1>7, PlanShape DEF ThreadOK
  <2>2. found' \subseteq Tasks /\ needed' \subseteq Tasks  BY <1>1, <1>3, <1>4 DEF ThreadOK
  <2> QED  BY <1>1, <1>2, <2>1, <2>2 DEF ThreadOK, Tasks
<1>11. Position'
  <2>1. k <= k /\ k <= plan.files[f].end + 1  BY <1>4
  <2>2. k = plan.files'[f'].start  BY <1>2 DEF k
  <2> QED  BY <1>2, <1>4, <1>7, <2>1, <2>2 DEF Position
<1>12. StoreOK'
  <2>1. queue' \in Seq(Tasks) /\ Len(queue') <= Threads  BY <1>1, <1>2 DEF StoreOK
  <2> QED  BY <1>1, <1>2, <1>4, <1>7, <2>1, ReclaimStore
<1>13. Counts' /\ StoppedWhenIdle'  BY <1>2, SameCounts DEF PipelineInv
<1>14. active' \in 0 .. Len(plan.tasks)'
  BY <1>1, <1>2, <1>8, <1>9, ActiveBound DEF ThreadOK
<1> QED  BY <1>8, <1>9, <1>10, <1>11, <1>12, <1>13, <1>14, TypeParts DEF PipelineInv

LEMMA WaitForChunkInv ==
    ASSUME PipelineInv, WaitForChunk
    PROVE  PipelineInv'
<1> DEFINE R == Reclaimable(i)
<1>1. ThreadOK /\ StoreOK /\ OnePlace  BY TypeParts DEF PipelineInv
<1>2. /\ pc = "chunk" /\ ~uncounted /\ i <= plan.files[f].end /\ started' = started \cup {i}
      /\ pc' = "ahead" /\ UNCHANGED <<restorer, i, needed, count, worker, buffers>>
      /\ UNCHANGED <<plan, f, found, failed>>
  BY DEF WaitForChunk, Ready, InFile, restorer
<1>3. /\ f <= Len(plan.files) /\ plan.files[f].start <= i /\ last <= i
  BY <1>2 DEF PipelineInv, Position
<1>4. i \in Tasks /\ plan \in Restores /\ i \in 0 .. Len(plan.tasks)  BY <1>1, <1>2, <1>3, ThisFile
<1>5. active > Threads => last \in completed  BY <1>2 DEF PipelineInv, Limited
<1>6. \E n \in {0, 1} : Reclaim(i, n)  BY DEF WaitForChunk
<1>7. /\ pool' = PutChunks(R) /\ completed' = completed \ R
      /\ held' = [t \in Tasks |-> IF t \in R THEN 0 ELSE held[t]]
      /\ last' = i /\ R \in SUBSET completed
  BY <1>3, <1>4, <1>5, <1>6, ReclaimLimit DEF Reclaim
<1>8. /\ active \in Nat /\ Threads \in Nat /\ Cardinality(R) \in Nat
      /\ Cardinality(Flying \ R) = active - Cardinality(R)
      /\ \/ active - Cardinality(R) <= Threads
         \/ /\ R = {} /\ last = i /\ last \in completed
            /\ active - Cardinality(R) = Threads + 1
  BY <1>3, <1>4, <1>5, ReclaimLimit
<1> HIDE DEF R
<1>9. /\ OnePlace' /\ Limited' /\ Counts' /\ StoppedWhenIdle'
      /\ queue' \in Seq(Tasks) /\ Len(queue') <= Threads /\ uncounted' \in BOOLEAN
  <2>1. CASE i \in started
    <3>1. active' = active - Cardinality(R) + 0 /\ UNCHANGED <<queue, uncounted>> /\ started' = started
      BY <1>2, <2>1 DEF WaitForChunk, Reclaim, R
    <3>2. OnePlace' /\ Flying' = Flying \ R  BY <1>1, <1>2, <1>7, <3>1, ReclaimPlaces
    <3>3. active' = active - Cardinality(R) /\ active' = Cardinality(Flying')  BY <1>8, <3>1, <3>2
    <3>4. active' <= Threads \/ (active' = Threads + 1 /\ last' \in completed')
      <4>1. CASE active - Cardinality(R) <= Threads  BY <3>3, <4>1
      <4>2. CASE /\ R = {} /\ last = i /\ last \in completed
                 /\ active - Cardinality(R) = Threads + 1
        BY <1>7, <1>8, <3>3, <4>2
      <4> QED  BY <1>8, <4>1, <4>2
    <3>5. completed' \subseteq Flying'  BY DEF Flying
    <3>6. Limited'  BY <1>2, <3>3, <3>4, <3>5 DEF Limited
    <3>7. Counts' /\ StoppedWhenIdle'  BY <1>2, <3>1, SameCounts DEF PipelineInv
    <3> QED  BY <1>1, <3>1, <3>2, <3>6, <3>7 DEF StoreOK, ThreadOK
  <2>2. CASE i \notin started
    <3>1. /\ active' = active - Cardinality(R) + 1 /\ queue' = Append(queue, i)
          /\ Len(queue) < Threads /\ uncounted' = TRUE
      BY <1>2, <2>2 DEF WaitForChunk, Reclaim, AddTask, R
    <3>2. OnePlace' /\ Flying' = (Flying \ R) \cup {i}
      BY <1>1, <1>2, <1>4, <1>7, <2>2, <3>1, AddPlaces
    <3>3. active' = Cardinality(Flying')
      <4>1. active = Cardinality(Flying)  BY DEF PipelineInv, Limited
      <4>2. Cardinality((Flying \ R) \cup {i}) = Cardinality(Flying) - Cardinality(R) + 1
        BY <1>1, <1>4, <1>7, <2>2, FlyingCount
      <4> QED  BY <3>1, <3>2, <4>1, <4>2
    <3>4. completed \subseteq started  BY <1>1 DEF OnePlace, Flying
    <3>5. active - Cardinality(R) <= Threads  BY <1>8, <2>2, <3>4
    <3>6. active' <= Threads \/ active' = Threads + 1  BY <1>8, <3>1, <3>5
    <3>7. Limited'  BY <1>2, <1>7, <3>2, <3>3, <3>6 DEF Limited
    <3>8. Counts' /\ StoppedWhenIdle'
      BY <1>1, <1>2, <1>4, <3>1, AddCounts DEF PipelineInv, ThreadOK
    <3>9. queue' \in Seq(Tasks) /\ Len(queue') <= Threads
      BY <1>1, <1>4, <1>8, <3>1, SendElement DEF StoreOK
    <3> QED  BY <3>1, <3>2, <3>7, <3>8, <3>9
  <2> QED  BY <2>1, <2>2
<1>10. ThreadOK'
  <2>1. last' \in 0 .. Len(plan.tasks)' /\ started' \subseteq Tasks  BY <1>1, <1>2, <1>4, <1>7 DEF ThreadOK
  <2> QED  BY <1>1, <1>2, <1>9, <2>1 DEF ThreadOK, Tasks
<1>11. Position'
  <2>1. i <= i /\ i <= plan.files[f].end + 1  BY <1>1, <1>2, <1>3, ThisFile
  <2> QED  BY <1>2, <1>3, <1>7, <2>1 DEF Position
<1>12. StoreOK'  BY <1>1, <1>2, <1>4, <1>7, <1>9, ReclaimStore
<1>13. active' \in 0 .. Len(plan.tasks)'
  BY <1>2, <1>4, <1>9, <1>10, ActiveBound DEF ThreadOK, Tasks
<1> QED  BY <1>9, <1>10, <1>11, <1>12, <1>13, TypeParts DEF PipelineInv

-----------------------------------------------------------------------------
(* The workers.                                                            *)

(* A worker in another state, with the same task and buffer. *)
LEMMA NewSt ==
    ASSUME NEW r \in WorkerState, NEW x \in {"idle", "fetch", "send", "sent", "stopped"},
           NEW e, e = [r EXCEPT !.st = x]
    PROVE  /\ e \in WorkerState /\ e.st = x
           /\ e.task = r.task /\ e.buffer = r.buffer /\ e.broken = r.broken
  BY DEF WorkerState

LEMMA StateFields ==
    ASSUME StoreOK, NEW v \in Workers
    PROVE  /\ worker[v] \in WorkerState
           /\ worker[v].st \in {"idle", "fetch", "send", "sent", "stopped"}
           /\ worker[v].task \in Tasks \cup {0} /\ worker[v].buffer \in 0 .. Len(buffers)
           /\ worker[v].broken \in BOOLEAN
<1>1. worker[v] \in WorkerState  BY DEF StoreOK
<1> QED  BY <1>1 DEF WorkerState

(* One worker changes its state. *)
LEMMA OneWorker ==
    ASSUME StoreOK, NEW w \in Workers, NEW r, worker' = [worker EXCEPT ![w] = r]
    PROVE  /\ worker'[w] = r
           /\ \A v \in Workers : v # w => worker'[v] = worker[v]
           /\ DOMAIN worker' = Workers
  BY DEF StoreOK

(* A worker goes on from one stage of a download to the next. *)
LEMMA SameHands ==
    ASSUME \A v \in Workers :
              /\ worker'[v].task = worker[v].task /\ worker'[v].buffer = worker[v].buffer
              /\ worker'[v].st \in {"fetch", "send"} <=> worker[v].st \in {"fetch", "send"}
              /\ worker'[v].st = "sent" <=> worker[v].st = "sent"
    PROVE  Running' = Running /\ InHand' = InHand /\ Occupied' = Occupied
<1>1. Running' = Running  BY DEF Running
<1>2. Occupied' = Occupied  BY DEF Occupied
<1>3. \A v \in Running : worker'[v].task = worker[v].task  BY DEF Running
<1> QED  BY <1>1, <1>2, <1>3 DEF InHand

LEMMA SameHandsPlaces ==
    ASSUME OnePlace, Running' = Running, InHand' = InHand,
           \A v \in Workers : worker'[v].task = worker[v].task /\ worker'[v].buffer = worker[v].buffer,
           UNCHANGED <<plan, queue, completed, held, started>>
    PROVE  OnePlace' /\ Flying' = Flying
<1>1. Queued' = Queued /\ Tasks' = Tasks  BY DEF Queued, Tasks
<1>2. Flying' = Flying  BY <1>1 DEF Flying
<1>3. \A v \in Running : v \in Workers  BY DEF Running
<1>4. OnePlace'
  <2>1. /\ \A v, u \in Running' : worker'[v].task = worker'[u].task => v = u
        /\ \A v \in Running' : worker'[v].task # 0 /\ worker'[v].buffer # 0
    BY <1>3 DEF OnePlace
  <2>2. \A m, n \in DOMAIN queue' : queue'[m] = queue'[n] => m = n  BY DEF OnePlace
  <2>3. completed' = {k \in Tasks' : held'[k] # 0}  BY <1>1 DEF OnePlace
  <2>4. /\ Queued' \cap InHand' = {} /\ Queued' \cap completed' = {} /\ InHand' \cap completed' = {}
        /\ Flying' \subseteq started'
    BY <1>1, <1>2 DEF OnePlace
  <2> QED  BY <2>1, <2>2, <2>3, <2>4 DEF OnePlace
<1> QED  BY <1>2, <1>4

(* The thread does not move. *)
LEMMA SameThread ==
    ASSUME UNCHANGED <<restorer, i, pc, needed, started, last, active, uncounted>>, count' \in Int
    PROVE  /\ ThreadOK => ThreadOK'
           /\ Position => Position'
           /\ active \in 0 .. Len(plan.tasks) => active' \in 0 .. Len(plan.tasks)'
  BY DEF ThreadOK, Position, restorer, Tasks

(* Nothing but the stages of workers changes. *)
LEMMA SameHandsInv ==
    ASSUME PipelineInv, StoreOK',
           \A v \in Workers :
              /\ worker'[v].task = worker[v].task /\ worker'[v].buffer = worker[v].buffer
              /\ worker'[v].st \in {"fetch", "send"} <=> worker[v].st \in {"fetch", "send"}
              /\ worker'[v].st = "sent" <=> worker[v].st = "sent"
              /\ worker'[v].st = "stopped" <=> worker[v].st = "stopped",
           UNCHANGED <<restorer, pc, i, downloader, queue, uncounted, count>>
    PROVE  PipelineInv'
<1>1. ThreadOK /\ active \in 0 .. Len(plan.tasks)  BY TypeParts DEF PipelineInv
<1>2. UNCHANGED <<plan, needed, started, completed, held, last, active>>
  BY DEF downloader, restorer
<1>3. Running' = Running /\ InHand' = InHand /\ Occupied' = Occupied  BY SameHands
<1>4. OnePlace' /\ Flying' = Flying  BY <1>2, <1>3, SameHandsPlaces DEF PipelineInv
<1>5. Limited'
  <2>1. active > Threads /\ pc' \in {"file", "prefetch", "chunk", "stop"} => last \in completed
    BY DEF PipelineInv, Limited
  <2> QED  BY <1>2, <1>4, <2>1, SameLimit DEF PipelineInv
<1>6. ThreadOK' /\ Position' /\ active' \in 0 .. Len(plan.tasks)'
  BY <1>1, <1>2, SameThread DEF PipelineInv, ThreadOK
<1>7. Counts'  BY <1>3 DEF PipelineInv, Counts, Uncounted
<1>8. StoppedWhenIdle'
  <2> SUFFICES ASSUME NEW w \in Workers, worker'[w].st = "stopped"
               PROVE  queue' = <<>> /\ \A v \in Workers : worker'[v].st \in {"idle", "stopped"}
    BY DEF StoppedWhenIdle
  <2>1. queue = <<>> /\ \A v \in Workers : worker[v].st \in {"idle", "stopped"}
    BY DEF PipelineInv, StoppedWhenIdle
  <2>2. ASSUME NEW v \in Workers PROVE worker'[v].st \in {"idle", "stopped"}
    <3>1. worker'[v].st \in {"idle", "fetch", "send", "sent", "stopped"}
      <4>1. worker'[v] \in WorkerState'  BY DEF StoreOK
      <4> QED  BY <4>1 DEF WorkerState
    <3> QED  BY <2>1, <3>1
  <2> QED  BY <2>1, <2>2
<1> QED  BY <1>4, <1>5, <1>6, <1>7, <1>8, TypeParts DEF PipelineInv

(* One buffer changes. *)
LEMMA OneBuffer ==
    ASSUME StoreOK, NEW b \in 1 .. Len(buffers), NEW e \in Buffer,
           buffers' = [buffers EXCEPT ![b] = e]
    PROVE  /\ buffers' \in Seq(Buffer) /\ Len(buffers') = Len(buffers)
           /\ buffers'[b] = e
           /\ \A c \in 1 .. Len(buffers) : c # b => buffers'[c] = buffers[c]
<1>1. buffers \in Seq(Buffer)  BY DEF StoreOK
<1> QED  BY <1>1, ExceptSeq

(* The task and the buffer of a worker that downloads. *)
LEMMA WorkInHand ==
    ASSUME PipelineInv, NEW w \in Workers, worker[w].st \in {"fetch", "send"}
    PROVE  /\ w \in Running /\ StoreOK /\ plan \in Restores
           /\ worker[w].task \in Tasks /\ worker[w].buffer \in 1 .. Len(buffers)
           /\ Len(buffers) \in Nat /\ plan.tasks[worker[w].task] \in Nat
<1>1. w \in Running  BY DEF Running
<1>2. worker[w].task # 0 /\ worker[w].buffer # 0  BY <1>1 DEF PipelineInv, OnePlace
<1>3. StoreOK /\ plan \in Restores  BY TypeParts DEF PipelineInv, ThreadOK
<1>4. worker[w].task \in Tasks /\ worker[w].buffer \in 0 .. Len(buffers)  BY <1>2, <1>3, StateFields
<1>5. Len(buffers) \in Nat  BY <1>3 DEF StoreOK
<1> QED  BY <1>1, <1>2, <1>3, <1>4, <1>5, PlanShape

(* A step to the next stage, with the buffer changed. *)
LEMMA StageStep ==
    ASSUME PipelineInv, NEW w \in Workers, worker[w].st = "fetch",
           NEW r \in WorkerState, r.st = "send", r.task = worker[w].task, r.buffer = worker[w].buffer,
           worker' = [worker EXCEPT ![w] = r], NEW e \in Buffer,
           buffers' = [buffers EXCEPT ![worker[w].buffer] = e],
           UNCHANGED <<restorer, pc, i, downloader, queue, uncounted, count, pool>>
    PROVE  PipelineInv'
<1>1. StoreOK /\ worker[w].buffer \in 1 .. Len(buffers)  BY WorkInHand
<1>2. buffers' \in Seq(Buffer) /\ Len(buffers') = Len(buffers)  BY <1>1, OneBuffer
<1>3. /\ worker'[w] = r /\ \A v \in Workers : v # w => worker'[v] = worker[v]
  BY <1>1, OneWorker
<1>4. UNCHANGED <<plan, completed, held>>  BY DEF restorer, downloader
<1>5. StoreOK'
  <2>1. Tasks' = Tasks /\ WorkerState' = WorkerState  BY <1>2, <1>4 DEF Tasks, WorkerState
  <2>2. worker' \in [Workers -> WorkerState]  BY <1>1 DEF StoreOK
  <2> QED  BY <1>1, <1>2, <1>4, <2>1, <2>2 DEF StoreOK
<1>6. ASSUME NEW v \in Workers
      PROVE  /\ worker'[v].task = worker[v].task /\ worker'[v].buffer = worker[v].buffer
             /\ worker'[v].st \in {"fetch", "send"} <=> worker[v].st \in {"fetch", "send"}
             /\ worker'[v].st = "sent" <=> worker[v].st = "sent"
             /\ worker'[v].st = "stopped" <=> worker[v].st = "stopped"
  BY <1>3
<1> QED  BY <1>5, <1>6, SameHandsInv

LEMMA FetchChunkInv ==
    ASSUME PipelineInv, NEW w \in Workers, FetchChunk(w)
    PROVE  PipelineInv'
<1> DEFINE b == worker[w].buffer
           e == [buffers[b] EXCEPT !.hash = plan.tasks[worker[w].task]]
           r == [worker[w] EXCEPT !.st = "send"]
<1>1. /\ worker[w].st = "fetch" /\ worker' = [worker EXCEPT ![w] = r]
      /\ buffers' = [buffers EXCEPT ![b] = e]
      /\ UNCHANGED <<restorer, pc, i, downloader, queue, uncounted, count, pool>>
  BY DEF FetchChunk
<1>2. worker[w] \in WorkerState /\ b \in 1 .. Len(buffers) /\ plan.tasks[worker[w].task] \in Nat
  BY <1>1, WorkInHand, StateFields
<1>3. e \in Buffer
  <2>1. buffers \in Seq(Buffer)  BY <1>1, WorkInHand DEF StoreOK
  <2>2. buffers[b] \in Buffer  BY <1>2, <2>1, ElementOfSeq
  <2> QED  BY <1>2, <2>2 DEF Buffer
<1>4. r \in WorkerState /\ r.st = "send" /\ r.task = worker[w].task /\ r.buffer = b
  BY <1>2, NewSt
<1> HIDE DEF b, e, r
<1> QED  BY <1>1, <1>3, <1>4, StageStep DEF b

LEMMA FailChunkInv ==
    ASSUME PipelineInv, NEW w \in Workers, FailChunk(w)
    PROVE  PipelineInv'
<1> DEFINE b == worker[w].buffer
           e == [buffers[b] EXCEPT !.broken = TRUE]
           r == [worker[w] EXCEPT !.st = "send", !.broken = TRUE]
<1>1. /\ worker[w].st = "fetch" /\ Alive
      /\ UNCHANGED <<restorer, i, downloader, queue, uncounted, count, pool>>
  BY DEF FailChunk
<1>2. CASE AllowFailures
  <2>1. worker' = [worker EXCEPT ![w] = r] /\ buffers' = [buffers EXCEPT ![b] = e] /\ pc' = pc
    BY <1>2 DEF FailChunk
  <2>2. worker[w] \in WorkerState /\ b \in 1 .. Len(buffers)
    BY <1>1, WorkInHand, StateFields
  <2>3. e \in Buffer
    <3>1. buffers \in Seq(Buffer)  BY <1>1, WorkInHand DEF StoreOK
    <3>2. buffers[b] \in Buffer  BY <2>2, <3>1, ElementOfSeq
    <3> QED  BY <3>2 DEF Buffer
  <2>4. r \in WorkerState /\ r.st = "send" /\ r.task = worker[w].task /\ r.buffer = b
    BY <2>2 DEF WorkerState
  <2> HIDE DEF b, e, r
  <2> QED  BY <1>1, <2>1, <2>3, <2>4, StageStep DEF b
<1>3. CASE ~AllowFailures
  <2>1. pc' = "exited" /\ UNCHANGED <<buffers, worker>>  BY <1>3 DEF FailChunk
  <2>2. UNCHANGED <<plan, f, found, failed, last, needed, started, memory>>
    BY <1>1, <2>1 DEF downloader, restorer, memory
  <2>3. ThreadOK'
    <3>1. ThreadOK  BY TypeParts DEF PipelineInv
    <3> QED  BY <1>1, <2>1, <2>2, <3>1 DEF ThreadOK, Tasks
  <2>4. Position'  BY <2>1 DEF Position
  <2>5. pc # "done"  BY <1>1 DEF Alive
  <2> QED  BY <1>1, <2>1, <2>2, <2>3, <2>4, <2>5, ThreadStep
<1> QED  BY <1>2, <1>3

LEMMA FinishTaskInv ==
    ASSUME PipelineInv, NEW w \in Workers, FinishTask(w)
    PROVE  PipelineInv'
<1>1. /\ worker[w].st = "sent" /\ worker' = [worker EXCEPT ![w] = Idle] /\ count' = count - 1 /\ Alive
      /\ pool' = IF worker[w].broken THEN [pool EXCEPT ![worker[w].buffer] = @ + 1] ELSE pool
      /\ UNCHANGED <<restorer, pc, i, downloader, queue, uncounted, buffers>>
  BY DEF FinishTask
<1>2. ThreadOK /\ StoreOK /\ active \in 0 .. Len(plan.tasks)  BY TypeParts DEF PipelineInv
<1>3. UNCHANGED <<plan, needed, started, completed, held, last, active>>
  BY <1>1 DEF downloader, restorer
<1>4. /\ worker'[w] = Idle /\ \A v \in Workers : v # w => worker'[v] = worker[v]
  BY <1>1, <1>2, OneWorker
<1>5. StoreOK'
  <2>1. Tasks' = Tasks /\ WorkerState' = WorkerState  BY <1>1, <1>3 DEF Tasks, WorkerState
  <2>2. Idle \in WorkerState
    <3>1. 0 \in 0 .. Len(buffers)  BY <1>2 DEF StoreOK
    <3> QED  BY <3>1 DEF Idle, WorkerState
  <2>3. worker' \in [Workers -> WorkerState]  BY <1>1, <1>2, <2>2 DEF StoreOK
  <2>4. pool' \in Seq(Nat) /\ Len(pool') = Len(pool)
    <3>1. pool \in Seq(Nat) /\ pool \in [1 .. Len(pool) -> Nat] /\ Len(pool) \in Nat  BY <1>2 DEF StoreOK
    <3>2. ASSUME NEW b PROVE [pool EXCEPT ![b] = @ + 1] \in [1 .. Len(pool) -> Nat]
      <4>1. CASE b \in 1 .. Len(pool)  BY <3>1, <4>1
      <4>2. CASE b \notin 1 .. Len(pool)
        <5>1. [pool EXCEPT ![b] = @ + 1] = pool  BY <3>1, <4>2
        <5> QED  BY <3>1, <5>1
      <4> QED  BY <4>1, <4>2
    <3> QED  BY <1>1, <3>1, <3>2, AsSequence
  <2> QED  BY <1>1, <1>2, <1>3, <2>1, <2>3, <2>4 DEF StoreOK
<1>6. Running' = Running /\ InHand' = InHand
  <2>1. Running' = Running
    <3>1. w \notin Running /\ w \notin Running'  BY <1>1, <1>4 DEF Running, Idle
    <3>2. \A v \in Workers : v # w => (v \in Running' <=> v \in Running)  BY <1>4 DEF Running
    <3> QED  BY <3>1, <3>2 DEF Running
  <2>2. \A v \in Running : worker'[v] = worker[v]  BY <1>1, <1>4 DEF Running
  <2> QED  BY <2>1, <2>2 DEF InHand
<1>7. OnePlace' /\ Flying' = Flying
  <2>1. Tasks' = Tasks /\ Queued' = Queued  BY <1>1, <1>3 DEF Tasks, Queued
  <2>2. \A v \in Running : worker'[v] = worker[v]  BY <1>1, <1>4 DEF Running
  <2> QED  BY <1>1, <1>3, <1>6, <2>1, <2>2 DEF PipelineInv, OnePlace, Flying
<1>8. Limited'
  <2>1. active > Threads /\ pc' \in {"file", "prefetch", "chunk", "stop"} => last \in completed
    BY <1>1 DEF PipelineInv, Limited
  <2> QED  BY <1>3, <1>7, <2>1, SameLimit DEF PipelineInv
<1>9. ThreadOK' /\ Position' /\ active' \in 0 .. Len(plan.tasks)'
  <2>1. count' \in Int  BY <1>1, <1>2 DEF ThreadOK
  <2> QED  BY <1>1, <1>2, <1>3, <2>1, SameThread DEF PipelineInv
<1>10. Occupied' = Occupied \ {w} /\ w \in Occupied
  <2>1. w \in Occupied /\ w \notin Occupied'  BY <1>1, <1>4 DEF Occupied, Idle
  <2>2. \A v \in Workers : v # w => (v \in Occupied' <=> v \in Occupied)  BY <1>4 DEF Occupied
  <2> QED  BY <2>1, <2>2 DEF Occupied
<1>11. Counts'
  <2>1. Cardinality(Occupied') = Cardinality(Occupied) - 1 /\ Cardinality(Occupied) \in Nat
    BY <1>10, WorkerSets, FS_RemoveElement, ZenonT(60) DEF Occupied
  <2>2. count + Uncounted = Len(queue) + Cardinality(Occupied)
    BY <1>1 DEF PipelineInv, Counts, Alive
  <2>3. Uncounted' = Uncounted /\ Uncounted \in Int  BY <1>1 DEF Uncounted
  <2>4. count \in Int /\ Len(queue) \in Int  BY <1>2 DEF ThreadOK, StoreOK
  <2>5. count' = count - 1 /\ queue' = queue  BY <1>1
  <2>6. count' + Uncounted' = Len(queue') + Cardinality(Occupied')
    BY <2>1, <2>2, <2>3, <2>4, <2>5
  <2>7. \A v \in Workers : worker'[v].st = "stopped" => pc' \in {"stop", "done", "exited"}
    BY <1>1, <1>4 DEF PipelineInv, Counts, Idle
  <2> QED  BY <1>1, <2>6, <2>7 DEF PipelineInv, Counts
<1>12. StoppedWhenIdle'
  <2>1. \A v \in Workers : worker[v].st # "stopped"  BY <1>1 DEF PipelineInv, StoppedWhenIdle
  <2>2. \A v \in Workers : worker'[v].st # "stopped"  BY <1>4, <2>1 DEF Idle
  <2> QED  BY <2>2 DEF StoppedWhenIdle
<1> QED  BY <1>5, <1>7, <1>8, <1>9, <1>11, <1>12, TypeParts DEF PipelineInv

(* GetChunk takes a buffer that is in the pool, or a new one. *)
LEMMA GetChunkStore ==
    ASSUME StoreOK, NEW b \in 1 .. Len(buffers) + 1, GetChunk(b)
    PROVE  /\ pool' \in Seq(Nat) /\ buffers' \in Seq(Buffer) /\ Len(pool') = Len(buffers')
           /\ Len(buffers) \in Nat /\ Len(buffers') \in Nat /\ Len(buffers) <= Len(buffers')
           /\ b \in 1 .. Len(buffers')
           /\ \A c \in 1 .. Len(buffers) : c # b => pool'[c] = pool[c] /\ buffers'[c] = buffers[c]
           /\ \/ b = Len(buffers) + 1 /\ pool'[b] = 0 /\ Len(buffers') = Len(buffers) + 1
              \/ /\ b \in 1 .. Len(buffers) /\ pool[b] > 0 /\ pool'[b] = pool[b] - 1
                 /\ Len(buffers') = Len(buffers)
<1> DEFINE n == Len(buffers)
           e == [hash |-> 0, broken |-> FALSE]
<1>1. /\ n \in Nat /\ Len(pool) = n /\ pool \in Seq(Nat) /\ buffers \in Seq(Buffer)
      /\ DOMAIN buffers = 1 .. n /\ DOMAIN pool = 1 .. n
      /\ \A c \in 1 .. n : pool[c] \in Nat /\ buffers[c] \in Buffer
  BY DEF StoreOK
<1>2. e \in Buffer  BY DEF Buffer
<1>3. buffers' = [c \in 1 .. Len(pool') |-> IF c = b THEN e ELSE buffers[c]]  BY DEF GetChunk
<1>4. \/ /\ b = n + 1 /\ pool' = Append(pool, 0)
      \/ /\ b \in 1 .. n /\ pool[b] > 0 /\ pool' = [pool EXCEPT ![b] = pool[b] - 1]
  BY <1>1, SMTT(60) DEF GetChunk
<1> HIDE DEF n, e
<1>5. CASE b = n + 1 /\ pool' = Append(pool, 0)
  <2>1. /\ pool' \in Seq(Nat) /\ Len(pool') = n + 1 /\ pool'[b] = 0
        /\ \A c \in 1 .. n : pool'[c] = pool[c]
    BY <1>1, <1>5
  <2>2. \A c \in 1 .. n + 1 : c # b => c \in 1 .. n  BY <1>1, <1>5
  <2>3. buffers' \in [1 .. n + 1 -> Buffer]  BY <1>1, <1>2, <1>3, <2>1, <2>2
  <2>4. buffers' \in Seq(Buffer) /\ Len(buffers') = n + 1  BY <1>1, <2>3, AsSequence
  <2>5. \A c \in 1 .. n : c # b => buffers'[c] = buffers[c]  BY <1>1, <1>3, <2>1
  <2>6. b \in 1 .. n + 1 /\ n <= n + 1 /\ n + 1 \in Nat  BY <1>1, <1>5, SMTT(60)
  <2> QED  BY <1>1, <1>5, <2>1, <2>4, <2>5, <2>6, ZenonT(60) DEF n
<1>6. CASE b \in 1 .. n /\ pool[b] > 0 /\ pool' = [pool EXCEPT ![b] = pool[b] - 1]
  <2>1. pool[b] - 1 \in Nat  BY <1>1, <1>6
  <2>2. /\ pool' \in Seq(Nat) /\ Len(pool') = n /\ pool'[b] = pool[b] - 1
        /\ \A c \in 1 .. n : c # b => pool'[c] = pool[c]
    BY <1>1, <1>6, <2>1, ExceptSeq
  <2>3. buffers' \in [1 .. n -> Buffer]  BY <1>1, <1>2, <1>3, <2>2
  <2>4. buffers' \in Seq(Buffer) /\ Len(buffers') = n  BY <1>1, <2>3, AsSequence
  <2>5. \A c \in 1 .. n : c # b => buffers'[c] = buffers[c]  BY <1>3, <2>2
  <2>6. n <= n  BY <1>1
  <2> QED  BY <1>1, <1>6, <2>2, <2>4, <2>5, <2>6, ZenonT(60) DEF n
<1> QED  BY <1>4, <1>5, <1>6

LEMMA TakeTaskInv ==
    ASSUME PipelineInv, NEW w \in Workers, TakeTask(w)
    PROVE  PipelineInv'
<1> DEFINE h == Head(queue)
<1>1. /\ Alive /\ worker[w].st = "idle" /\ queue # <<>> /\ queue' = Tail(queue)
      /\ UNCHANGED <<restorer, pc, i, downloader, uncounted, count>>
  BY DEF TakeTask
<1>2. ThreadOK /\ StoreOK /\ active \in 0 .. Len(plan.tasks) /\ OnePlace  BY TypeParts DEF PipelineInv
<1>3. UNCHANGED <<plan, needed, started, completed, held, last, active>>
  BY <1>1 DEF downloader, restorer
<1>4. PICK b \in 1 .. Len(buffers) + 1 :
         /\ GetChunk(b)
         /\ worker' = [worker EXCEPT ![w] = [st |-> "fetch", task |-> h, buffer |-> b, broken |-> FALSE]]
  BY DEF TakeTask
<1>5. /\ worker'[w] = [st |-> "fetch", task |-> h, buffer |-> b, broken |-> FALSE]
      /\ \A v \in Workers : v # w => worker'[v] = worker[v]
      /\ DOMAIN worker' = Workers
  BY <1>2, <1>4, OneWorker
<1>6. /\ Queued = Elements(queue) /\ Queued' = Elements(queue') /\ Distinct(queue)
      /\ queue \in Seq(Tasks)
  BY <1>2 DEF Queued, Elements, Distinct, OnePlace, StoreOK
<1>7. /\ queue' \in Seq(Tasks) /\ Len(queue') = Len(queue) - 1 /\ Len(queue) \in Nat \ {0}
      /\ h \in Tasks /\ h \in Queued /\ Queued' = Queued \ {h} /\ Distinct(queue')
  BY <1>1, <1>6, ReceiveElement
<1> HIDE DEF h
<1>8. StoreOK'
  <2>1. /\ pool' \in Seq(Nat) /\ buffers' \in Seq(Buffer) /\ Len(pool') = Len(buffers')
        /\ Len(buffers) \in Nat /\ Len(buffers') \in Nat /\ Len(buffers) <= Len(buffers')
        /\ b \in 0 .. Len(buffers')
    BY <1>2, <1>4, GetChunkStore
  <2>2. Tasks' = Tasks /\ 0 .. Len(buffers) \subseteq 0 .. Len(buffers')  BY <1>3, <2>1 DEF Tasks
  <2>3. WorkerState \subseteq WorkerState'  BY <2>2 DEF WorkerState
  <2>4. worker'[w] \in WorkerState'  BY <1>5, <1>7, <2>1, <2>2 DEF WorkerState
  <2>5. worker' \in [Workers -> WorkerState']
    <3>1. \A v \in Workers : worker'[v] \in WorkerState'  BY <1>2, <1>5, <2>3, <2>4, StateFields
    <3>2. worker' = [v \in Workers |-> worker'[v]]
      <4>1. worker \in [Workers -> WorkerState]  BY <1>2 DEF StoreOK
      <4> QED  BY <1>4, <4>1
    <3> QED  BY <3>1, <3>2
  <2>6. held' \in [Tasks -> 0 .. Len(buffers')]  BY <1>2, <1>3, <2>2 DEF StoreOK
  <2>7. Len(queue') <= Threads
    <3>1. Len(queue) <= Threads /\ Threads \in Int  BY <1>2, Constants DEF StoreOK
    <3> QED  BY <1>7, <3>1
  <2> QED  BY <1>2, <1>3, <1>7, <2>1, <2>2, <2>5, <2>6, <2>7 DEF StoreOK
<1>9. Running' = Running \cup {w} /\ w \notin Running
  <2>1. w \notin Running /\ w \in Running'  BY <1>1, <1>5 DEF Running
  <2>2. \A v \in Workers : v # w => (v \in Running' <=> v \in Running)  BY <1>5 DEF Running
  <2> QED  BY <2>1, <2>2 DEF Running
<1>10. (\A v \in Running : worker'[v] = worker[v]) /\ worker'[w].task = h /\ worker'[w].buffer = b
  BY <1>5, <1>9 DEF Running
<1>11. InHand' = InHand \cup {h}  BY <1>9, <1>10 DEF InHand
<1>12. Flying' = Flying  BY <1>3, <1>7, <1>11 DEF Flying
<1>13. OnePlace'
  <2>1. Tasks' = Tasks  BY <1>3 DEF Tasks
  <2>2. \A m, n \in DOMAIN queue' : queue'[m] = queue'[n] => m = n  BY <1>7 DEF Distinct
  <2>3. h \notin InHand /\ h \notin completed  BY <1>2, <1>7 DEF OnePlace
  <2>4. \A u, v \in Running' : worker'[u].task = worker'[v].task => u = v
    <3>1. \A v \in Running : worker[v].task # h  BY <2>3 DEF InHand
    <3>2. \A u, v \in Running : worker[u].task = worker[v].task => u = v  BY <1>2 DEF OnePlace
    <3> QED  BY <1>9, <1>10, <3>1, <3>2
  <2>5. \A v \in Running' : worker'[v].task # 0 /\ worker'[v].buffer # 0
    <3>1. h # 0 /\ b # 0  BY <1>2, <1>7, PlanShape DEF ThreadOK
    <3>2. \A v \in Running : worker[v].task # 0 /\ worker[v].buffer # 0  BY <1>2 DEF OnePlace
    <3> QED  BY <1>9, <1>10, <3>1, <3>2
  <2>6. Queued' \cap InHand' = {} /\ Queued' \cap completed = {} /\ InHand' \cap completed = {}
    BY <1>2, <1>7, <1>11, <2>3 DEF OnePlace
  <2> QED  BY <1>2, <1>3, <1>12, <2>1, <2>2, <2>4, <2>5, <2>6 DEF OnePlace
<1>14. Limited'
  <2>1. active > Threads /\ pc' \in {"file", "prefetch", "chunk", "stop"} => last \in completed
    BY <1>1 DEF PipelineInv, Limited
  <2> QED  BY <1>3, <1>12, <2>1, SameLimit DEF PipelineInv
<1>15. ThreadOK' /\ Position' /\ active' \in 0 .. Len(plan.tasks)'
  <2>1. count' \in Int  BY <1>1, <1>2 DEF ThreadOK
  <2> QED  BY <1>1, <1>2, <1>3, <2>1, SameThread DEF PipelineInv
<1>16. Occupied' = Occupied \cup {w} /\ w \notin Occupied
  <2>1. w \notin Occupied /\ w \in Occupied'  BY <1>1, <1>5 DEF Occupied
  <2>2. \A v \in Workers : v # w => (v \in Occupied' <=> v \in Occupied)  BY <1>5 DEF Occupied
  <2> QED  BY <2>1, <2>2 DEF Occupied
<1>17. \A v \in Workers : worker[v].st # "stopped"  BY <1>1 DEF PipelineInv, StoppedWhenIdle
<1>18. \A v \in Workers : worker'[v].st # "stopped"  BY <1>5, <1>17
<1>19. Counts'
  <2>1. Cardinality(Occupied') = Cardinality(Occupied) + 1 /\ Cardinality(Occupied) \in Nat
    BY <1>16, WorkerSets, FS_AddElement DEF Occupied
  <2>2. count + Uncounted = Len(queue) + Cardinality(Occupied)
    BY <1>1 DEF PipelineInv, Counts, Alive
  <2>3. Uncounted' = Uncounted /\ Uncounted \in Int  BY <1>1 DEF Uncounted
  <2>4. count \in Int  BY <1>2 DEF ThreadOK
  <2>5. count' = count  BY <1>1
  <2>6. count' + Uncounted' = Len(queue') + Cardinality(Occupied')
    BY <1>7, <2>1, <2>2, <2>3, <2>4, <2>5
  <2> QED  BY <1>1, <1>18, <2>6 DEF PipelineInv, Counts
<1>20. StoppedWhenIdle'  BY <1>18 DEF StoppedWhenIdle
<1> QED  BY <1>8, <1>13, <1>14, <1>15, <1>19, <1>20, TypeParts DEF PipelineInv

LEMMA ReceiveInv ==
    ASSUME PipelineInv, NEW w \in Workers, Receive(w)
    PROVE  PipelineInv'
<1> DEFINE k == worker[w].task
           b == worker[w].buffer
           r == [worker[w] EXCEPT !.st = "sent"]
<1>1. /\ pc = "receive" /\ worker[w].st = "send"
      /\ completed' = completed \cup {k} /\ held' = [held EXCEPT ![k] = b]
      /\ worker' = [worker EXCEPT ![w] = r]
      /\ UNCHANGED <<restorer, pc, i, needed, started, last, active, queue, uncounted, count, memory>>
  BY DEF Receive, Ready
<1>2. ThreadOK /\ StoreOK /\ active \in 0 .. Len(plan.tasks) /\ OnePlace  BY TypeParts DEF PipelineInv
<1>3. UNCHANGED <<plan, pool, buffers>>  BY <1>1 DEF restorer, memory
<1>4. w \in Running /\ k \in Tasks /\ b \in 1 .. Len(buffers) /\ Len(buffers) \in Nat /\ worker[w] \in WorkerState
  BY <1>1, <1>2, WorkInHand, StateFields
<1>5. r \in WorkerState /\ r.st = "sent" /\ r.task = k  BY <1>4, NewSt
<1> HIDE DEF r
<1>6. worker'[w] = r /\ \A v \in Workers : v # w => worker'[v] = worker[v]  BY <1>1, <1>2, OneWorker
<1>7. k \in InHand /\ k \notin completed /\ k \notin Queued
  <2>1. k \in InHand  BY <1>4 DEF InHand
  <2> QED  BY <1>2, <2>1 DEF OnePlace
<1> HIDE DEF k, b
<1>8. StoreOK'
  <2>1. Tasks' = Tasks /\ WorkerState' = WorkerState  BY <1>3 DEF Tasks, WorkerState
  <2>2. worker' \in [Workers -> WorkerState]  BY <1>1, <1>2, <1>5 DEF StoreOK
  <2>3. held' \in [Tasks -> 0 .. Len(buffers)] /\ completed' \subseteq Tasks
    BY <1>1, <1>2, <1>4 DEF StoreOK
  <2> QED  BY <1>1, <1>2, <1>3, <2>1, <2>2, <2>3 DEF StoreOK
<1>9. Running' = Running \ {w}
  <2>1. w \notin Running'  BY <1>5, <1>6 DEF Running
  <2>2. \A v \in Workers : v # w => (v \in Running' <=> v \in Running)  BY <1>6 DEF Running
  <2> QED  BY <2>1, <2>2 DEF Running
<1>10. \A v \in Running' : v \in Running /\ v # w /\ worker'[v] = worker[v]  BY <1>6, <1>9 DEF Running
<1>11. InHand' = InHand \ {k}
  <2>1. \A v \in Running' : worker[v].task # k  BY <1>2, <1>4, <1>10 DEF OnePlace, k
  <2>2. \A v \in Running : v = w \/ v \in Running'  BY <1>9
  <2> QED  BY <1>10, <2>1, <2>2 DEF InHand, k
<1>12. Queued' = Queued /\ Flying' = Flying
  <2>1. Queued' = Queued  BY <1>1 DEF Queued
  <2> QED  BY <1>1, <1>7, <1>11, <2>1 DEF Flying
<1>13. OnePlace'
  <2>1. Tasks' = Tasks  BY <1>3 DEF Tasks
  <2>2. \A m, n \in DOMAIN queue' : queue'[m] = queue'[n] => m = n  BY <1>1, <1>2 DEF OnePlace
  <2>3. /\ \A u, v \in Running' : worker'[u].task = worker'[v].task => u = v
        /\ \A v \in Running' : worker'[v].task # 0 /\ worker'[v].buffer # 0
    BY <1>2, <1>10 DEF OnePlace
  <2>4. Queued' \cap InHand' = {} /\ Queued' \cap completed' = {} /\ InHand' \cap completed' = {}
    BY <1>1, <1>2, <1>7, <1>11, <1>12 DEF OnePlace
  <2>5. completed' = {t \in Tasks : held'[t] # 0}
    <3>1. \A t \in Tasks : held'[t] = IF t = k THEN b ELSE held[t]  BY <1>1, <1>2 DEF StoreOK
    <3>2. completed = {t \in Tasks : held[t] # 0}  BY <1>2 DEF OnePlace
    <3>3. b # 0  BY <1>4
    <3> QED  BY <1>1, <1>4, <3>1, <3>2, <3>3
  <2>6. Flying' \subseteq started'  BY <1>1, <1>2, <1>12 DEF OnePlace
  <2> QED  BY <2>1, <2>2, <2>3, <2>4, <2>5, <2>6 DEF OnePlace
<1>14. Limited'  BY <1>1, <1>12 DEF PipelineInv, Limited
<1>15. ThreadOK' /\ Position' /\ active' \in 0 .. Len(plan.tasks)'
  <2>1. count' \in Int  BY <1>1, <1>2 DEF ThreadOK
  <2> QED  BY <1>1, <1>2, <2>1, SameThread DEF PipelineInv
<1>16. Occupied' = Occupied
  <2>1. w \in Occupied /\ w \in Occupied'  BY <1>1, <1>5, <1>6 DEF Occupied
  <2>2. \A v \in Workers : v # w => (v \in Occupied' <=> v \in Occupied)  BY <1>6 DEF Occupied
  <2> QED  BY <2>1, <2>2 DEF Occupied
<1>17. \A v \in Workers : worker'[v].st # "stopped"
  <2>1. \A v \in Workers : worker[v].st # "stopped"  BY <1>1 DEF PipelineInv, Counts
  <2> QED  BY <1>5, <1>6, <2>1
<1>18. Counts'  BY <1>1, <1>16, <1>17 DEF PipelineInv, Counts, Uncounted
<1>19. StoppedWhenIdle'  BY <1>17 DEF StoppedWhenIdle
<1> QED  BY <1>8, <1>13, <1>14, <1>15, <1>18, <1>19, TypeParts DEF PipelineInv

LEMMA StopWorkerInv ==
    ASSUME PipelineInv, NEW w \in Workers, StopWorker(w)
    PROVE  PipelineInv'
<1> DEFINE r == [worker[w] EXCEPT !.st = "stopped"]
<1>1. /\ pc = "stop" /\ ~uncounted /\ count <= 0 /\ worker[w].st = "idle"
      /\ worker' = [worker EXCEPT ![w] = r]
      /\ UNCHANGED <<restorer, pc, i, downloader, queue, uncounted, count, memory>>
  BY DEF StopWorker, Ready
<1>2. ThreadOK /\ StoreOK /\ active \in 0 .. Len(plan.tasks)  BY TypeParts DEF PipelineInv
<1>3. UNCHANGED <<plan, needed, started, completed, held, last, active, pool, buffers>>
  BY <1>1 DEF downloader, restorer, memory
<1>4. r \in WorkerState /\ r.st = "stopped" /\ r.task = worker[w].task /\ r.buffer = worker[w].buffer
  BY <1>2, StateFields, NewSt
<1> HIDE DEF r
<1>5. worker'[w] = r /\ \A v \in Workers : v # w => worker'[v] = worker[v]  BY <1>1, <1>2, OneWorker
<1>6. StoreOK'
  <2>1. Tasks' = Tasks /\ WorkerState' = WorkerState  BY <1>3 DEF Tasks, WorkerState
  <2>2. worker' \in [Workers -> WorkerState]  BY <1>1, <1>2, <1>4 DEF StoreOK
  <2> QED  BY <1>1, <1>2, <1>3, <2>1, <2>2 DEF StoreOK
<1>7. ASSUME NEW v \in Workers
      PROVE  /\ worker'[v].task = worker[v].task /\ worker'[v].buffer = worker[v].buffer
             /\ worker'[v].st \in {"fetch", "send"} <=> worker[v].st \in {"fetch", "send"}
             /\ worker'[v].st = "sent" <=> worker[v].st = "sent"
  BY <1>1, <1>4, <1>5
<1>8. Running' = Running /\ InHand' = InHand /\ Occupied' = Occupied  BY <1>7, SameHands
<1>9. OnePlace' /\ Flying' = Flying  BY <1>1, <1>3, <1>7, <1>8, SameHandsPlaces DEF PipelineInv
<1>10. Limited'
  <2>1. active > Threads /\ pc' \in {"file", "prefetch", "chunk", "stop"} => last \in completed
    BY <1>1 DEF PipelineInv, Limited
  <2> QED  BY <1>3, <1>9, <2>1, SameLimit DEF PipelineInv
<1>11. ThreadOK' /\ Position' /\ active' \in 0 .. Len(plan.tasks)'
  <2>1. count' \in Int  BY <1>1, <1>2 DEF ThreadOK
  <2> QED  BY <1>1, <1>2, <1>3, <2>1, SameThread DEF PipelineInv
<1>12. Counts'
  <2>1. \A v \in Workers : worker'[v].st = "stopped" => pc' \in {"stop", "done", "exited"}  BY <1>1
  <2> QED  BY <1>1, <1>8, <2>1 DEF PipelineInv, Counts, Uncounted
<1>13. queue = <<>> /\ Occupied = {}
  <2>1. Cardinality(Occupied) \in Nat /\ (Cardinality(Occupied) = 0 <=> Occupied = {})
    BY WorkerSets DEF Occupied
  <2>2. Len(queue) \in Nat /\ (Len(queue) = 0 => queue = <<>>) /\ count \in Int
    BY <1>2 DEF StoreOK, ThreadOK
  <2>3. Uncounted = 0  BY <1>1 DEF Uncounted
  <2>4. count + Uncounted = Len(queue) + Cardinality(Occupied)  BY <1>1 DEF PipelineInv, Counts
  <2>5. count <= 0  BY <1>1
  <2>6. Len(queue) = 0 /\ Cardinality(Occupied) = 0  BY <2>1, <2>2, <2>3, <2>4, <2>5
  <2> QED  BY <2>1, <2>2, <2>6
<1>14. ASSUME NEW v \in Workers PROVE worker'[v].st \in {"idle", "stopped"}
  <2>1. worker[v].st \in {"idle", "fetch", "send", "sent", "stopped"}  BY <1>2, StateFields
  <2>2. worker[v].st \in {"idle", "stopped"}  BY <1>13, <2>1 DEF Occupied
  <2> QED  BY <1>4, <1>5, <2>2
<1>15. StoppedWhenIdle'  BY <1>1, <1>13, <1>14 DEF StoppedWhenIdle
<1> QED  BY <1>6, <1>9, <1>10, <1>11, <1>12, <1>15, TypeParts DEF PipelineInv

LEMMA CountTaskInv ==
    ASSUME PipelineInv, CountTask
    PROVE  PipelineInv'
<1>1. /\ Alive /\ uncounted /\ uncounted' = FALSE /\ count' = count + 1
      /\ UNCHANGED <<restorer, pc, i, downloader, queue, worker, memory>>
  BY DEF CountTask
<1>2. ThreadOK /\ StoreOK /\ active \in 0 .. Len(plan.tasks)  BY TypeParts DEF PipelineInv
<1>3. UNCHANGED <<plan, f, found, failed, needed, started, completed, held, last, active>>
  BY <1>1 DEF downloader, restorer
<1>4. OnePlace' /\ Flying' = Flying  BY <1>1, <1>3, SamePlaces DEF PipelineInv
<1>5. StoreOK'  BY <1>1, <1>2, <1>3, SameStore
<1>6. Limited'
  <2>1. active > Threads /\ pc' \in {"file", "prefetch", "chunk", "stop"} => last \in completed
    BY <1>1 DEF PipelineInv, Limited
  <2> QED  BY <1>3, <1>4, <2>1, SameLimit DEF PipelineInv
<1>7. ThreadOK'
  <2>1. count' \in Int  BY <1>1, <1>2 DEF ThreadOK
  <2>2. uncounted' \in BOOLEAN  BY <1>1
  <2> QED  BY <1>1, <1>2, <1>3, <2>1, <2>2 DEF ThreadOK, Tasks
<1>8. Position'  BY <1>1, <1>3 DEF PipelineInv, Position
<1>9. active' \in 0 .. Len(plan.tasks)'  BY <1>2, <1>3
<1>10. Counts'
  <2>1. Occupied' = Occupied  BY <1>1 DEF Occupied
  <2>2. Uncounted = 1 /\ Uncounted' = 0  BY <1>1 DEF Uncounted
  <2>3. count + Uncounted = Len(queue) + Cardinality(Occupied)
    BY <1>1 DEF PipelineInv, Counts, Alive
  <2>4. count \in Int /\ count' = count + 1 /\ queue' = queue  BY <1>1, <1>2 DEF ThreadOK
  <2>5. count' + Uncounted' = count + Uncounted  BY <2>2, <2>4
  <2> QED  BY <1>1, <2>1, <2>3, <2>4, <2>5 DEF PipelineInv, Counts
<1>11. StoppedWhenIdle'  BY <1>1 DEF PipelineInv, StoppedWhenIdle
<1> QED  BY <1>4, <1>5, <1>6, <1>7, <1>8, <1>9, <1>10, <1>11, TypeParts DEF PipelineInv

LEMMA StoppedInv ==
    ASSUME PipelineInv, Stopped
    PROVE  PipelineInv'
<1>1. /\ pc = "stop" /\ ~uncounted /\ pc' = "done" /\ count' = count - 1
      /\ UNCHANGED <<restorer, i, downloader, queue, uncounted, worker, memory>>
  BY DEF Stopped, Ready
<1>2. ThreadOK /\ StoreOK /\ active \in 0 .. Len(plan.tasks)  BY TypeParts DEF PipelineInv
<1>3. UNCHANGED <<plan, f, found, failed, needed, started, completed, held, last, active>>
  BY <1>1 DEF downloader, restorer
<1>4. OnePlace' /\ Flying' = Flying  BY <1>1, <1>3, SamePlaces DEF PipelineInv
<1>5. StoreOK'  BY <1>1, <1>2, <1>3, SameStore
<1>6. Limited'  BY <1>1, <1>3, <1>4, SameLimit DEF PipelineInv
<1>7. ThreadOK'
  <2>1. count' \in Int  BY <1>1, <1>2 DEF ThreadOK
  <2> QED  BY <1>1, <1>2, <1>3, <2>1 DEF ThreadOK, Tasks
<1>8. Position'  BY <1>1 DEF Position
<1>9. active' \in 0 .. Len(plan.tasks)'  BY <1>2, <1>3
<1>10. Counts' /\ StoppedWhenIdle'  BY <1>1 DEF PipelineInv, Counts, StoppedWhenIdle
<1> QED  BY <1>4, <1>5, <1>6, <1>7, <1>8, <1>9, <1>10, TypeParts DEF PipelineInv

LEMMA StutterInv ==
    ASSUME PipelineInv, UNCHANGED vars
    PROVE  PipelineInv'
<1>1. /\ UNCHANGED <<plan, f, found, failed, pc, i, downloader, queue, uncounted, count, worker, memory>>
      /\ UNCHANGED <<last, needed, started>>
  BY DEF vars, restorer, downloader
<1>2. ThreadOK'
  <2>1. ThreadOK  BY TypeParts DEF PipelineInv
  <2> QED  BY <1>1, <2>1 DEF ThreadOK, Tasks
<1>3. Position'  BY <1>1 DEF PipelineInv, Position
<1>4. active > Threads /\ pc' \in {"file", "prefetch", "chunk", "stop"} => last \in completed
  BY <1>1 DEF PipelineInv, Limited
<1>5. pc' \in {"stop", "done"} => ~uncounted  BY <1>1 DEF PipelineInv, Counts
<1> QED  BY <1>1, <1>2, <1>3, <1>4, <1>5, ThreadStep

-----------------------------------------------------------------------------
LEMMA PipelineInit == Init => PipelineInv
<1> SUFFICES ASSUME Init PROVE PipelineInv  OBVIOUS
<1>1. /\ plan \in Restores /\ pc = "file" /\ f = 1 /\ i = 0 /\ found = {} /\ failed = FALSE
      /\ needed = plan.needed /\ started = {} /\ completed = {}
      /\ held = [k \in Tasks |-> 0] /\ last = 0 /\ active = 0
      /\ queue = <<>> /\ uncounted = FALSE /\ count = 0
      /\ worker = [w \in Workers |-> Idle] /\ pool = <<>> /\ buffers = <<>>
  BY DEF Init
<1>2. /\ Len(plan.files) \in Nat /\ Len(plan.tasks) \in Nat /\ plan.needed \subseteq Tasks
      /\ Threads \in Nat
  BY <1>1, PlanShape, Constants
<1>3. ThreadOK
  <2>1. f \in 1 .. Len(plan.files) + 1 /\ i \in 0 .. Len(plan.tasks) + 1 /\ last \in 0 .. Len(plan.tasks)
        /\ count \in Int
    BY <1>1, <1>2
  <2>2. failed \in BOOLEAN /\ uncounted \in BOOLEAN  BY <1>1
  <2> QED  BY <1>1, <1>2, <2>1, <2>2 DEF ThreadOK
<1>4. Len(buffers) = 0 /\ 0 \in 0 .. Len(buffers)  BY <1>1
<1>5. StoreOK
  <2>1. Idle \in WorkerState  BY <1>4 DEF Idle, WorkerState
  <2>2. worker \in [Workers -> WorkerState]  BY <1>1, <2>1
  <2>3. held \in [Tasks -> 0 .. Len(buffers)]  BY <1>1, <1>4
  <2>4. queue \in Seq(Tasks) /\ pool \in Seq(Nat) /\ buffers \in Seq(Buffer)  BY <1>1, EmptySeq
  <2>5. Len(queue) <= Threads /\ Len(pool) = Len(buffers)  BY <1>1, <1>2
  <2> QED  BY <1>1, <2>2, <2>3, <2>4, <2>5 DEF StoreOK
<1>6. Running = {} /\ InHand = {} /\ Occupied = {} /\ Queued = {} /\ Flying = {}
  <2>1. \A w \in Workers : worker[w].st = "idle"  BY <1>1 DEF Idle
  <2>2. Running = {} /\ Occupied = {}  BY <2>1 DEF Running, Occupied
  <2>3. Queued = {}  BY <1>1 DEF Queued
  <2> QED  BY <1>1, <2>2, <2>3 DEF InHand, Flying
<1>7. OnePlace  BY <1>1, <1>6 DEF OnePlace
<1>8. Position
  <2>1. ASSUME f <= Len(plan.files) PROVE last <= plan.files[f].start
    BY <1>1, <1>3, <2>1, ThisFile
  <2> QED  BY <1>1, <2>1 DEF Position
<1>9. Limited
  <2>1. Cardinality(Flying) = 0 /\ active <= Threads /\ ~(active > Threads)
    BY <1>1, <1>2, <1>6, FS_EmptySet
  <2> QED  BY <1>1, <2>1 DEF Limited
<1>10. \A w \in Workers : worker[w].st # "stopped"  BY <1>1 DEF Idle
<1>11. Counts
  <2>1. Cardinality(Occupied) = 0  BY <1>6, FS_EmptySet
  <2>2. Uncounted = 0  BY <1>1 DEF Uncounted
  <2>3. count + Uncounted = Len(queue) + Cardinality(Occupied)  BY <1>1, <2>1, <2>2
  <2> QED  BY <1>1, <1>10, <2>3 DEF Counts
<1>12. StoppedWhenIdle  BY <1>10 DEF StoppedWhenIdle
<1>13. active \in 0 .. Len(plan.tasks)  BY <1>1, <1>2
<1> QED  BY <1>3, <1>5, <1>7, <1>8, <1>9, <1>11, <1>12, <1>13, TypeParts DEF PipelineInv

LEMMA PipelineStep ==
    ASSUME PipelineInv, [Next]_vars
    PROVE  PipelineInv'
<1>1. CASE RestorerNext
  BY <1>1, CountTaskInv, SkipFileInv, RefuseFileInv, StartFileInv, PrefetchInv, UseLocalCopyInv,
     WaitForChunkInv, LookAheadInv, UseChunkInv, FinishFileInv, FinishRestoreInv, StoppedInv,
     ReceiveInv, StopWorkerInv DEF RestorerNext
<1>2. ASSUME NEW w \in Workers, WorkerNext(w) PROVE PipelineInv'
  BY <1>2, TakeTaskInv, FetchChunkInv, FailChunkInv, FinishTaskInv DEF WorkerNext
<1>3. CASE Terminating  BY <1>3, StutterInv DEF Terminating
<1>4. CASE UNCHANGED vars  BY <1>4, StutterInv
<1> QED  BY <1>1, <1>2, <1>3, <1>4 DEF Next

(* The invariant of the pipeline, with or without failures. *)
THEOREM PipelineInvariant == Spec => []PipelineInv
  BY PipelineInit, PipelineStep, PTL DEF Spec

(* Type correctness. *)
THEOREM TypeCorrect == Spec => []TypeOK
<1>1. PipelineInv => TypeOK  BY DEF PipelineInv
<1> QED  BY <1>1, PipelineInvariant, PTL

(* Stop leaves nothing queued or running, for any number of threads. *)
THEOREM StopsWhenIdle == Spec => []StoppedWhenIdle
<1>1. PipelineInv => StoppedWhenIdle  BY DEF PipelineInv
<1> QED  BY <1>1, PipelineInvariant, PTL

(* numberOfActiveChunks counts the tasks that are in one of the places. *)
LEMMA ActiveAreFlying ==
    ASSUME PipelineInv
    PROVE  ActiveChunks
<1> DEFINE A == {k \in started :
                \/ \E n \in DOMAIN queue : queue[n] = k
                \/ \E w \in Workers : worker[w].st \in {"fetch", "send"} /\ worker[w].task = k
                \/ held[k] # 0}
<1>1. /\ Flying \subseteq started /\ completed = {k \in Tasks : held[k] # 0}
      /\ started \subseteq Tasks
  BY TypeParts DEF PipelineInv, OnePlace, ThreadOK
<1>2. Flying \subseteq A
  <2> SUFFICES ASSUME NEW k \in Flying PROVE k \in A  OBVIOUS
  <2>1. k \in started /\ (k \in Queued \/ k \in InHand \/ k \in completed)  BY <1>1 DEF Flying
  <2> QED  BY <1>1, <2>1 DEF Queued, InHand, Running
<1>3. A \subseteq Flying
  <2> SUFFICES ASSUME NEW k \in A PROVE k \in Flying  OBVIOUS
  <2>1. k \in Tasks  BY <1>1
  <2>2. CASE \E n \in DOMAIN queue : queue[n] = k  BY <2>2 DEF Flying, Queued
  <2>3. CASE \E w \in Workers : worker[w].st \in {"fetch", "send"} /\ worker[w].task = k
    BY <2>3 DEF Flying, InHand, Running
  <2>4. CASE held[k] # 0  BY <1>1, <2>1, <2>4 DEF Flying
  <2> QED  BY <2>2, <2>3, <2>4
<1>4. A = Flying  BY <1>2, <1>3
<1>5. active = Cardinality(A)  BY <1>4 DEF PipelineInv, Limited
<1> QED  BY <1>5 DEF ActiveChunks

(* With a full queue and every worker waiting to send, Threads + 1 tasks   *)
(* at least are not completed.                                             *)
LEMMA FullQueue ==
    ASSUME PipelineInv, Len(queue) = Threads, NEW w \in Workers, worker[w].st = "send",
           NEW R \in SUBSET completed
    PROVE  Threads + 1 <= active - Cardinality(R) /\ Cardinality(R) \in Nat
<1> DEFINE k == worker[w].task
           W == Queued \cup {k}
<1>1. ThreadOK /\ StoreOK /\ OnePlace  BY TypeParts DEF PipelineInv
<1>2. w \in Running /\ k \in Tasks  BY WorkInHand
<1>3. k \in InHand  BY <1>2 DEF InHand
<1>4. /\ k \notin Queued /\ W \cap completed = {} /\ W \subseteq Flying /\ Flying \subseteq started
  BY <1>1, <1>3 DEF OnePlace, Flying
<1> HIDE DEF k
<1>5. Queued = Elements(queue) /\ Distinct(queue) /\ queue \in Seq(Tasks)
  BY <1>1 DEF Queued, Elements, Distinct, OnePlace, StoreOK
<1>6. IsFiniteSet(Queued) /\ Cardinality(Queued) = Threads  BY <1>5, CountElements
<1>7. Cardinality(W) = Threads + 1  BY <1>4, <1>6, FS_AddElement
<1>8. W \subseteq Flying \ R  BY <1>4
<1> HIDE DEF W
<1>9. plan \in Restores /\ Flying \ R \in SUBSET Tasks  BY <1>1, <1>4 DEF ThreadOK
<1>10. IsFiniteSet(Flying \ R)  BY <1>9, TaskSets
<1>11. Cardinality(W) <= Cardinality(Flying \ R)  BY <1>8, <1>10, FS_Subset
<1>12. /\ Cardinality(Flying \ R) = Cardinality(Flying) - Cardinality(R)
       /\ Cardinality(R) \in Nat
  BY <1>1, FlyingCount
<1>13. active = Cardinality(Flying)  BY DEF PipelineInv, Limited
<1> QED  BY <1>7, <1>11, <1>12, <1>13

LEMMA QueueNeverStuck ==
    ASSUME PipelineInv
    PROVE  QueueDrains
<1> SUFFICES ASSUME Alive, pc # "receive", pc = "ahead" => active < Threads, Len(queue) = Threads,
                    \A w \in Workers : worker[w].st = "send"
             PROVE  FALSE
  BY DEF QueueDrains
<1>1. Threads \in Nat \ {0} /\ 1 \in Workers  BY Constants DEF Workers
<1>2. worker[1].st = "send"  BY <1>1
<1>3. active \in Nat
  <2>1. active \in 0 .. Len(plan.tasks)  BY TypeParts DEF PipelineInv
  <2> QED  BY <2>1
<1>4. Threads + 1 <= active
  <2>1. {} \in SUBSET completed  OBVIOUS
  <2>2. Threads + 1 <= active - Cardinality({})  BY <1>1, <1>2, <2>1, FullQueue
  <2>3. Cardinality({}) = 0  BY FS_EmptySet
  <2> QED  BY <1>3, <2>2, <2>3
<1>5. active > Threads /\ ~(active < Threads)  BY <1>1, <1>3, <1>4
<1>6. pc \in {"file", "prefetch", "chunk", "stop"}
  <2>1. pc \in {"file", "prefetch", "chunk", "ahead", "receive", "stop", "done", "exited"}
    BY TypeParts DEF PipelineInv, ThreadOK
  <2> QED  BY <1>5, <2>1 DEF Alive
<1>7. last \in completed /\ (active <= Threads \/ active = Threads + 1)
  BY <1>5, <1>6 DEF PipelineInv, Limited
<1>8. Threads + 1 <= active - Cardinality({last})  BY <1>1, <1>2, <1>7, FullQueue
<1>9. Cardinality({last}) = 1  BY FS_Singleton
<1> QED  BY <1>1, <1>3, <1>7, <1>8, <1>9

(* numberOfActiveChunks is what its comment says. *)
THEOREM ActiveChunksCounted == Spec => []ActiveChunks
  BY PipelineInvariant, ActiveAreFlying, PTL

(* AddTask never waits for workers that wait for the thread, for any       *)
(* number of threads.                                                      *)
THEOREM QueueAlwaysDrains == Spec => []QueueDrains
  BY PipelineInvariant, QueueNeverStuck, PTL

-----------------------------------------------------------------------------
(* Who owns a chunk buffer during a restore, and what it holds, when no    *)
(* download may fail (without -persist).  With -persist a failed download  *)
(* leaves its buffer both with the task and in the pool, so neither holds. *)

(* The buffers in use exist. *)
LEMMA BufferFacts ==
    ASSUME PipelineInv
    PROVE  /\ Len(buffers) \in Nat /\ DOMAIN pool = 1 .. Len(buffers)
           /\ DOMAIN buffers = 1 .. Len(buffers)
           /\ \A b \in 1 .. Len(buffers) : pool[b] \in Nat
           /\ completed \subseteq Tasks /\ DOMAIN held = Tasks
           /\ \A k \in Tasks : k \in completed <=> held[k] # 0
           /\ \A k \in completed : held[k] \in 1 .. Len(buffers)
           /\ \A w \in Running : w \in Workers /\ worker[w].buffer \in 1 .. Len(buffers)
           /\ StoreOK /\ OnePlace /\ plan \in Restores
<1>1. StoreOK /\ OnePlace /\ plan \in Restores  BY TypeParts DEF PipelineInv, ThreadOK
<1>2. Len(buffers) \in Nat /\ Len(pool) = Len(buffers) /\ pool \in Seq(Nat) /\ buffers \in Seq(Buffer)
  BY <1>1 DEF StoreOK
<1>3. /\ DOMAIN pool = 1 .. Len(buffers) /\ DOMAIN buffers = 1 .. Len(buffers)
      /\ \A b \in 1 .. Len(buffers) : pool[b] \in Nat
  BY <1>2
<1>4. completed = {k \in Tasks : held[k] # 0} /\ held \in [Tasks -> 0 .. Len(buffers)]
  BY <1>1 DEF StoreOK, OnePlace
<1>5. \A k \in completed : held[k] \in 1 .. Len(buffers)  BY <1>2, <1>4
<1>6. ASSUME NEW w \in Running PROVE w \in Workers /\ worker[w].buffer \in 1 .. Len(buffers)
  BY WorkInHand DEF Running
<1> QED  BY <1>1, <1>2, <1>3, <1>4, <1>5, <1>6

(* Most steps leave the buffers and their owners alone. *)
LEMMA BufferQuiet ==
    ASSUME BufferInv, UNCHANGED <<plan, completed, held, worker, pool, buffers>>
    PROVE  BufferInv'
  BY DEF BufferInv, Owned, Filled, Running

(* Buffers of completed tasks go back to the pool. *)
LEMMA BufferReclaim ==
    ASSUME PipelineInv, BufferInv, NEW R \in SUBSET completed, completed' = completed \ R,
           held' = [t \in Tasks |-> IF t \in R THEN 0 ELSE held[t]],
           pool' = PutChunks(R), UNCHANGED <<plan, worker, buffers>>
    PROVE  BufferInv'
<1>1. Running' = Running /\ \A w \in Workers : ~worker'[w].broken  BY DEF Running, BufferInv
<1>2. \A k \in completed' : k \in completed /\ k \notin R /\ held'[k] = held[k]  BY BufferFacts
<1>3. /\ DOMAIN pool' = 1 .. Len(buffers)
      /\ \A b \in 1 .. Len(buffers) : pool'[b] = pool[b] + Cardinality({k \in R : held[k] = b})
  BY BufferFacts DEF PutChunks
<1>4. ASSUME NEW b \in 1 .. Len(buffers), \A k \in R : held[k] # b
      PROVE  pool'[b] = pool[b]
  <2>1. {k \in R : held[k] = b} = {}  BY <1>4
  <2>2. Cardinality({k \in R : held[k] = b}) = 0  BY <2>1, FS_EmptySet
  <2>3. pool[b] \in Nat  BY BufferFacts
  <2> QED  BY <1>3, <2>2, <2>3
<1>5. ASSUME NEW k \in R
      PROVE  pool'[held[k]] = 1
  <2>1. k \in completed /\ held[k] \in 1 .. Len(buffers)  BY BufferFacts
  <2>2. pool[held[k]] = 0 /\ \A l \in completed : held[l] = held[k] => l = k
    BY <2>1 DEF BufferInv, Owned
  <2>3. {l \in R : held[l] = held[k]} = {k}  BY <2>2
  <2>4. Cardinality({l \in R : held[l] = held[k]}) = 1  BY <2>3, FS_Singleton
  <2> QED  BY <1>3, <2>1, <2>2, <2>4
<1>6. Owned'
  <2>1. ASSUME NEW b \in DOMAIN pool' PROVE pool'[b] <= 1
    <3>1. b \in 1 .. Len(buffers) /\ b \in DOMAIN pool  BY <1>3, BufferFacts
    <3>2. pool[b] <= 1  BY <3>1 DEF BufferInv, Owned
    <3>3. CASE \A k \in R : held[k] # b  BY <1>4, <3>1, <3>2, <3>3
    <3>4. CASE \E k \in R : held[k] = b  BY <1>5, <3>4
    <3> QED  BY <3>3, <3>4
  <2>2. ASSUME NEW k \in completed' PROVE pool'[held'[k]] = 0
    <3>1. k \in completed /\ k \notin R /\ held'[k] = held[k] /\ held[k] \in 1 .. Len(buffers)
      BY <1>2, BufferFacts
    <3>2. pool[held[k]] = 0 /\ \A l \in R : held[l] # held[k]  BY <3>1 DEF BufferInv, Owned
    <3> QED  BY <1>4, <3>1, <3>2
  <2>3. \A k, l \in completed' : held'[k] = held'[l] => k = l  BY <1>2 DEF BufferInv, Owned
  <2>4. ASSUME NEW w \in Running' PROVE pool'[worker'[w].buffer] = 0
    <3>1. w \in Running /\ worker[w].buffer \in 1 .. Len(buffers)  BY <1>1, BufferFacts
    <3>2. pool[worker[w].buffer] = 0 /\ \A l \in R : held[l] # worker[w].buffer
      BY <3>1 DEF BufferInv, Owned
    <3> QED  BY <1>4, <3>1, <3>2
  <2>5. \A v, w \in Running' : worker'[v].buffer = worker'[w].buffer => v = w
    BY <1>1 DEF BufferInv, Owned
  <2>6. \A w \in Running' : \A k \in completed' : worker'[w].buffer # held'[k]
    BY <1>1, <1>2 DEF BufferInv, Owned
  <2> QED  BY <2>1, <2>2, <2>3, <2>4, <2>5, <2>6 DEF Owned
<1>7. Filled'  BY <1>1, <1>2 DEF BufferInv, Filled
<1> QED  BY <1>1, <1>6, <1>7 DEF BufferInv

LEMMA ReclaimBuffers ==
    ASSUME PipelineInv, BufferInv, NEW k, NEW n, Reclaim(k, n), UNCHANGED <<plan, worker, buffers>>
    PROVE  BufferInv'
<1>1. Reclaimable(k) \in SUBSET completed  BY DEF Reclaimable
<1> QED  BY <1>1, BufferReclaim DEF Reclaim

(* A worker gets a buffer that nobody has. *)
LEMMA TakeTaskBuffers ==
    ASSUME PipelineInv, BufferInv, NEW w \in Workers, TakeTask(w)
    PROVE  BufferInv'
<1> DEFINE n == Len(buffers)
<1>1. /\ worker[w].st = "idle" /\ UNCHANGED <<plan, completed, held>>
  BY DEF TakeTask, restorer, downloader
<1>2. PICK b \in 1 .. n + 1 :
         /\ GetChunk(b)
         /\ worker' = [worker EXCEPT ![w] = [st |-> "fetch", task |-> Head(queue), buffer |-> b,
                                             broken |-> FALSE]]
  BY DEF TakeTask
<1>3. /\ worker'[w] = [st |-> "fetch", task |-> Head(queue), buffer |-> b, broken |-> FALSE]
      /\ \A v \in Workers : v # w => worker'[v] = worker[v]
  BY <1>2, OneWorker, BufferFacts
<1>4. worker'[w].buffer = b /\ worker'[w].st = "fetch" /\ worker'[w].broken = FALSE  BY <1>3
<1>5. /\ pool' \in Seq(Nat) /\ Len(pool') = Len(buffers') /\ n \in Nat /\ Len(buffers') \in Nat
      /\ \A c \in 1 .. n : c # b => pool'[c] = pool[c] /\ buffers'[c] = buffers[c]
      /\ \/ b = n + 1 /\ pool'[b] = 0 /\ Len(buffers') = n + 1
         \/ b \in 1 .. n /\ pool[b] > 0 /\ pool'[b] = pool[b] - 1 /\ Len(buffers') = n
  BY <1>2, GetChunkStore, BufferFacts
<1>6. Running' = Running \cup {w} /\ \A v \in Running : v # w
  <2>1. w \notin Running /\ w \in Running'  BY <1>1, <1>4 DEF Running
  <2>2. \A v \in Workers : v # w => (v \in Running' <=> v \in Running)  BY <1>3 DEF Running
  <2> QED  BY <2>1, <2>2 DEF Running
<1>7. \A v \in Running : worker'[v] = worker[v]  BY <1>3, <1>6, BufferFacts
<1>8. /\ b \in 1 .. n => pool[b] = 1 /\ pool'[b] = 0
      /\ \A k \in completed : held[k] \in 1 .. n /\ held[k] # b
      /\ \A v \in Running : worker[v].buffer \in 1 .. n /\ worker[v].buffer # b
      /\ pool'[b] = 0
  <2>1. CASE b = n + 1
    <3>1. \A x \in 1 .. n : x # b  BY <1>5, <2>1
    <3>2. pool'[b] = 0  BY <1>5, <2>1
    <3> QED  BY <3>1, <3>2, BufferFacts
  <2>2. CASE b \in 1 .. n
    <3>1. pool[b] \in Nat /\ pool[b] <= 1  BY <2>2, BufferFacts DEF BufferInv, Owned
    <3>2. pool[b] > 0 /\ pool'[b] = pool[b] - 1  BY <1>5, <2>2
    <3>3. pool[b] = 1 /\ pool'[b] = 0  BY <3>1, <3>2
    <3>4. \A k \in completed : held[k] \in 1 .. n /\ pool[held[k]] = 0
      BY BufferFacts DEF BufferInv, Owned
    <3>5. \A v \in Running : worker[v].buffer \in 1 .. n /\ pool[worker[v].buffer] = 0
      BY BufferFacts DEF BufferInv, Owned
    <3> QED  BY <3>3, <3>4, <3>5
  <2> QED  BY <1>5, <2>1, <2>2
<1>9. Owned'
  <2>1. ASSUME NEW c \in DOMAIN pool' PROVE pool'[c] <= 1
    <3>1. c \in 1 .. Len(buffers')  BY <1>5
    <3>2. c \in 1 .. n \/ c = b  BY <1>5, <3>1
    <3>3. c \in 1 .. n => pool[c] <= 1  BY BufferFacts DEF BufferInv, Owned
    <3> QED  BY <1>5, <1>8, <3>2, <3>3
  <2>2. \A k \in completed' : pool'[held'[k]] = 0  BY <1>1, <1>5, <1>8 DEF BufferInv, Owned
  <2>3. \A k, l \in completed' : held'[k] = held'[l] => k = l  BY <1>1 DEF BufferInv, Owned
  <2>4. \A v \in Running' : pool'[worker'[v].buffer] = 0
    <3>1. \A v \in Running : pool[worker[v].buffer] = 0  BY DEF BufferInv, Owned
    <3> QED  BY <1>4, <1>5, <1>6, <1>7, <1>8, <3>1, SMTT(60)
  <2>5. \A u, v \in Running' : worker'[u].buffer = worker'[v].buffer => u = v
    <3>1. \A u, v \in Running : worker[u].buffer = worker[v].buffer => u = v
      BY DEF BufferInv, Owned
    <3> QED  BY <1>4, <1>6, <1>7, <1>8, <3>1
  <2>6. \A v \in Running' : \A k \in completed' : worker'[v].buffer # held'[k]
    <3>1. \A v \in Running : \A k \in completed : worker[v].buffer # held[k]
      BY DEF BufferInv, Owned
    <3> QED  BY <1>1, <1>4, <1>6, <1>7, <1>8, <3>1
  <2> QED  BY <2>1, <2>2, <2>3, <2>4, <2>5, <2>6 DEF Owned
<1>10. Filled'
  <2>1. \A k \in completed' : buffers'[held'[k]].hash = plan'.tasks[k]
    BY <1>1, <1>5, <1>8 DEF BufferInv, Filled
  <2>2. ASSUME NEW v \in Running', worker'[v].st = "send"
        PROVE  buffers'[worker'[v].buffer].hash = plan'.tasks[worker'[v].task]
    <3>1. v \in Running /\ worker'[v] = worker[v]  BY <1>4, <1>6, <1>7, <2>2
    <3>2. buffers[worker[v].buffer].hash = plan.tasks[worker[v].task]
      BY <2>2, <3>1 DEF BufferInv, Filled
    <3>3. buffers'[worker[v].buffer] = buffers[worker[v].buffer]  BY <1>5, <1>8, <3>1
    <3> QED  BY <1>1, <3>1, <3>2, <3>3
  <2> QED  BY <2>1, <2>2 DEF Filled
<1>11. \A v \in Workers : ~worker'[v].broken  BY <1>3, <1>4 DEF BufferInv
<1> QED  BY <1>9, <1>10, <1>11 DEF BufferInv

(* The worker writes into its own buffer. *)
LEMMA FetchChunkBuffers ==
    ASSUME PipelineInv, BufferInv, NEW w \in Workers, FetchChunk(w)
    PROVE  BufferInv'
<1> DEFINE b == worker[w].buffer
           k == worker[w].task
           e == [buffers[b] EXCEPT !.hash = plan.tasks[k]]
           r == [worker[w] EXCEPT !.st = "send"]
<1>1. /\ worker[w].st = "fetch" /\ worker' = [worker EXCEPT ![w] = r]
      /\ buffers' = [buffers EXCEPT ![b] = e]
      /\ UNCHANGED <<plan, completed, held, pool>>
  BY DEF FetchChunk, restorer, downloader
<1>2. /\ worker[w] \in WorkerState /\ b \in 1 .. Len(buffers) /\ plan.tasks[k] \in Nat
      /\ w \in Running
  BY <1>1, WorkInHand, StateFields
<1>3. e \in Buffer /\ e.hash = plan.tasks[k]
  <2>1. buffers \in Seq(Buffer)  BY BufferFacts DEF StoreOK
  <2>2. buffers[b] \in Buffer  BY <1>2, <2>1, ElementOfSeq
  <2> QED  BY <1>2, <2>2 DEF Buffer
<1>4. r \in WorkerState /\ r.st = "send" /\ r.task = k /\ r.buffer = b /\ r.broken = worker[w].broken
  BY <1>2, NewSt
<1>5. worker'[w] = r /\ \A v \in Workers : v # w => worker'[v] = worker[v]
  BY <1>1, OneWorker, BufferFacts
<1> HIDE DEF e, r
<1>6. buffers'[b] = e /\ \A c \in 1 .. Len(buffers) : c # b => buffers'[c] = buffers[c]
  BY <1>1, <1>2, <1>3, OneBuffer, BufferFacts
<1>7. ASSUME NEW v \in Workers
      PROVE  /\ worker'[v].buffer = worker[v].buffer /\ worker'[v].task = worker[v].task
             /\ worker'[v].broken = worker[v].broken
             /\ v \in Running' <=> v \in Running
  BY <1>1, <1>4, <1>5 DEF Running
<1>8. Running' = Running  BY <1>7 DEF Running
<1>9. Owned'
  <2>1. \A v \in Running : worker'[v].buffer = worker[v].buffer  BY <1>7, BufferFacts
  <2> QED  BY <1>1, <1>8, <2>1 DEF BufferInv, Owned
<1>10. Filled'
  <2>1. ASSUME NEW t \in completed' PROVE buffers'[held'[t]].hash = plan'.tasks[t]
    <3>1. t \in completed /\ held[t] # b /\ held[t] \in 1 .. Len(buffers)
      BY <1>1, <1>2, BufferFacts DEF BufferInv, Owned
    <3>2. buffers[held[t]].hash = plan.tasks[t]  BY <3>1 DEF BufferInv, Filled
    <3> QED  BY <1>1, <1>6, <3>1, <3>2
  <2>2. ASSUME NEW v \in Running', worker'[v].st = "send"
        PROVE  buffers'[worker'[v].buffer].hash = plan'.tasks[worker'[v].task]
    <3>1. CASE v = w  BY <1>1, <1>3, <1>4, <1>5, <1>6, <3>1
    <3>2. CASE v # w
      <4>1. v \in Running /\ v \in Workers /\ worker[v].buffer \in 1 .. Len(buffers)
        BY <1>8, BufferFacts
      <4>2. worker'[v] = worker[v]  BY <1>5, <3>2, <4>1
      <4>3. worker[v].buffer # b  BY <1>2, <3>2, <4>1 DEF BufferInv, Owned
      <4>4. buffers[worker[v].buffer].hash = plan.tasks[worker[v].task]
        BY <2>2, <4>1, <4>2 DEF BufferInv, Filled
      <4> QED  BY <1>1, <1>6, <4>1, <4>2, <4>3, <4>4
    <3> QED  BY <3>1, <3>2
  <2> QED  BY <2>1, <2>2 DEF Filled
<1>11. \A v \in Workers : ~worker'[v].broken  BY <1>7 DEF BufferInv
<1> QED  BY <1>9, <1>10, <1>11 DEF BufferInv

(* A worker changes its state and neither had nor has a buffer. *)
LEMMA IdleBuffers ==
    ASSUME PipelineInv, BufferInv, NEW w \in Workers, NEW r, worker' = [worker EXCEPT ![w] = r],
           worker[w].st \notin {"fetch", "send"}, r.st \notin {"fetch", "send"}, ~r.broken,
           UNCHANGED <<plan, completed, held, pool, buffers>>
    PROVE  BufferInv'
<1>1. worker'[w] = r /\ \A v \in Workers : v # w => worker'[v] = worker[v]
  BY OneWorker, BufferFacts
<1>2. Running' = Running /\ w \notin Running
  <2>1. w \notin Running /\ w \notin Running'  BY <1>1 DEF Running
  <2>2. \A v \in Workers : v # w => (v \in Running' <=> v \in Running)  BY <1>1 DEF Running
  <2> QED  BY <2>1, <2>2 DEF Running
<1>3. \A v \in Running : worker'[v] = worker[v]  BY <1>1, <1>2, BufferFacts
<1>4. Owned' /\ Filled'  BY <1>2, <1>3 DEF BufferInv, Owned, Filled
<1>5. \A v \in Workers : ~worker'[v].broken  BY <1>1 DEF BufferInv
<1> QED  BY <1>4, <1>5 DEF BufferInv

(* The buffer of a completed task passes from the worker to the thread. *)
LEMMA ReceiveBuffers ==
    ASSUME PipelineInv, BufferInv, NEW w \in Workers, Receive(w)
    PROVE  BufferInv'
<1> DEFINE k == worker[w].task
           b == worker[w].buffer
           r == [worker[w] EXCEPT !.st = "sent"]
<1>1. /\ worker[w].st = "send"
      /\ completed' = completed \cup {k} /\ held' = [held EXCEPT ![k] = b]
      /\ worker' = [worker EXCEPT ![w] = r]
      /\ UNCHANGED <<plan, pool, buffers>>
  BY DEF Receive, restorer, memory
<1>2. w \in Running /\ k \in Tasks /\ worker[w] \in WorkerState
  BY <1>1, WorkInHand, StateFields
<1>3. r.st = "sent" /\ r.broken = worker[w].broken  BY <1>2, NewSt
<1> HIDE DEF r
<1>4. worker'[w] = r /\ \A v \in Workers : v # w => worker'[v] = worker[v]
  BY <1>1, OneWorker, BufferFacts
<1>5. k \notin completed
  <2>1. k \in InHand  BY <1>2 DEF InHand
  <2> QED  BY <2>1, BufferFacts DEF OnePlace
<1>6. \A v \in Running' : v \in Running /\ v # w /\ worker'[v] = worker[v]
  <2>1. w \notin Running'  BY <1>3, <1>4 DEF Running
  <2> QED  BY <1>4, <2>1 DEF Running
<1>7. held'[k] = b /\ \A t \in completed : t # k /\ held'[t] = held[t]
  BY <1>1, <1>2, <1>5, BufferFacts
<1>8. /\ pool[b] = 0 /\ \A t \in completed : held[t] # b
      /\ \A v \in Running : v # w => worker[v].buffer # b
      /\ buffers[b].hash = plan.tasks[k]
  BY <1>1, <1>2 DEF BufferInv, Owned, Filled
<1> HIDE DEF k, b
<1>9. Owned'
  <2>1. \A c \in DOMAIN pool' : pool'[c] <= 1  BY <1>1 DEF BufferInv, Owned
  <2>2. \A t \in completed' : pool'[held'[t]] = 0  BY <1>1, <1>7, <1>8 DEF BufferInv, Owned
  <2>3. \A t, l \in completed' : held'[t] = held'[l] => t = l
    <3>1. \A t, l \in completed : held[t] = held[l] => t = l  BY DEF BufferInv, Owned
    <3> QED  BY <1>1, <1>7, <1>8, <3>1
  <2>4. \A v \in Running' : pool'[worker'[v].buffer] = 0  BY <1>1, <1>6 DEF BufferInv, Owned
  <2>5. \A u, v \in Running' : worker'[u].buffer = worker'[v].buffer => u = v
    BY <1>6 DEF BufferInv, Owned
  <2>6. \A v \in Running' : \A t \in completed' : worker'[v].buffer # held'[t]
    <3>1. \A v \in Running : \A t \in completed : worker[v].buffer # held[t]
      BY DEF BufferInv, Owned
    <3> QED  BY <1>1, <1>6, <1>7, <1>8, <3>1
  <2> QED  BY <2>1, <2>2, <2>3, <2>4, <2>5, <2>6 DEF Owned
<1>10. Filled'
  <2>1. \A t \in completed' : buffers'[held'[t]].hash = plan'.tasks[t]
    <3>1. \A t \in completed : buffers[held[t]].hash = plan.tasks[t]  BY DEF BufferInv, Filled
    <3> QED  BY <1>1, <1>7, <1>8, <3>1
  <2>2. \A v \in Running' : worker'[v].st = "send" =>
           buffers'[worker'[v].buffer].hash = plan'.tasks[worker'[v].task]
    BY <1>1, <1>6 DEF BufferInv, Filled
  <2> QED  BY <2>1, <2>2 DEF Filled
<1>11. \A v \in Workers : ~worker'[v].broken  BY <1>3, <1>4 DEF BufferInv
<1> QED  BY <1>9, <1>10, <1>11 DEF BufferInv

LEMMA FinishTaskBuffers ==
    ASSUME PipelineInv, BufferInv, NEW w \in Workers, FinishTask(w)
    PROVE  BufferInv'
<1>1. ~worker[w].broken  BY DEF BufferInv
<1>2. /\ worker[w].st = "sent" /\ pool' = pool /\ worker' = [worker EXCEPT ![w] = Idle]
      /\ UNCHANGED <<plan, completed, held, buffers>>
  BY <1>1 DEF FinishTask, restorer, downloader
<1>3. Idle.st = "idle" /\ ~Idle.broken  BY DEF Idle
<1> QED  BY <1>2, <1>3, IdleBuffers

LEMMA StopWorkerBuffers ==
    ASSUME PipelineInv, BufferInv, NEW w \in Workers, StopWorker(w)
    PROVE  BufferInv'
<1> DEFINE r == [worker[w] EXCEPT !.st = "stopped"]
<1>1. /\ worker[w].st = "idle" /\ worker' = [worker EXCEPT ![w] = r]
      /\ UNCHANGED <<plan, completed, held, pool, buffers>>
  BY DEF StopWorker, restorer, downloader, memory
<1>2. r.st = "stopped" /\ r.broken = worker[w].broken  BY StateFields, BufferFacts, NewSt
<1>3. ~r.broken  BY <1>2 DEF BufferInv
<1> HIDE DEF r
<1> QED  BY <1>1, <1>2, <1>3, IdleBuffers

-----------------------------------------------------------------------------
LEMMA BufferInit == Init => BufferInv
<1> SUFFICES ASSUME Init PROVE BufferInv  OBVIOUS
<1>1. completed = {} /\ worker = [w \in Workers |-> Idle] /\ pool = <<>>  BY DEF Init
<1>2. \A w \in Workers : worker[w].st = "idle" /\ ~worker[w].broken  BY <1>1 DEF Idle
<1>3. Running = {} /\ DOMAIN pool = {}  BY <1>1, <1>2 DEF Running
<1> QED  BY <1>1, <1>2, <1>3 DEF BufferInv, Owned, Filled

LEMMA BufferStep ==
    ASSUME AllowFailures = FALSE, PipelineInv, BufferInv, [Next]_vars
    PROVE  BufferInv'
<1>1. CASE CountTask \/ SkipFile \/ RefuseFile \/ Prefetch \/ UseLocalCopy \/ LookAhead \/ UseChunk
           \/ FinishFile \/ FinishRestore \/ Stopped \/ Terminating \/ UNCHANGED vars
  <2>1. UNCHANGED <<plan, completed, held, worker, pool, buffers>>
    BY <1>1 DEF CountTask, SkipFile, RefuseFile, Prefetch, UseLocalCopy, LookAhead, UseChunk,
       FinishFile, FinishRestore, Stopped, Terminating, vars, restorer, downloader, memory
  <2> QED  BY <2>1, BufferQuiet
<1>2. CASE StartFile
  <2>1. Reclaim(plan.files[f].start, 0) /\ UNCHANGED <<plan, worker, buffers>>  BY <1>2 DEF StartFile
  <2> QED  BY <2>1, ReclaimBuffers
<1>3. CASE WaitForChunk
  <2>1. (Reclaim(i, 0) \/ Reclaim(i, 1)) /\ UNCHANGED <<plan, worker, buffers>>
    BY <1>3 DEF WaitForChunk, restorer
  <2> QED  BY <2>1, ReclaimBuffers
<1>4. ASSUME NEW w \in Workers, Receive(w) \/ StopWorker(w) PROVE BufferInv'
  BY <1>4, ReceiveBuffers, StopWorkerBuffers
<1>5. ASSUME NEW w \in Workers, WorkerNext(w) PROVE BufferInv'
  <2>1. CASE FailChunk(w)
    <3>1. UNCHANGED <<plan, completed, held, worker, pool, buffers>>
      BY <2>1 DEF FailChunk, restorer, downloader
    <3> QED  BY <3>1, BufferQuiet
  <2> QED  BY <1>5, <2>1, TakeTaskBuffers, FetchChunkBuffers, FinishTaskBuffers DEF WorkerNext
<1> QED  BY <1>1, <1>2, <1>3, <1>4, <1>5 DEF Next, RestorerNext

(* Without -persist, a buffer has one owner and holds what was downloaded. *)
THEOREM BufferInvariant ==
    ASSUME AllowFailures = FALSE
    PROVE  Spec => []BufferInv
<1>1. Spec => []PipelineInv  BY PipelineInvariant
<1> QED  BY <1>1, BufferInit, BufferStep, PTL DEF Spec

(* Counting the owners of a buffer. *)
LEMMA OneOwner ==
    ASSUME PipelineInv, BufferInv
    PROVE  BuffersOwnedOnce
<1> SUFFICES ASSUME NEW b \in DOMAIN buffers
             PROVE  pool[b] + Cardinality({k \in Tasks : held[k] = b})
                    + Cardinality({w \in Workers : worker[w].st \in {"fetch", "send"}
                                                   /\ worker[w].buffer = b}) <= 1
  BY DEF BuffersOwnedOnce
<1> DEFINE K == {k \in Tasks : held[k] = b}
           W == {w \in Workers : worker[w].st \in {"fetch", "send"} /\ worker[w].buffer = b}
<1>1. b \in 1 .. Len(buffers) /\ b \in DOMAIN pool /\ b # 0 /\ pool[b] \in Nat  BY BufferFacts
<1>2. pool[b] = 0 \/ pool[b] = 1
  <2>1. pool[b] <= 1  BY <1>1 DEF BufferInv, Owned
  <2> QED  BY <1>1, <2>1
<1>3. \A k \in K : k \in completed /\ held[k] = b  BY <1>1, BufferFacts
<1>4. \A w \in W : w \in Running /\ worker[w].buffer = b  BY DEF Running
<1>5. K = {} \/ \E k \in K : K = {k}
  <2>1. \A k, l \in K : k = l  BY <1>3 DEF BufferInv, Owned
  <2> QED  BY <2>1
<1>6. W = {} \/ \E w \in W : W = {w}
  <2>1. \A v, w \in W : v = w  BY <1>4 DEF BufferInv, Owned
  <2> QED  BY <2>1
<1>7. (K # {} => pool[b] = 0) /\ (W # {} => pool[b] = 0) /\ (K = {} \/ W = {})
  BY <1>3, <1>4 DEF BufferInv, Owned
<1> HIDE DEF K, W
<1>8. (K = {} => Cardinality(K) = 0) /\ (W = {} => Cardinality(W) = 0)
  BY FS_EmptySet
<1>9. (K # {} => Cardinality(K) = 1) /\ (W # {} => Cardinality(W) = 1)
  BY <1>5, <1>6, FS_Singleton
<1>10. pool[b] + Cardinality(K) + Cardinality(W) <= 1
  BY <1>2, <1>7, <1>8, <1>9
<1> QED  BY <1>10 DEF K, W

(* No two of the pool, the downloader and the workers use one buffer.      *)
THEOREM BuffersHaveOneOwner ==
    ASSUME AllowFailures = FALSE
    PROVE  Spec => []BuffersOwnedOnce
  BY BufferInvariant, PipelineInvariant, OneOwner, PTL

LEMMA DataIsRight ==
    ASSUME FilesPlanned, PipelineInv, BufferInv
    PROVE  RightData
<1> SUFFICES ASSUME pc = "receive", i \in completed
             PROVE  buffers[held[i]].hash = plan.files[f].want[i - plan.files[f].start + 1]
  BY DEF RightData
<1>1. buffers[held[i]].hash = plan.tasks[i]  BY DEF BufferInv, Filled
<1>2. ThreadOK  BY TypeParts DEF PipelineInv
<1>3. f <= Len(plan.files) /\ plan.files[f].start <= i /\ i <= plan.files[f].end
  BY DEF PipelineInv, Position
<1>4. i \in plan.files[f].start .. plan.files[f].end /\ plan \in Restores  BY <1>2, <1>3, ThisFile
<1>5. f \in DOMAIN plan.files
  <2>1. f \in 1 .. Len(plan.files) /\ plan \in Restores  BY <1>2, <1>3, PlanShape DEF ThreadOK
  <2>2. DOMAIN plan.files = 1 .. Len(plan.files)
    <3> DEFINE File == [start : DOMAIN plan.tasks, end : DOMAIN plan.tasks, want : Seq(Nat \ {0})]
    <3>1. plan.files \in Seq(File)  BY <2>1, Plans
    <3> HIDE DEF File
    <3> QED  BY <3>1
  <2> QED  BY <2>1, <2>2
<1> QED  BY <1>1, <1>4, <1>5 DEF FilesPlanned, Planned

-----------------------------------------------------------------------------
(* What AddFiles makes of the files of a snapshot.                         *)

Hashes == Nat \ {0}

\* A file is in a range of the chunks.
FilesIn(hashes) == {x \in [start : DOMAIN hashes, end : DOMAIN hashes] : x.start <= x.end}

\* What is assumed of the plans of a run (Plans).
Shaped(p) ==
    /\ p.tasks \in Seq(Nat \ {0}) /\ p.needed \subseteq DOMAIN p.tasks
    /\ p.files \in Seq([start : DOMAIN p.tasks, end : DOMAIN p.tasks, want : Seq(Nat \ {0})])
    /\ \A n \in DOMAIN p.files : p.files[n].start <= p.files[n].end
    /\ \A m, n \in DOMAIN p.files : m < n => p.files[m].end <= p.files[n].start

\* The last task is for the chunk the last file ended with.
EndsWith(hashes, p) ==
    p.last = 0 \/ (p.last \in DOMAIN hashes /\ Len(p.tasks) > 0 /\ p.tasks[Len(p.tasks)] = hashes[p.last])

\* Each file wants its chunks.
Wanted(hashes, given, p) ==
    \A n \in DOMAIN p.files : p.files[n].want = SubSeq(hashes, given[n].start, given[n].end)

PlanType == [tasks : Seq(Hashes), needed : SUBSET Nat, last : Nat,
             files : Seq([start : Nat, end : Nat, want : Seq(Hashes)])]

\* The first k files were added.
Adding(hashes, given, k) ==
    {p \in PlanType : Shaped(p) /\ Planned(p) /\ EndsWith(hashes, p) /\ Len(p.files) = k /\ Wanted(hashes, given, p)}

\* What one file adds: t becomes u.
Added(hashes, x, t, u, shared, b) ==
    /\ u \in Seq(Hashes) /\ Len(t) <= Len(u) /\ (\A k \in 1 .. Len(t) : u[k] = t[k])
    /\ b = Len(u) - (x.end - x.start) /\ b \in 1 .. Len(u) /\ Len(t) <= b
    /\ \A k \in b .. Len(u) : u[k] = hashes[x.start + (k - b)]

(* The tasks of one more file. *)
LEMMA TasksAdded ==
    ASSUME NEW hashes \in Seq(Hashes), NEW x \in FilesIn(hashes), NEW t \in Seq(Hashes), NEW shared \in BOOLEAN,
           shared => Len(t) > 0 /\ t[Len(t)] = hashes[x.start]
    PROVE  LET u == t \o SubSeq(hashes, IF shared THEN x.start + 1 ELSE x.start, x.end)
           IN  Added(hashes, x, t, u, shared, Len(u) - (x.end - x.start))
<1> DEFINE y == x.start
           z == x.end
           a == IF shared THEN y + 1 ELSE y
           v == SubSeq(hashes, a, z)
           u == t \o v
           b == Len(u) - (z - y)
<1>1. /\ y \in Nat /\ z \in Nat /\ 1 <= y /\ y <= z /\ z <= Len(hashes) /\ Len(hashes) \in Nat
      /\ Len(t) \in Nat
  BY DEF FilesIn
<1>0. shared => Len(t) > 0 /\ t[Len(t)] = hashes[y]  OBVIOUS
<1> HIDE DEF y, z
<1>2. a \in Nat /\ 1 <= a /\ a <= z + 1 /\ (shared => a = y + 1) /\ (~shared => a = y)  BY <1>1
<1> HIDE DEF a
<1>3. v \in Seq(Hashes) /\ Len(v) = z - a + 1 /\ \A k \in 1 .. z - a + 1 : v[k] = hashes[a + k - 1]
  BY <1>1, <1>2
<1> HIDE DEF v
<1>4. /\ u \in Seq(Hashes) /\ Len(u) = Len(t) + Len(v)
      /\ \A k \in 1 .. Len(t) : u[k] = t[k]
      /\ \A k \in Len(t) + 1 .. Len(t) + Len(v) : u[k] = v[k - Len(t)]
  <2>1. v \in Seq(Hashes)  BY <1>3
  <2> QED  BY <2>1
<1> HIDE DEF u
<1>10. b = Len(u) - (z - y)  OBVIOUS
<1>11. Len(u) = Len(t) + (z - a + 1)  BY <1>3, <1>4
<1> HIDE DEF b
<1>5. (shared => b = Len(t)) /\ (~shared => b = Len(t) + 1) /\ Len(u) = b + (z - y) /\ b \in Nat
  BY <1>0, <1>1, <1>2, <1>10, <1>11
<1>6. b \in 1 .. Len(u) /\ Len(t) <= b /\ Len(t) <= Len(u)
  BY <1>0, <1>1, <1>4, <1>5
<1>7. ASSUME NEW k \in b .. Len(u) PROVE u[k] = hashes[y + (k - b)]
  <2>1. CASE k \in 1 .. Len(t)
    <3>1. shared /\ k = Len(t) /\ k = b  BY <1>1, <1>5, <1>7, <2>1
    <3>2. y + (k - b) = y  BY <1>1, <3>1
    <3> QED  BY <1>0, <1>4, <2>1, <3>1, <3>2
  <2>2. CASE k \notin 1 .. Len(t)
    <3>1. k \in Len(t) + 1 .. Len(t) + Len(v)  BY <1>1, <1>4, <1>6, <1>7, <2>2
    <3>2. k - Len(t) \in 1 .. z - a + 1  BY <1>1, <1>2, <1>3, <3>1
    <3>3. a + (k - Len(t)) - 1 = y + (k - b)  BY <1>1, <1>2, <1>5, <1>6, <3>1
    <3> QED  BY <1>3, <1>4, <3>1, <3>2, <3>3
  <2> QED  BY <2>1, <2>2
<1>8. Added(hashes, x, t, u, shared, b)  BY <1>4, <1>6, <1>7, <1>10, Zenon DEF Added, y, z
<1> QED  BY <1>8, Zenon DEF u, v, a, b, y, z

(* One more file is planned. *)
LEMMA AddFileStep ==
    ASSUME NEW hashes \in Seq(Hashes), NEW given \in Seq(FilesIn(hashes)), NEW k \in 1 .. Len(given),
           NEW p \in Adding(hashes, given, k - 1)
    PROVE  AddFile(hashes, p, given[k]) \in Adding(hashes, given, k)
<1> DEFINE x == given[k]
           shared == x.start = p.last
           u == p.tasks \o SubSeq(hashes, IF shared THEN x.start + 1 ELSE x.start, x.end)
           b == Len(u) - (x.end - x.start)
           w == SubSeq(hashes, x.start, x.end)
           file == [start |-> b, end |-> Len(u), want |-> w]
           need == IF shared THEN p.needed \cup {Len(p.tasks)} ELSE p.needed
           r == [tasks |-> u, needed |-> need, last |-> x.end, files |-> Append(p.files, file)]
<1>1. /\ p \in PlanType /\ Shaped(p) /\ Planned(p) /\ EndsWith(hashes, p) /\ Len(p.files) = k - 1
      /\ Wanted(hashes, given, p)
  BY DEF Adding
<1>2. AddFile(hashes, p, x) = r  BY Zenon DEF AddFile
<1>3. x \in FilesIn(hashes)  OBVIOUS
<1> HIDE DEF x
<1>4. p.tasks \in Seq(Hashes) /\ Len(p.tasks) \in Nat /\ DOMAIN p.tasks = 1 .. Len(p.tasks) /\ p.last \in Nat
  BY <1>1 DEF PlanType
<1>5. x.start \in DOMAIN hashes /\ x.end \in DOMAIN hashes /\ x.start <= x.end /\ x.start \in Nat /\ x.end \in Nat
      /\ 1 <= x.start /\ 1 <= x.end /\ x.end <= Len(hashes)
  BY <1>3 DEF FilesIn
<1>6. shared \in BOOLEAN /\ (shared => Len(p.tasks) > 0 /\ p.tasks[Len(p.tasks)] = hashes[x.start])
  BY <1>1, <1>5 DEF EndsWith
<1>7. Added(hashes, x, p.tasks, u, shared, b)
  <2>1. /\ shared \in BOOLEAN /\ p.tasks \in Seq(Hashes) /\ x \in FilesIn(hashes)
        /\ (shared => Len(p.tasks) > 0 /\ p.tasks[Len(p.tasks)] = hashes[x.start])
    BY <1>3, <1>4, <1>6
  <2> HIDE DEF shared
  <2> QED  BY <2>1, TasksAdded, Zenon
<1>8. w \in Seq(Hashes) /\ \A j \in 1 .. x.end - x.start + 1 : w[j] = hashes[x.start + j - 1]
  <2> DEFINE y == x.start
             z == x.end
  <2>1. y \in Nat /\ z \in Nat /\ 1 <= y /\ y <= z /\ z <= Len(hashes)  BY <1>5
  <2> HIDE DEF y, z
  <2>2. SubSeq(hashes, y, z) \in Seq(Hashes) /\ \A j \in 1 .. z - y + 1 : SubSeq(hashes, y, z)[j] = hashes[y + j - 1]
    BY <2>1
  <2> QED  BY <2>2 DEF y, z
<1>9. need \subseteq 1 .. Len(p.tasks)
  BY <1>1, <1>4, <1>6 DEF Shaped
<1>10. r.tasks = u /\ r.needed = need /\ r.last = x.end /\ r.files = Append(p.files, file)  OBVIOUS
<1>11. file.start = b /\ file.end = Len(u) /\ file.want = w  OBVIOUS
<1>20. r = [tasks |-> u, needed |-> need, last |-> x.end, files |-> Append(p.files, file)]
       /\ file = [start |-> b, end |-> Len(u), want |-> w]
  OBVIOUS
<1> HIDE DEF r, file, u, b, need, shared
<1>12. /\ u \in Seq(Hashes) /\ Len(u) \in Nat /\ DOMAIN u = 1 .. Len(u) /\ Len(p.tasks) <= Len(u)
       /\ (\A j \in 1 .. Len(p.tasks) : u[j] = p.tasks[j])
       /\ b = Len(u) - (x.end - x.start) /\ b \in 1 .. Len(u) /\ Len(p.tasks) <= b
       /\ \A j \in b .. Len(u) : u[j] = hashes[x.start + (j - b)]
  BY <1>7 DEF Added
<1> DEFINE File == [start : 1 .. Len(u), end : 1 .. Len(u), want : Seq(Hashes)]
           q == p.files
           s == Append(q, file)
<1>13. file \in File  BY <1>8, <1>11, <1>12, <1>20
<1>14. q \in Seq(File)
  <2> DEFINE Old == [start : 1 .. Len(p.tasks), end : 1 .. Len(p.tasks), want : Seq(Hashes)]
  <2>1. q \in Seq(Old)  BY <1>1, <1>4 DEF Shaped, Hashes
  <2>2. Old \subseteq File
    <3>1. 1 .. Len(p.tasks) \subseteq 1 .. Len(u)  BY <1>4, <1>12
    <3> QED  BY <3>1
  <2> HIDE DEF Old, File
  <2> QED  BY <2>1, <2>2
<1>15. /\ s \in Seq(File) /\ Len(s) = k /\ DOMAIN s = 1 .. k /\ Len(q) = k - 1 /\ DOMAIN q = 1 .. k - 1
       /\ \A n \in 1 .. k - 1 : s[n] = q[n]
       /\ s[k] = file
  <2> HIDE DEF File
  <2>1. Len(q) = k - 1  BY <1>1
  <2> HIDE DEF q
  <2> QED  BY <1>13, <1>14, <2>1
<1>16. Shaped(r)
  <2>1. r.tasks \in Seq(Nat \ {0}) /\ DOMAIN r.tasks = 1 .. Len(u)  BY <1>10, <1>12 DEF Hashes
  <2>2. r.needed \subseteq 1 .. Len(u)  BY <1>4, <1>9, <1>10, <1>12
  <2>3. \A n \in 1 .. k : s[n].start <= s[n].end
    <3>1. \A n \in 1 .. k - 1 : q[n].start <= q[n].end  BY <1>1, <1>15 DEF Shaped
    <3>2. file.start <= file.end  BY <1>11, <1>12
    <3> QED  BY <1>15, <3>1, <3>2
  <2>4. \A m, n \in 1 .. k : m < n => s[m].end <= s[n].start
    <3>1. \A m, n \in 1 .. k - 1 : m < n => q[m].end <= q[n].start  BY <1>1, <1>15 DEF Shaped
    <3>2. \A m \in 1 .. k - 1 : q[m].end <= file.start
      <4>1. \A m \in 1 .. k - 1 : q[m].end \in 1 .. Len(p.tasks)
        <5> DEFINE Old == [start : 1 .. Len(p.tasks), end : 1 .. Len(p.tasks), want : Seq(Hashes)]
        <5>1. q \in Seq(Old)  BY <1>1, <1>4 DEF Shaped, Hashes
        <5>2. \A m \in 1 .. k - 1 : q[m] \in Old
          <6> HIDE DEF Old
          <6> QED  BY <1>15, <5>1
        <5> QED  BY <5>2
      <4> QED  BY <1>4, <1>11, <1>12, <4>1
    <3> HIDE DEF s, q, File
    <3>3. ASSUME NEW m \in 1 .. k, NEW n \in 1 .. k, m < n PROVE s[m].end <= s[n].start
      <4>1. m \in 1 .. k - 1 /\ s[m] = q[m]  BY <1>15, <3>3
      <4>2. CASE n = k  BY <1>15, <3>2, <4>1, <4>2
      <4>3. CASE n # k
        <5>1. n \in 1 .. k - 1 /\ s[n] = q[n]  BY <1>15, <3>3, <4>3
        <5> QED  BY <3>1, <3>3, <4>1, <5>1
      <4> QED  BY <4>2, <4>3
    <3> QED  BY <3>3
  <2> HIDE DEF s
  <2>5. r.files = s  BY <1>10 DEF s
  <2>6. r.files \in Seq([start : DOMAIN r.tasks, end : DOMAIN r.tasks, want : Seq(Nat \ {0})])
    BY <1>15, <2>1, <2>5 DEF Hashes
  <2> QED  BY <1>15, <2>1, <2>2, <2>3, <2>4, <2>5, <2>6 DEF Shaped
<1>17. Planned(r)
  <2>1. ASSUME NEW n \in 1 .. k, NEW j \in s[n].start .. s[n].end
        PROVE  s[n].want[j - s[n].start + 1] = u[j]
    <3>1. CASE n = k
      <4>1. s[n].start = b /\ s[n].end = Len(u) /\ s[n].want = w  BY <1>11, <1>15, <3>1
      <4>2. j \in b .. Len(u)  BY <2>1, <4>1
      <4>3. j - b + 1 \in 1 .. x.end - x.start + 1 /\ x.start + (j - b + 1) - 1 = x.start + (j - b)
        <5> DEFINE y == x.start
                   z == x.end
        <5>1. y \in Nat /\ z \in Nat /\ y <= z /\ b = Len(u) - (z - y) /\ b \in Nat /\ Len(u) \in Nat  BY <1>5, <1>12
        <5> HIDE DEF y, z
        <5>2. j - b + 1 \in 1 .. z - y + 1 /\ y + (j - b + 1) - 1 = y + (j - b)  BY <4>2, <5>1
        <5> QED  BY <5>2 DEF y, z
      <4> HIDE DEF w
      <4> QED  BY <1>8, <1>12, <4>1, <4>2, <4>3
    <3>2. CASE n # k
      <4>1. n \in 1 .. k - 1 /\ s[n] = q[n]  BY <1>15, <3>2
      <4>2. q[n].want[j - q[n].start + 1] = p.tasks[j]  BY <1>1, <1>15, <2>1, <4>1 DEF Planned
      <4>3. j \in 1 .. Len(p.tasks)
        <5> DEFINE Old == [start : 1 .. Len(p.tasks), end : 1 .. Len(p.tasks), want : Seq(Hashes)]
        <5>1. q \in Seq(Old)  BY <1>1, <1>4 DEF Shaped, Hashes
        <5>2. q[n] \in Old
          <6> HIDE DEF Old
          <6> QED  BY <1>15, <4>1, <5>1
        <5>3. q[n].start \in 1 .. Len(p.tasks) /\ q[n].end \in 1 .. Len(p.tasks)  BY <5>2
        <5> QED  BY <1>4, <2>1, <4>1, <5>3
      <4> QED  BY <1>12, <4>1, <4>2, <4>3
    <3> QED  BY <3>1, <3>2
  <2>2. r.files = s /\ r.tasks = u  BY <1>10
  <2> HIDE DEF s
  <2> QED  BY <1>15, <2>1, <2>2 DEF Planned
<1>18. EndsWith(hashes, r)
  <2>1. u[Len(u)] = hashes[x.end] /\ Len(u) > 0
    <3>1. Len(u) \in b .. Len(u) /\ x.start + (Len(u) - b) = x.end  BY <1>5, <1>12
    <3> QED  BY <1>12, <3>1
  <2> QED  BY <1>5, <1>10, <2>1 DEF EndsWith
<1>19. Wanted(hashes, given, r)
  <2>1. ASSUME NEW n \in 1 .. k PROVE s[n].want = SubSeq(hashes, given[n].start, given[n].end)
    <3>1. CASE n = k
      <4>1. s[n].want = SubSeq(hashes, x.start, x.end)  BY <1>11, <1>15, <3>1
      <4> QED  BY <3>1, <4>1 DEF x
    <3>2. CASE n # k
      <4> HIDE DEF s, q, File
      <4>1. n \in 1 .. k - 1 /\ s[n] = q[n]  BY <1>15, <3>2
      <4> QED  BY <1>1, <1>15, <4>1 DEF Wanted, q
    <3> QED  BY <3>1, <3>2
  <2>2. r.files = s  BY <1>10
  <2> HIDE DEF s
  <2> QED  BY <1>15, <2>1, <2>2 DEF Wanted
<1>21. r \in PlanType
  <2>1. s \in Seq([start : Nat, end : Nat, want : Seq(Hashes)])
    <3> DEFINE AnyPlan == [start : Nat, end : Nat, want : Seq(Hashes)]
    <3>1. File \subseteq AnyPlan  BY <1>12
    <3> HIDE DEF AnyPlan, File, s
    <3>2. s \in Seq(AnyPlan)  BY <1>15, <3>1
    <3> QED  BY <3>2 DEF AnyPlan
  <2>2. need \in SUBSET Nat  BY <1>4, <1>9
  <2> QED  BY <1>5, <1>12, <1>20, <2>1, <2>2 DEF PlanType
<1>22. Len(r.files) = k  BY <1>10, <1>15
<1>23. r \in Adding(hashes, given, k)  BY <1>16, <1>17, <1>18, <1>19, <1>21, <1>22, Zenon DEF Adding
<1> QED  BY <1>2, <1>23 DEF x

(* The plans after each file, however many files there are. *)
LEMMA PlanSteps ==
    ASSUME NEW hashes \in Seq(Hashes), NEW given \in Seq(FilesIn(hashes))
    PROVE  AddFiles(hashes, given) \in Adding(hashes, given, Len(given))
<1> DEFINE n == Len(given)
           b == [tasks |-> <<>>, needed |-> {}, last |-> 0, files |-> <<>>]
           A(k) == Adding(hashes, given, k)
           T == UNION {A(k) : k \in 0 .. n}
           F == [c \in (1 .. n) \X T |-> IF c[2] \in A(c[1] - 1) THEN AddFile(hashes, c[2], given[c[1]]) ELSE b]
           Is(a) == a = [k \in 0 .. n |-> IF k = 0 THEN b ELSE AddFile(hashes, a[k - 1], given[k])]
<1>1. n \in Nat  OBVIOUS
<1>2. b \in A(0)
  <2>1. b.tasks = <<>> /\ b.needed = {} /\ b.last = 0 /\ b.files = <<>> /\ DOMAIN <<>> = {} /\ Len(<<>>) = 0  OBVIOUS
  <2>2. b \in PlanType  BY DEF PlanType
  <2> HIDE DEF b
  <2>3. Shaped(b) /\ Planned(b) /\ EndsWith(hashes, b) /\ Wanted(hashes, given, b)
    BY <2>1 DEF Shaped, Planned, EndsWith, Wanted
  <2> QED  BY <2>1, <2>2, <2>3 DEF Adding
<1>3. \A k \in 1 .. n : \A x \in A(k - 1) : AddFile(hashes, x, given[k]) \in A(k)  BY AddFileStep
<1> HIDE DEF b, n, A
<1>4. b \in T /\ \A k \in 0 .. n : A(k) \subseteq T
  <2>1. 0 \in 0 .. n  BY <1>1
  <2> QED  BY <1>2, <2>1
<1>5. StepFunction(F, n, T)
  <2>1. \A c \in (1 .. n) \X T : (IF c[2] \in A(c[1] - 1) THEN AddFile(hashes, c[2], given[c[1]]) ELSE b) \in T
    <3>1. SUFFICES ASSUME NEW k \in 1 .. n, NEW x \in T
                   PROVE  (IF x \in A(k - 1) THEN AddFile(hashes, x, given[k]) ELSE b) \in T
      OBVIOUS
    <3>2. k \in 0 .. n  BY <1>1
    <3> HIDE DEF T
    <3> QED  BY <1>3, <1>4, <3>2
  <2> HIDE DEF T
  <2>2. F \in [(1 .. n) \X T -> T]  BY <2>1
  <2> QED  BY <2>2, Zenon DEF StepFunction
<1> HIDE DEF T
<1>6. \A k \in 1 .. n : \A x \in T : x \in A(k - 1) => F[<<k, x>>] = AddFile(hashes, x, given[k])  OBVIOUS
<1> HIDE DEF F
<1>7. PICK a : Computed(a, n, T, b, F)  BY <1>1, <1>4, <1>5, RecursionExists
<1>8. a \in [0 .. n -> T] /\ a[0] = b /\ \A k \in 1 .. n : a[k] = F[<<k, a[k - 1]>>]
  BY <1>7, Zenon DEF Computed
<1> DEFINE G == {k \in 0 .. n : a[k] \in A(k)}
<1>9. 0 \in G  BY <1>1, <1>2, <1>8
<1>10. ASSUME NEW k \in 1 .. n, k - 1 \in G PROVE k \in G /\ a[k] = AddFile(hashes, a[k - 1], given[k])
  <2>1. k \in 0 .. n /\ k - 1 \in 0 .. n /\ a[k - 1] \in A(k - 1) /\ a[k - 1] \in T  BY <1>1, <1>8, <1>10
  <2>2. a[k] = AddFile(hashes, a[k - 1], given[k])  BY <1>6, <1>8, <2>1
  <2> QED  BY <1>3, <2>1, <2>2
<1>11. \A k \in 0 .. n : k \in G
  <2>1. \A k \in 1 .. n : k - 1 \in G => k \in G  BY <1>10
  <2> HIDE DEF G
  <2> QED  BY <1>1, <1>9, <2>1, UpTo
<1>12. \A k \in 1 .. n : a[k] = AddFile(hashes, a[k - 1], given[k])
  <2> SUFFICES ASSUME NEW k \in 1 .. n PROVE a[k] = AddFile(hashes, a[k - 1], given[k])  OBVIOUS
  <2>1. k - 1 \in 0 .. n  BY <1>1
  <2> HIDE DEF G
  <2> QED  BY <1>10, <1>11, <2>1
<1> HIDE DEF G
<1>13. Is(a)
  <2>1. ASSUME NEW k \in 0 .. n PROVE a[k] = IF k = 0 THEN b ELSE AddFile(hashes, a[k - 1], given[k])
    <3>1. CASE k = 0  BY <1>8, <3>1
    <3>2. CASE k # 0
      <4>1. k \in 1 .. n  BY <1>1, <3>2
      <4> QED  BY <1>12, <3>2, <4>1
    <3> QED  BY <3>1, <3>2
  <2>2. a = [k \in 0 .. n |-> a[k]]  BY <1>8
  <2> QED  BY <2>1, <2>2, Zenon
<1> DEFINE c == CHOOSE plans : Is(plans)
<1>14. Is(c)  BY <1>13, Zenon
<1>15. AddFiles(hashes, given) = c[n]  BY Zenon DEF AddFiles, PlanStates, n, b
<1> HIDE DEF c
<1>16. \A k \in 0 .. n : c[k] = IF k = 0 THEN b ELSE AddFile(hashes, c[k - 1], given[k])  BY <1>14, Zenon
<1> DEFINE H == {k \in 0 .. n : c[k] \in A(k)}
<1>17. 0 \in H  BY <1>1, <1>2, <1>16
<1>18. ASSUME NEW k \in 1 .. n, k - 1 \in H PROVE k \in H
  <2>1. k \in 0 .. n /\ k # 0 /\ c[k - 1] \in A(k - 1)  BY <1>1, <1>18
  <2>2. c[k] = AddFile(hashes, c[k - 1], given[k])  BY <1>16, <2>1, Zenon
  <2> QED  BY <1>3, <2>1, <2>2
<1> HIDE DEF H
<1>19. n \in H
  <2>1. n \in 0 .. n  BY <1>1
  <2> QED  BY <1>1, <1>17, <1>18, <2>1, UpTo
<1>20. c[n] \in A(n)  BY <1>19 DEF H
<1> QED  BY <1>15, <1>20 DEF A, n

(* A file within one chunk gets the same data from the first chunk with that hash. *)
LEMMA FirstChunkSame ==
    ASSUME NEW hashes \in Seq(Hashes), NEW x \in FilesIn(hashes)
    PROVE  /\ UseFirstChunk(hashes, x) \in FilesIn(hashes)
           /\ SubSeq(hashes, UseFirstChunk(hashes, x).start, UseFirstChunk(hashes, x).end) = SubSeq(hashes, x.start, x.end)
<1>1. CASE x.start = x.end
  <2> DEFINE y == x.start
             z == FirstOccurrence(hashes, y)
             Bad == {k \in DOMAIN hashes : hashes[k] = hashes[y]}
  <2>1. y \in DOMAIN hashes /\ y \in 1 .. Len(hashes) /\ Len(hashes) \in Nat  BY DEF FilesIn
  <2> HIDE DEF y
  <2>2. PICK m \in Bad : \A k \in Bad : m <= k
    <3>1. Bad \in SUBSET Nat /\ Bad # {}  BY <2>1
    <3> HIDE DEF Bad
    <3> QED  BY <3>1, SmallestExists
  <2>3. m \in DOMAIN hashes /\ hashes[m] = hashes[y] /\ \A k \in 1 .. m - 1 : hashes[k] # hashes[y]
    <3>1. m \in 1 .. Len(hashes) /\ hashes[m] = hashes[y]  BY <2>2
    <3>2. ASSUME NEW k \in 1 .. m - 1, hashes[k] = hashes[y] PROVE FALSE
      <4>1. k \in 1 .. Len(hashes) /\ ~(m <= k)  BY <2>1, <3>1
      <4>2. k \in Bad  BY <3>2, <4>1
      <4> QED  BY <2>2, <4>1, <4>2
    <3> QED  BY <3>1, <3>2
  <2>4. z \in DOMAIN hashes /\ hashes[z] = hashes[y]  BY <2>3 DEF FirstOccurrence
  <2>5. UseFirstChunk(hashes, x) = [start |-> z, end |-> z]  BY <1>1, Zenon DEF UseFirstChunk, y
  <2> HIDE DEF z
  <2>6. SubSeq(hashes, z, z) = SubSeq(hashes, y, y)
    <3> DEFINE v == SubSeq(hashes, z, z)
               w == SubSeq(hashes, y, y)
    <3>1. z \in 1 .. Len(hashes)  BY <2>4
    <3>2. v \in Seq(Hashes) /\ Len(v) = 1 /\ v[1] = hashes[z]  BY <2>1, <3>1
    <3>3. w \in Seq(Hashes) /\ Len(w) = 1 /\ w[1] = hashes[y]  BY <2>1
    <3> HIDE DEF v, w
    <3>4. \A k \in 1 .. Len(v) : v[k] = w[k]  BY <2>4, <3>2, <3>3
    <3>5. v = w  BY <3>2, <3>3, <3>4, SeqEqual
    <3> QED  BY <3>5 DEF v, w
  <2>7. z <= z /\ x.start = y /\ x.end = y  BY <1>1, <2>4 DEF y
  <2> QED  BY <2>4, <2>5, <2>6, <2>7 DEF FilesIn
<1>2. CASE x.start # x.end  BY <1>2 DEF UseFirstChunk
<1> QED  BY <1>1, <1>2

(* AddFiles, for any files of any snapshot, in whatever order ByChunk leaves files that begin in one  *)
(* chunk: every file, once, gets a range of the tasks, each range in or after the last task of the     *)
(* one before it, and the tasks in it are for the chunks the snapshot has for that file.               *)
THEOREM AddFilesPlans ==
    ASSUME NEW hashes \in Seq(Hashes), NEW given \in Seq(FilesIn(hashes)), NEW p \in PlansFor(hashes, given)
    PROVE  /\ Shaped(p) /\ Planned(p) /\ Len(p.files) = Len(given)
           /\ \E order \in SetToSeqs(DOMAIN given) : \A n \in DOMAIN p.files :
                 p.files[n].want = SubSeq(hashes, given[order[n]].start, given[order[n]].end)
<1> DEFINE N == Len(given)
           q == [n \in DOMAIN given |-> UseFirstChunk(hashes, given[n])]
<1>1. N \in Nat /\ DOMAIN given = 1 .. N /\ \A n \in 1 .. N : given[n] \in FilesIn(hashes)  OBVIOUS
<1>2. PICK r \in ByChunk(q) : p = AddFiles(hashes, r)  BY Zenon DEF PlansFor
<1>3. DOMAIN q = 1 .. N /\ \A n \in 1 .. N : q[n] = UseFirstChunk(hashes, given[n])  BY <1>1
<1> HIDE DEF q
<1>4. PICK order \in SetToSeqs(1 .. N) : r = [n \in 1 .. N |-> q[order[n]]]  BY <1>2, <1>3 DEF ByChunk
<1>5. order \in [1 .. N -> 1 .. N]
  <2>1. Cardinality(1 .. N) = N
    <3> HIDE DEF N
    <3>1. 1 \in Int /\ N \in Int  BY <1>1
    <3>2. Cardinality(1 .. N) = IF 1 > N THEN 0 ELSE N - 1 + 1  BY <3>1, FS_Interval
    <3> QED  BY <1>1, <3>2
  <2> QED  BY <1>4, <2>1 DEF SetToSeqs
<1>6. \A n \in 1 .. N : /\ r[n] = UseFirstChunk(hashes, given[order[n]])
                        /\ r[n] \in FilesIn(hashes)
                        /\ SubSeq(hashes, r[n].start, r[n].end) = SubSeq(hashes, given[order[n]].start, given[order[n]].end)
  <2> SUFFICES ASSUME NEW n \in 1 .. N
               PROVE  /\ r[n] = UseFirstChunk(hashes, given[order[n]])
                      /\ r[n] \in FilesIn(hashes)
                      /\ SubSeq(hashes, r[n].start, r[n].end) = SubSeq(hashes, given[order[n]].start, given[order[n]].end)
    OBVIOUS
  <2>1. order[n] \in 1 .. N  BY <1>5
  <2>2. r[n] = UseFirstChunk(hashes, given[order[n]])  BY <1>3, <1>4, <2>1
  <2>3. given[order[n]] \in FilesIn(hashes)  BY <1>1, <2>1
  <2> QED  BY <2>2, <2>3, FirstChunkSame
<1>7. r \in Seq(FilesIn(hashes)) /\ Len(r) = N
  <2>1. r \in [1 .. N -> FilesIn(hashes)]  BY <1>4, <1>6
  <2> HIDE DEF N
  <2> QED  BY <1>1, <2>1, AsSequence
<1>8. p \in Adding(hashes, r, N)  BY <1>2, <1>7, PlanSteps
<1>9. Shaped(p) /\ Planned(p) /\ Len(p.files) = N /\ Wanted(hashes, r, p) /\ p \in PlanType  BY <1>8 DEF Adding
<1>10. DOMAIN p.files = 1 .. N
  <2> DEFINE s == p.files
             File == [start : Nat, end : Nat, want : Seq(Hashes)]
  <2>1. s \in Seq(File) /\ Len(s) = N  BY <1>9 DEF PlanType
  <2> HIDE DEF s, File
  <2>2. DOMAIN s = 1 .. N  BY <2>1
  <2> QED  BY <2>2 DEF s
<1>11. \A n \in DOMAIN p.files : p.files[n].want = SubSeq(hashes, given[order[n]].start, given[order[n]].end)
  BY <1>6, <1>9, <1>10 DEF Wanted
<1>12. order \in SetToSeqs(DOMAIN given)  BY <1>1, <1>4
<1> QED  BY <1>9, <1>11, <1>12

\* The plan is one that AddFiles makes for some files of a snapshot.
FromSnapshot(p) ==
    \E hashes \in Seq(Hashes) : \E given \in Seq(FilesIn(hashes)) : \E q \in PlansFor(hashes, given) :
        p.tasks = q.tasks /\ p.files = q.files

(* The plan of a restore is one of those. *)
LEMMA PlannedFromSnapshot ==
    ASSUME \A p \in Restores : FromSnapshot(p), PipelineInv
    PROVE  FilesPlanned
<1>1. plan \in Restores  BY DEF PipelineInv, TypeOK
<1>2. PICK hashes \in Seq(Hashes) : \E given \in Seq(FilesIn(hashes)) : \E q \in PlansFor(hashes, given) :
          plan.tasks = q.tasks /\ plan.files = q.files
  BY <1>1 DEF FromSnapshot
<1>3. PICK given \in Seq(FilesIn(hashes)) : \E q \in PlansFor(hashes, given) :
          plan.tasks = q.tasks /\ plan.files = q.files
  BY <1>2
<1>4. PICK q \in PlansFor(hashes, given) : plan.tasks = q.tasks /\ plan.files = q.files  BY <1>3
<1>5. Planned(q)  BY AddFilesPlans
<1> QED  BY <1>4, <1>5 DEF FilesPlanned, Planned

(* In every restore whose plan AddFiles made of files of a snapshot, the tasks at the places of a file *)
(* are for the chunks of the file.                                                                     *)
THEOREM FilesArePlanned ==
    ASSUME \A p \in Restores : FromSnapshot(p)
    PROVE  Spec => []FilesPlanned
  BY PlannedFromSnapshot, PipelineInvariant, PTL

(* In such restores RestoreFile writes the data of the chunk the snapshot has at the place, for any    *)
(* number of threads and however the downloads overtake each other.                                    *)
THEOREM RestoredDataIsRight ==
    ASSUME AllowFailures = FALSE, \A p \in Restores : FromSnapshot(p)
    PROVE  Spec => []RightData
  BY FilesArePlanned, BufferInvariant, PipelineInvariant, DataIsRight, PTL

=============================================================================
