# A TLA+ verification of dupluxy

dupluxy is a backup program that deduplicates without locks: many computers
back up to one storage at the same time, files are cut into chunks named by
their hashes, and a chunk that exists is never uploaded again.  Old snapshots
are pruned while backups run.  What makes this hard is that nobody coordinates
anybody; the rules by which prune decides that a chunk may go are all there is
between the user and a backup that cannot be restored.  That part comes first
here; around it are models of a backup from the directory listing to the
snapshot file, of the download pipeline of a restore, of the copy between two
storages, of the retention policies, and of every storage backend down to the
requests it sends.

Abbreviations of file names under `src/src/`: SM `duplicacy_snapshotmanager.go`,
BM `duplicacy_backupmanager.go`, CO `duplicacy_chunkoperator.go`, CD
`duplicacy_chunkdownloader.go`, EL `duplicacy_entrylist.go`, EN
`duplicacy_entry.go`.

## Inventory

| component | state | operations | hard because of | correct if |
|---|---|---|---|---|
| prune (SM `PruneSnapshots`) | snapshots read, fossils gathered; fossil collections in the local cache directory | list ids and revisions, judge pending collections, choose snapshots, fossilize, save the collection, delete snapshot files | backups start, find chunks and commit between any two of its steps; it can be killed anywhere | no chunk goes that a snapshot, present or about to be committed, references |
| backup (BM `Backup`, `UploadSnapshot`) | chunk cache, chunk list, incomplete snapshot | read the latest snapshot, pack files, find or upload chunks, upload metadata and the snapshot file | the cache is stale from the moment it is read | every referenced chunk exists when the snapshot appears |
| chunk operator (CO) | task queue, count of active tasks, fossils | upload, download, fossilize, resurrect, delete, stop | goroutines, a counter that is increased after the send, errors that end the process | no task is lost, Stop ends |
| restore (BM `Restore`, `RestoreFile`) and chunk downloader (CD) | task list, completed tasks, active chunks | add files, prefetch, wait for a chunk, reclaim | look-ahead, completions in any order, buffers shared through a pool | the right data in every file, and it ends |
| check (SM `CheckSnapshots`) | map of chunk sizes | compare snapshots and chunks, resurrect fossils | interferes with pending collections | never makes things worse |
| retention (SM, in `PruneSnapshots`) | — | which snapshots a policy `interval:age` keeps | ages and intervals at their limits | keeps what its comment promises |
| entry list (EL) | entries, preserved and uploaded chunks, a file on disk | add entries, add chunks out of order, save and load an incomplete snapshot | called from workers and from the error handler | entries and chunks agree |
| chunk maker | ring buffer, rolling hash | add data, cut | buffer boundaries | all data in order, sizes within limits |
| copy (BM `CopySnapshots`) | chunks of both storages, two pools of workers | download, upload, write snapshots | one pool feeds the other; prunes and uploads by others | a copied snapshot has all its chunks, and it ends |
| snapshot files, entries, patterns, listing | stack of directories, table of hard links | listing, ordering, matching, relative indices | two orders that must agree; files that change after they are listed | the listing is complete and in the order of the merge; an entry leads to its content |
| encryption, erasure coding | keys | encrypt, decrypt, repair | cryptography | out of reach |
| storage interface, backends, cloud clients | tokens, caches of ids and directories | find, list, upload, move, delete; retries, renewal of credentials | a request carried out whose answer is lost, retries of what was done, pages of a listing | what a method reports is true, and no task loses the last copy of a chunk |
| config, preferences, keyring, shadow copy, attributes, logging, benchmark, command line | settings | input and output | — | — |

How they interact.  Backup, prune, copy and check know each other only through
the storage: the files `chunks/c`, their fossils `chunks/c.fsl` and
`snapshots/<id>/<revision>`.  Prune and restore hand tasks to a chunk operator,
whose workers call back through completion functions.  The restoring thread,
the workers and the chunk downloader share buffers through the pool in the
configuration.  An error logged in any goroutine ends the process.

The hazards this leaves are listed, line by line, in `PROJECT.json`, each with
the properties that would catch it.

## Modules

    SnapshotStorage               abstract: snapshots that stay until they are deleted
    FossilCollection              backups, prunes, workers and check on one storage;
                                  implements SnapshotStorage
      └ FossilInvariant           the inductive invariant, part by part
          ├ MCFossilCollection    instances for TLC
          └ FossilSafetyProofs    TypeOK, the invariant, what follows from it, SnapshotStorage

    EntryList                     the list of entries: merge, filling in, encoding
      └ Backup                    backups that fail and are resumed
          ├ MCBackup
          └ BackupProofs          the operators of EntryList, and what every backup keeps

    Patterns                      include and exclude patterns
      └ Listing                   the order of paths, one directory
    ChunkMaker                    ring buffer, rolling hash, cuts
      └ LocalFiles                listing a repository and packing it (with Listing)
          ├ MCLocalFiles
          └ PackingProofs         the ring buffer keeps the data and the sizes

    CopySnapshots                 two storages, two pools of workers
      ├ MCCopySnapshots
      └ CopyProofs                the pools, and complete copies

    ChunkDownloader               restoring thread, workers, buffers
    RestorePlan                   files and chunks to download tasks
      └ MCChunkDownloader         instances of both for TLC
    DownloaderProofs              tasks, counters, queue and buffers of ChunkDownloader,
                                  and the data restored

    Retention                     which snapshots a prune with -keep deletes
      ├ MCRetention
      └ RetentionProofs           one prune, and any number of them

    CommonLemmas                  smallest numbers, and sequences put together (for the proofs)

    ChunkStore                    abstract: where one chunk is, and what tasks may do to it
    StorageSteps                  requests and what an answer leads to
      ├ ObjectBackends            S3, S3C, Wasabi, Azure, GCS, Storj, Dropbox, Swift, Hubic
      ├ FileBackends              local files, Samba, SFTP, WebDAV
      ├ IdBackends                OneDrive, ACD, Google Drive, File Fabric
      └ B2Backend                 Backblaze B2
          └ StorageBackends       all of them side by side
              └ StorageTasks      the operator's tasks on one chunk; implements ChunkStore
                  ├ MCStorageTasks
                  └ StorageProofs     no partial file under a chunk's name; complete listings;
                                      the tasks implement ChunkStore

### FossilCollection

The storage is `live` (chunks), `fossil` (fossils) and `snaps` (snapshot
files).  A snapshot is its id, revision, end time and set of chunks, metadata
chunks included (`GetSnapshotChunks`).

*Backups.*  `bk[x]` is the backup running for id `x`.  `StartBackup` reads the
latest revision and makes its chunks the cache, or all chunks for a first
backup on a storage that lists quickly.  A backup that resumes takes over chunks
of an incomplete snapshot besides (`inc`, any set, of chunks that exist where
they are listed) and refers to them like to those in the cache.  A chunk is referenced either because it
is taken over (`UseCached`: the storage is not asked) or because
`FindExisting` found it; otherwise it is uploaded (`UploadChunk`), a step that
other processes can come between.  `RecordEndTime` takes the end time once the
file chunks are there and *before* the metadata is uploaded; `CommitSnapshot`
writes the snapshot file; `AbortBackup` can happen anywhere.

*Prune* is one process at a time (the collections lie in the directory of one
repository).  `StartPrune` lists the ids, `ListRevisions` reads one id at a
time, `ListCollections` reads the pending collections.  Each is a ghost
(`GhostCollection`), postponed (`PostponeCollection`) or deletable, in which
case `DeleteFossils` queues its fossils for deletion or resurrection and
`DropCollection` removes the file, which may be before the last tasks are done.
`SelectSnapshots` chooses what to delete (any set, of which the policies of `Retention` choose
one) and queues the chunks; `SaveCollection` waits for the workers and
writes the collection; `DeleteSnapshot` removes one snapshot file;
`FinishPrune`, `FinishDeleteOnly` and `Drained` end the run.  `CrashPrune` kills
it anywhere.  The workers' `Fossilize`, `Resurrect`, `DeleteFossil` and
`DeleteChunk` are one step each.  Tasks carry the number of their batch: a task
can run only when fewer than `Threads` tasks of earlier batches are left, which
is what a first-in-first-out queue and `Threads` workers permit.

`IsDeletable` follows the code, including that the new snapshots of an id end
with the first late one, that a host counts as a whole, that ignored ids are
skipped and that `nil` is returned with `false`.  In exhaustive mode the code
looks up a fossil's path relative to `chunks/` among paths that have that
prefix, so that the fossils of pending collections are treated as orphans;
`ListedPath` and `CollectedPath` model exactly that.

*Operating conditions.*  The code relies on conditions that it neither checks nor
enforces, and that ordinary use can break:

| name | condition |
|---|---|
| `hosts` | no two ids share a host |
| `unprotected` | a first backup, one after a pause of more than seven days and one of an ignored id run only while no prune runs and no collection is pending |
| `exclusive` | an exclusive prune starts with no collection pending; that it runs alone, and is not killed, is always assumed |
| `overlap` | no chunk is fossilized or collected again that a pending collection names or tasks of an earlier batch are left for; any number of collections may be pending |
| `resumed` | the chunks a backup takes over from an incomplete snapshot are still there when it starts |

`Relax` names the conditions that are not assumed.  Under all of them
(`Relax = {}`) the properties are proved and checked in the passing runs; what
they say of the program is limited to uses that keep the conditions.  "Known
limits" below has the counterexample without each.
Always assumed: a prune judges the collections within one tick of the clock of
listing the snapshots, and ids of one host do not back up at the same time.

### EntryList and Backup

`EntryList` holds the pure part of a backup, as functions on the list of
entries: `ListHardLinks` numbers the roots of hard links as the listing meets
them; `Merge` compares the listing with that of an earlier backup, takes over
the chunks of unchanged files and adjusts their indices; `AddUploadedChunk` puts
a chunk in its place whatever the order; `ReadEntries` fills in where the packed
files are, checks every entry and drops those that could not be packed;
`EncodeEntries` (BM `UploadSnapshot`) drops unused chunks, makes the indices
relative and repeats the entry of a root for its links; `ListRemoteFiles`
reads this back.  A chunk is its content, a short sequence of bytes, and stands
for its own hash, so that a wrong index shows as wrong content.  Each loop is a
recursive function on how much of its input is done (`ListingStates`,
`MergeStates`, `ReadStates`, `EncodeStates`, `DecodeStates`) over an operator for
one entry, which is the form the proofs need.

`Backup` runs these functions.  The user's files change and vanish at any time
(`ChangeFile`, `RemovePath`).  `StartBackup` decides between quick and hash mode,
loads the incomplete snapshot (`Resumes`, `Truncated`, `CheckChunks`), lists and
merges.  The main goroutine packs file after file (`OpenFile`, `CutChunk`,
`SetSize`, `SetHash`, `FlushChunk`); a chunk in the cache is reported at once,
others are uploaded by workers in any order (`UploadChunk`, `UploadFails`).  An
error runs `RunAtError` once: `SaveFiles`, `CalculateChecksum` and `SaveChunks`
are three steps between which the main goroutine goes on packing and the process
can be killed.  `UploadSnapshot` writes the snapshot and
`deleteIncompleteSnapshot` follows as a step of its own.  Between two backups
`PruneUnused` takes away what an exhaustive and exclusive prune does: every chunk the
latest snapshot, the only one the model keeps, does not use.  Two history variables
record what that leads to: `pruned`, the chunks it took away that were not
uploaded again, and `unasked`, those of them that a backup took over from an
incomplete snapshot without looking for them.  No guard reads them.  Size and hash of a file
are two assignments in the code; a save between them leaves an entry with a size
and no hash, which `RightEntry` allows.

### Patterns, Listing, ChunkMaker and LocalFiles

`matchPattern` is the code's loop with its one point to come back to; `Matches`
is what it should compute.  `ComparePaths` is the order in which the merge
compares entries, `ListDir` the entries of one directory in the order of their
names.  Paths are sequences of characters with one below the slash and one above
it, which is where the two orders could differ.  `ChunkMaker` has the ring
buffer as an array with a start and a size, the rolling hash with its width and
table as parameters, and one round of the loop in `AddData` as an operator
(`Round`).  `LocalFiles` walks the repository (`ListDirectory`, `ListFails`,
`CloseListing`) and sends the files through the chunk maker from reads of any
length (`OpenNext`, `Read`, `SeeEOF`, `AddRound`, `AddFixed`, `FlushRound`).

### CopySnapshots

The copying process lists what the destination lacks (`Start`,
`ListDestination`), hands one chunk after the other to the downloading pool
(`AddDownload`, `CountDownload`), stops first that pool and then the uploading
one, and writes the snapshot files.  A worker of the first pool downloads a chunk
and, in its completion function, waits for room in the queue of the second
(`SendUpload`) and only then counts the task (`CountUpload`).  Copies fail at any
point and are repeated; the source is pruned and others upload to the
destination meanwhile.

### RestorePlan and ChunkDownloader

`RestorePlan` is the pure part: files in one chunk are moved to the first
occurrence of the chunk, files are sorted by their first chunk, and `AddFiles`
turns chunk indices into task indices, merging a chunk that two neighbours
share.  Indices start with 1.

`ChunkDownloader` runs such a plan.  The restoring thread is sequential (`pc`,
file `f`, task `i`); its steps end wherever it touches the queue or the
completion channel.  `SkipFile`, `RefuseFile` and `StartFile` are the outcomes of
comparing a file with the directory; `Prefetch`, `WaitForChunk`, `LookAhead`,
`Receive`, `UseLocalCopy`, `UseChunk` and `FinishFile` restore it;
`FinishRestore`, `StopWorker` and `Stopped` are the end.  `AddTask` sends a task
and `CountTask`, a step of its own, counts it, as in the code.  Workers take a
task and a buffer (`TakeTask`), fetch or fail (`FetchChunk`, `FailChunk`), block
in the send until `Receive`, and return (`FinishTask`).  Buffers are objects with
an identity, so that two owners of one buffer can be seen; the pool counts how
often each is in it.

### Retention

The snapshots of one id, a clock whose unit is a fraction of a day
(`DayLength`), and prunes that run at any time.  A prune goes through the
snapshots it has read one by one, as the loop in `PruneSnapshots` does:
`SkipSnapshot` for the latest one and for those without a requested tag,
`NextPolicy` for one turn of the inner loop, `Judge` for keeping or flagging,
`FinishPrune` when snapshots or policies have run out.  `i`, `last` and
`flagged` are the code's `i`, `lastSnapshotTime` and `Flag`.  Ages and intervals
are calendar days, as in `getDaysBetween`, whose care for days of 23 hours is
left out.  Policies are sorted by age, which the code's comment demands and the
code does not check.

### StorageSteps, the backends, StorageTasks and ChunkStore

Each method of the storage interface of each of the 19 backends is a *program*:
a sequence of requests, each with what the code does on each answer (go on, skip,
try again, renew the credentials, start over, report success, absence or an
error) and how often it tries.  `ObjectBackends`, `FileBackends`, `IdBackends` and
`B2Backend` hold these programs under the names of the methods (`S3MoveFile`,
`ACDfindPathID`, ...); they are the translation of the backends and of the cloud
clients.  The servers are not part of the repository: `Answer`, `FilesAfter`
and `DirsAfter` say what a request does, as the backends use it.

`StorageTasks` runs the tasks of the chunk operator on these programs: a task is
a small table of method calls (`Fossilize`, `Resurrect`, `UploadChunk`,
`DownloadChunk`, `RewriteChunk`, ...).  Any request may fail in the ways the
backend distinguishes, may be carried out although its answer is lost, and the
process may be killed between any two.  On B2 a fossil is a version behind a
hide marker; Google Drive can hold two files of one name; the id caches of ACD
and Google Drive go stale.

`ChunkStore` is the abstract specification: a chunk is live, a fossil, or both
for a while, and only the tasks that delete remove anything.  `StorageTasks`
instantiates it with `where <- Whereabouts` and checks it as the property
`KeepsChunk`.

## What the runs check

| run | what it shows |
|---|---|
| `fossils_two_hosts` | two ids with a shared chunk, plain and delete-only prunes, revisions up to 3 and 2, three ticks: `Recoverable` and the inductive invariant `IInv` |
| `fossils_many_revisions` | one id, the same prunes, revisions up to 4: `InFlightRecoverable` for a backup that follows one which ended while the collection was made |
| `fossils_all_modes` | one id, all six modes, a storage that lists quickly: `TypeOK`, `TasksFindTheirChunk`, `KeepsSnapshots` (the refinement of `SnapshotStorage`) |
| `backup` | three backups of three paths, two of them links to one file, one change, two uploads at a time, prunes between them: `TypeOK`, `RightContent`, `ChunksStored`, `IncompleteSound`, `IncompleteStored`, `NothingForgotten` |
| `local_files` | every small tree with five filters, every filter of up to four characters on one tree, and three files of every short content: `TypeOK`, `ListedInOrder`, `ListedWhole`, `StreamKept`, `ChunkSizes`, `SameChunks`, `PackingEnds` |
| `copy` | two snapshots that share a chunk, two downloading workers and one that uploads, two copies: `TypeOK`, `DestinationComplete`, `StoppedWhenDone`, `CopyEnds` |
| `restore` | eight restores with two threads: `TypeOK`, `FilesPlanned`, `RightData`, `BuffersOwnedOnce`, `QueueDrains`, `ActiveChunks`, `StoppedWhenIdle`, `RestoreEnds` |
| `retention` | three policies, five backups with and without a tag over six days of two units, any prunes: `TypeOK`, `PolicyHeld`, `HistoryCovered` |
| `backends` | ten kinds of tasks on 19 backends: `TypeOK`, `Truthful`, `ListingComplete`, `WholeFiles`, `KeepsChunk` (the refinement of `ChunkStore`), `TasksEnd` |
| `fossils_exclusive` (violation) | an exclusive prune after a collection that is not deletable loses a chunk of a snapshot |
| `restore_skip` (violation) | a restore hangs at its end when files for which chunks were fetched ahead are unchanged |
| `backup_links` (violation) | a hard link root that is gone when it is packed gives its links the content of another file |

The properties:

- `Recoverable`: each chunk of each snapshot exists, as a chunk or as a fossil (a
  download falls back to the fossil).  `InFlightRecoverable`: the same for what a
  running backup has decided to reference and may still take from its cache.
- `TasksFindTheirChunk`: no worker meets a chunk that is gone, an error that ends
  the prune in the middle of its work.
- `KeepsSnapshots`: all of it together is a storage as `SnapshotStorage` describes
  it, in which a snapshot appears complete and as the newest of its id, stays
  restorable until it is deleted, and is deleted only if a newer one of its id,
  from which running backups have their cache, stays or an exclusive prune has
  decided so.  There are no chunks in that
  specification; what can be restored is computed from them (`s.chunks ⊆ live ∪
  fossil`), so that a lost chunk is a step it does not have.
- `FilesPlanned`: `AddFiles` gives every file tasks that hold, place by place, the
  chunks the snapshot has for it.
- `RightData`: the buffer for each place of each file holds the chunk the
  *snapshot* has there, which depends on the index arithmetic of `AddFiles` as
  much as on the bookkeeping of completions and buffers.
- `BuffersOwnedOnce`, `ActiveChunks`: the books of the buffers and of
  `numberOfActiveChunks` balance at every step.
- `QueueDrains`, `StoppedWhenIdle`, `RestoreEnds`: no circular wait, no worker
  stopped with work left, and a restore into an empty directory ends.
- `PolicyHeld`: at the end of the loop, what is kept and what is flagged is what
  the comment on policies says, stated without the loop: the kept snapshots
  under one policy are an interval apart, and each flagged one has a kept one
  of its policy less than an interval before it.
- `HistoryCovered`: over any sequence of prunes, while snapshots pass from one
  policy to the next, each backup ever made that has not expired has a snapshot
  at most `Reach` days before it, `Reach` being the sum of interval − 1 over
  the policies.

- `RightContent`: every entry of the latest snapshot, decoded as a restore would,
  leads to the bytes that were read (`EntriesRight`), and to those of the file if
  it has not changed since (`CurrentContent`); `ChunksStored`: its chunks are in
  the storage, but for those that were missing when a backup took them over
  unasked (`unasked`).  `LatestComplete`, without that exception, is what
  `BackupResume.cfg` refutes ("Known limits").
- `IncompleteSound`, `IncompleteStored`: what an incomplete snapshot offers after
  any error, with uploads reported in any order and packing going on during the
  save, is right and complete, and its chunks were uploaded: one that is not in the
  storage is one that prune has taken away since.
- `NothingForgotten`: at the end of packing the list can be read to its end, and
  only files that vanished or became empty are missing.
- `ListedInOrder`, `ListedWhole`: entries come in the order the merge compares
  them by, and are exactly those the filters, by the meaning of patterns,
  include.
- `StreamKept`, `SameChunks`: nothing is lost in the ring buffer, and the chunks
  are those a direct definition on the whole stream gives, whatever the reads
  bring.  This is what deduplication rests on.  `ChunkSizes`: chunks are within the
  limits.  `PackingEnds`: `AddData` ends.
- `DestinationComplete`, `StoppedWhenDone`, `CopyEnds`: a snapshot file at the
  destination has its chunks, no pool is stopped with a task left although the
  count lags behind the queue, and the two queues cannot block each other.
- `Truthful`: a method that reports success, or that a file does not exist, tells
  the truth after any retries and lost answers, but for `Exceptions`, which
  names the backend, method and reason of each exception.  `ListingComplete`:
  a listing in pages has every file that was there throughout.  `WholeFiles`: no
  partial file is ever visible under the name of a chunk.  `TasksEnd`: retries
  of requests, methods and tasks together are bounded.

*Bounds.*  Two chunks suffice to have one that only a deleted snapshot uses and
one that is shared.  Two initial
revisions, one to prune and one to stay, leave two more where revisions go up to
4: one that ends with or after the collection, and a backup that follows it.
That second backup is what the comparison of end times and the limited cache
protect, so `fossils_many_revisions` and three configurations of "Known limits"
have it; the
larger instances stop at 3.
`MaxRunningTime = 1` with the clock up to 3 makes repositories dormant within
the bound; in `fossils_all_modes` the clock ends at 2, the least at which a
snapshot can be later than a collection.  One worker thread: more only relax
the order of tasks, which the batches of one run leave free anyway.  The restores have
files that share chunks at both ends, a file of several chunks, a hash that
occurs twice, and two threads, the least at which fetching ahead matters.  The
policies of `retention` have an interval of 0, of 1 and of 2 days, six days are
as many as it takes for a snapshot to come under each of them, and five backups
put three under one policy with one before and the latest after.
Three backups are one that fails, one that resumes it and one that keeps parts
of both; chunks of at most two bytes and files of two make files share chunks at
their ends and files span chunks; one change is enough because all its places in
time are tried.  Chunks of 2 to 4 and 2 to 5 bytes have a ring buffer of four
bytes that wraps in every position.  A copy with fewer workers for uploads than
for downloads has both queues full.  In `backends` requests are retried twice
(`MaxTries`) where the code says up to 20: the second retry is where a count
could go wrong; one answer is lost (`MaxLost`).  What
TLC cannot show for larger instances is proved below.

*Deadlock* is checked in `local_files` and `backends`.  The fossil model, `backup`, `retention`
and `copy` stop at their bounds, and a restore really can stop for ever, which is
the subject of `restore_skip`.

*Fairness.*  `ChunkDownloader`: weak fairness of the restoring thread and of each
worker, since goroutines are scheduled and a download ends, well or badly (its
attempts are limited).  `CopySnapshots`: weak fairness of the main goroutine and
of the workers together, for the same reason.  `LocalFiles` is sequential: weak
fairness of `Next`, written out as a disjunction (either it is finished again and
again, or steps are taken again and again), with the variable `turn` that makes a
round without effect a step.  `StorageTasks`: a request is answered or fails in
the end, and the worker runs on; this is also written out, so that steps of other
clients do not count as progress.  `FossilCollection`, `Retention` and `Backup`
have safety properties only: nothing makes a user run backups or prunes.

Each property of a passing run comes with a mutant: a definition with a
plausible mistake (a dropped check, `>=` for `>`, a missing decrement) defined
just before the one it replaces, with which TLC finds the property violated.

## Known limits

Three findings have a run (see the table and `PROJECT.json`).  The others met on
the way, each with the configuration that reproduces it (`tlc -config X.cfg M`)
or the constant to change:

| what happens | how to see it |
|---|---|
| a repository whose last snapshot is older than seven days does not hold back a collection, though a backup of it may be running (SM:151) and loses a chunk it found | `FossilsDormant.cfg`, `MCFossilCollection` |
| ids of one host vouch for each other (SM:96 "presumably one host can do one backup at a time"), but are listed one after the other: a chunk is lost though the backups never overlap | `FossilsOneHost.cfg`, `MCFossilCollection` |
| a chunk fossilized again while an earlier collection names it is deleted by the criteria of the earlier one (SM:2107) | `FossilsOverlap.cfg`, `MCFossilCollection` |
| with `-persist` the buffer of a failed download is handed over and also returned to the pool (CO:339); another worker overwrites it before the restoring thread looks whether it is broken | `RestorePersist.cfg`, `MCChunkDownloader` |
| on Amazon Cloud Drive a move whose answer is lost leaves the id of the fossil in the cache under the chunk's path, and fossilizing then deletes the fossil | `StorageTasksACD.cfg`, `MCStorageTasks` |
| a backup that resumes takes over chunks of the incomplete snapshot (BM:256); only a first backup on a storage that lists quickly looks for them (BM:230-252, "Make sure that all chunks in the incomplete snapshot must exist in the storage").  An exhaustive and exclusive prune in between removes them (SM:2509), since no snapshot uses them, and the new snapshot lacks them, against BM:210 "Any other chunks will lead to a call to UploadChunk" | `BackupResume.cfg`, `MCBackup`: `LatestComplete` |
| the same on a storage that lists quickly: a `-hash` backup at a later revision lists no chunks; and an incomplete snapshot that was discarded because its chunks are gone outlives the backup if that is killed just before `deleteIncompleteSnapshot`, so that a later `-hash` backup uses it | both are behaviours of `Backup.cfg`, where `LatestComplete` fails |
| with a running fossil collection: a resumed backup refers to chunks of an incomplete snapshot that were fossilized before it started; they are deleted, since the snapshot that makes the collection deletable does not use them | `FossilsResumed.cfg`, `MCFossilCollection` |
| copy asks for a chunk of length 0 at the destination (BM:1906), but uploading finds the name taken and leaves it empty | `EmptyChunks = {a}` in `CopySnapshots.cfg`: `DestinationComplete` |
| a prune of the destination during a copy removes chunks the copy has skipped (BM:1899); a copied snapshot has an old end time, so the fossil collection does not see it as new | `DestinationPruned = TRUE` in `CopySnapshots.cfg`: `DestinationComplete` |
| `matchPattern` takes the second of two adjacent stars literally, so `+**` matches nothing | drop the condition in `ShortPatterns`: `ListedWhole` |

Smaller observations: patterns are compared without the slash of a directory in
a listing (EN:867) and with it in a restore; the branch for symbolic links at
the top of the repository (EN:913) cannot be reached, since `path` is shadowed;
entries in memory are written twice when an incomplete snapshot is saved
(`InMemory = TRUE`; the properties hold all the same); `Exceptions` and
the comments on `ListingComplete` and `TasksEnd` in `StorageTasks` list what
single backends do not keep.

## What is proved

Each theorem holds for every value of the constants that satisfies the
assumptions named in the module of the component; these say no more than that
bounds are numbers, there is at least one thread, and inputs are what the
program can be given.  Further hypotheses are in the theorem itself, and below.

| module | theorems | hypotheses |
|---|---|---|
| `FossilSafetyProofs` | `TypeCorrect` | — |
| | `Invariant` (`IInv`), `Safety` (`Recoverable`), `InFlightSafety` (`InFlightRecoverable`), `WorkersSafe` (`TasksFindTheirChunk`), `LatestStays` (`LatestKept`), `SnapshotsAreKept` (`KeepsSnapshots`) | `Relax = {}`: all operating conditions of `FossilCollection`, which the code does not enforce |
| `CopyProofs` | `PoolInvariant` (`PoolInv`), `TypeCorrect`, `NothingLeftBehind` (`StoppedWhenDone`) | — |
| | `CopiesComplete` (`DestinationComplete`) | no chunk of length 0, and the destination is not pruned during a copy |
| `RetentionProofs` | `TypeCorrect`, `LoopInvariant` (`LoopInv`), `PoliciesHeld` (`PolicyHeld`), `HistoryStaysCovered` (`HistoryCovered`) | — (`PoliciesSorted` is an assumption of the module) |
| `DownloaderProofs` | `TypeCorrect`, `PipelineInvariant` (`PipelineInv`), `StopsWhenIdle` (`StoppedWhenIdle`), `ActiveChunksCounted` (`ActiveChunks`), `QueueAlwaysDrains` (`QueueDrains`) | — |
| | `BufferInvariant` (`BufferInv`), `BuffersHaveOneOwner` (`BuffersOwnedOnce`) | `AllowFailures = FALSE`: no `-persist` |
| | `AddFilesPlans` (of the operators of `RestorePlan`) | of its arguments |
| | `FilesArePlanned` (`FilesPlanned`) | `FromSnapshot`: every plan in `Restores` is made by `AddFiles` from files of a snapshot |
| | `RestoredDataIsRight` (`RightData`) | the same, and `AllowFailures = FALSE` |
| `BackupProofs` | `MergeMakes`, `ReadRight`, `EncodeMakes`, `CodedRead` (of the operators of `EntryList`) | of their arguments |
| | `BackupInvariant` (`IInv`), `BackupTyped` (`TypeOK`), `SnapshotRight` (`EntriesRight`, half of `RightContent`), `IncompleteRight` (`IncompleteSound`) | — |
| | `SnapshotStored` (`ChunksStored`), `SavedChunksStored` (`IncompleteStored`) | — (both except chunks that prune took away, as said above) |
| | `NothingLost` (`NothingForgotten`) | `RootsMayFail = FALSE`: hard link roots stay, and not empty, during a backup |
| `PackingProofs` | `PackingInvariant` (`PackingInv`), `StreamIsKept` (`StreamKept`), `ChunkSizesKept` (`ChunkSizes`), `EverythingIsPacked` (`AllPacked`) | — |
| `StorageProofs` | `FilesAreWhole` (`WholeFiles`), `ListingsAreComplete` (`ListingComplete`) | — (`TasksAssumption`: the kinds are among the 19 backends, the tasks among the ten) |
| | `ChunksAreKept` (`KeepsChunk`: the tasks implement `ChunkStore`) | `kind \notin {"acd", "b2"}` |

The inductive invariants (`PoolInv`, `LoopInv`, `PipelineInv`, `BufferInv`,
`PackingInv`, `IInv` and `LinkInv` of `BackupProofs`, and `DirsInv`, `ListInv` and
`KeepInv` of `StorageProofs`; that of `FossilInvariant` is part of
a run) were
checked with TLC before they were proved (`FilesInv` of `StorageProofs` was proved directly); to see it again, add the name to the
INVARIANTS of the component's configuration.  The plans of the
`restore` run come from `PlansFor`, as `FromSnapshot` asks.  Without any of the other
hypotheses the theorem is false, and "Known limits" has the counterexample.

### Fossil collection

`Recoverable` is not inductive: whether deleting a fossil is harmless depends
on what the collection knew and on what prune has missed.  `IInv` says so:

- `OldSnapshotsSafe`: the snapshots a pending collection knew, other than those
  it deletes, use none of its fossils, and later ones are recognizable as new;
- `LateSnapshotCovers`: if an id has a snapshot that ended after the collection,
  every later snapshot and backup of the id uses fossils only if that snapshot
  uses them too (they come from the cache) or if they are chunks again.  This is
  why the loop in `IsDeletable` may stop at the first late snapshot, why the
  cache may hold chunks of the latest revision only, and why the latest revision
  must stay;
- `ListingMisses`: a snapshot committed after its id was listed, and a backup
  still running, is of an id that has a recent listed snapshot, hence is not
  dormant, hence must have a listed late snapshot before its collection goes;
- `CollectingSafe`, `TasksSafe`, `CollectionsApart` (pending collections, the one
  in the making and the tasks left share no chunk), `ExclusiveAlone`,
  `RunningProtected`, `SnapshotsInOrder`: what the steps in between rely on.

The proof has one lemma per action (or per few alike), `DeletedFossilsUnneeded`
being the heart: a fossil about to be deleted is needed by nobody unless it is a
chunk again.

`SnapshotsAreKept` maps `snapshots` to the snapshot files no exclusive prune has
decided to delete, and `restorable` to those of which every chunk is there.
`NeededExist` makes the two the same (`StandingRestorable`); a commit then maps
to `Commit` because `ExclusiveAlone` and `SnapshotsInOrder` hold, deleting a file
to `Delete` because `CollectingSafe` keeps a newer one, and a worker's error
never ends an exclusive prune half way because of `TasksSafe`.

### Copy

The count of each pool is raised only after a task was sent, in one pool by the
main goroutine and in the other by the workers of the first, so that "nothing
counted" does not say "nothing queued".  `PoolInv` has the exact difference
(`Counts`: what was sent and is not counted yet), with `OnePlace`: a chunk is in
one place of each pool.  Stop is reached only when the main goroutine has
counted, and the second only when the first pool is empty; that is where both
differences are 0.  `CopiesComplete` adds `Copied`: each chunk of a snapshot under
way is at the destination or on its way there.

### Retention

`LoopInv` is about the part of the loop that is done: the kept snapshots under
each policy are an interval apart (`Apart`), each flagged one is close to a kept
one (`Close`), `lastSnapshotTime` is the newest kept under the current policy
(`LastKept`), and the snapshots left are too young for the policies passed
(`PoliciesPassed`).  `HistoryCovered` is not inductive,
since the snapshot that covers a backup can be deleted: `Represented` says that a
snapshot stands for each backup *under a policy*, at a distance of at most what
that policy and those the backup has not reached may still add, and that it is
settled there: nothing that is left before it is closer than an interval.  A settled
snapshot is never deleted under its policy, which is why prunes do not add up.

### Restore

`PipelineInv` says where tasks are: each started task is in one place, queued, in
a worker's hand or completed (`OnePlace`); the thread goes through the tasks in
order and what was reclaimed is behind it (`Position`); `active` is the number of
those tasks, and exceeds the number of threads by one at most, namely by the
chunk the thread has asked for (`Limited`); the operator's count lags behind by
the one task the thread has sent and not counted (`Counts`).  `QueueDrains`
follows by counting: with all workers in the send and the queue full there would
be twice as many active tasks as threads, besides the one last asked for.  While the thread is in the look-ahead the
count may be about to grow (`pc = "ahead"`), which is why the property speaks of
the turns that do add a task.

`BufferInv` adds that a buffer is in the pool, or with one task, or with one
worker (`Owned`), and holds what was downloaded for that task (`Filled`).
`RestoredDataIsRight` then needs of the index arithmetic of `AddFiles` exactly
`Planned`, of each plan.  `AddFilesPlans` proves it for any files of any snapshot: the
last task made so far is for the chunk the last file ended with (`EndsWith`), so
that a file which begins with that chunk may begin in that task; a file in a
single chunk has the same data in the first chunk with that hash
(`FirstChunkSame`); and sorting leaves every file in the list once.  It also shows
that plans are as `ChunkDownloader` assumes (`Plans`, here `Shaped`).

### Packing

The buffer is a function on `0 .. capacity - 1`, and `Buffered` the sequence read
from it around the end.  The proof is that `Put` appends the bytes read to that
sequence wherever start and size are (`PutBuffers`), and that moving bytes to
the chunk takes them from its front (`FillMoves`, `ScanBytes`), also when the scan
for a boundary stops early.  `StreamKept` and `ChunkSizes` are inductive together
with `PackingInv`, which bounds start, size, hash position and the chunk in
hand.  That a chunk is not cut below the minimum holds because the first
`minimumChunkSize` bytes are moved without looking (`Fits`).
Sequences put one after the other (`FlattenSeq` of the community modules) are a
recursive function; that it exists and what it gives for one element more are
proved from a smallest counterexample (`CommonLemmas`).

### Backup

The operators of `EntryList` come first, for lists of any length.  Each recursive
function has an invariant of its states (`Reading`, `MergeType`, `Coding`, `Ends`),
which every entry keeps; that it holds at the end is again proved from a smallest
counterexample, one function at a time.  An entry of which the index is right in
one list of chunks stays right when chunks are added at the end (`StillRight`), when
the list is taken over in part (`RightMoves`), and when its index is made relative
(`Coded`).  So a merge offers only right entries (`MergeMakes`), reading the list adds
only right ones (`ReadRight`), encoding keeps them right, also where a hard link
repeats its root and with unused chunks dropped (`EncodeMakes`), and what
`ListRemoteFiles` reads is right (`CodedRead`).

`EntriesRight` says nothing of a backup under way, and is far from inductive.  `IInv`
adds, with `C` standing for the chunks cut so far, in order:

- `Uploading`: each chunk of `C` is reported at its place in the list or is being
  uploaded for that place, whatever the order; places not reported are empty;
- `Packing`: with `pos` the place of each modified file in what was read, which is
  `C`, then the buffer, a file that has its size and hash has them of the bytes from
  its place on; those after the one in hand have neither;
- `LaidIn`: what is left of that where the upload ended early, as in an incomplete
  snapshot: a file of which all bytes were uploaded has them at its place;
- `Backed`: a chunk in the cache is in the storage or being uploaded, and one that is
  reported is in the storage or being uploaded *for a smaller index*.  This is
  why a list cut off at the first chunk not uploaded (`Truncated`) has all its chunks
  in the storage, although a second copy of a chunk is reported before the
  first is uploaded;
- `KeptRight`: the entries taken over from an earlier backup are right in the chunks
  taken over with them;
- `SavedInv`: what the two files of the incomplete snapshot hold, whichever steps of
  the save have been done, and by which run (`token`).

`Safe`, the set the chunks are kept in, is the storage with the chunks taken over unasked
(`unasked`), and `Ever`, for an incomplete snapshot, the storage with those prune took
away (`pruned`).  Loading an incomplete snapshot turns one into the other: where its
chunks are listed they are in the storage, and where not, those missing become
`unasked`.

`NothingForgotten` needs more of the list, and of the hard links in it.  `LinkInv`
adds to `IInv`:

- `Roots`: a hard link refers to a root before it, counted over the entries; the merge
  keeps entries one for one, so that this holds of the list as of the listing;
- `InOrder`, `Distinct`: the files to be packed are the incomplete entries, in the
  same order, and a path is there once;
- `RootsThere`, `RootsPacked`: roots still to be packed are present and not empty, and
  packed ones are not empty.  Here `RootsMayFail = FALSE` comes in; the `backup` run has
  the same condition, and `BackupLinks.cfg` the counterexample without it.

At the end of packing all bytes read are in chunks that were reported (`Full`).  Reading
the list then finds each file within the chunks (`FillGood`) and its root count equal to
that of the list (`ReadWhole`), and so the encoding never looks for a root that is
missing (`EncodeWhole`).

### Storage backends

`FilesInv` says that each file name has a sequence of copies, that those of the chunk
and of the fossil are never partial, and which calls can be under way.  A partial copy
comes from a write that is interrupted.  The programs of the backends are gone
through one by one: most write a file in one request and otherwise only move, copy or
delete what is there (`MildPrograms`).  The uploads of the local, the Samba and the SFTP
backend write to a temporary file and rename it; what they need is that the file is whole
when the program comes to the renaming, and it is because the renaming is reached
only from a write that was answered (`UploadsThroughTemp`), and because no other
client touches that temporary file.

`ListingComplete` speaks of the end of a listing only.  `ListInv` says what a listing
under way has of the names that were there all the time: those in the directories it is
done with, and those up to the last name of the page it is at; and such names are still
there.  A page continues after the last name of the page before, so that files other
clients add and remove in between move nothing (`ListPaged`, `LastPage`), and the
programs, again one by one, return only when each directory has been listed to its end
(`GoodLists`); a listing that starts over has seen more than it needs.  Three backends
(local, Samba, File Fabric) also return when the directory does not exist.  That
is sound because they have no file without it, which is `DirsInv`: uploads create a file
only in a directory that is there, no request of theirs removes one, and between the
creation of the temporary file and its writing it stays.

`KeepsChunk` is a refinement, and `ChunksAreKept` shows it for 17 of the 19 backends.
A request changes where the chunk is only in the ways of its method (`Effect`): an
upload adds the live chunk, a deletion removes the one it names, and a move adds its target
and may remove its source, at once or not.  The programs are gone through once more
for the requests they make (`ProgramsFit`), and two facts are needed that depend on the
order of requests.  Where a move is a copy and a deletion, the deletion is
reached only after a copy that was answered (`CopyPrograms`), and a look-up reports a
file only after a request that found it (`LookPrograms`).  `KeepInv` carries these
facts from step to step: the target is there when such a move comes to its
deletion, the file is there that a look-up found, and so a task that
fossilizes or resurrects, which deletes one file only after it found the other, never
deletes the last.  Every request then is a step of `ChunkStore` or changes nothing
(`RequestMoves`), and so is every other step (`StoreSteps`).  The theorem leaves out
two backends: on Amazon Cloud Drive the property is false (see the findings), and on
B2 a fossil is a version behind a hide marker, so that deleting the fossil makes
the chunk live for a moment, which `ChunkStore` does not allow; the run skips that
task too (`NotKept`), and checks the others there.

### Only model-checked

- Liveness (`RestoreEnds`, `CopyEnds`, `PackingEnds`, `TasksEnd`) and every use of
  fairness: out of the prover's reach.
- `CurrentContent`, the half of `RightContent` about files that have not changed since.
  It would need an invariant that follows the time and the file of each root from the
  listing through the merge, and the content of files saved before their hash is set.
- `ListedInOrder`, `ListedWhole` and `TypeOK` of `LocalFiles`: the listing sorts, and
  patterns are matched by a recursive function on positions.  `SameChunks`
  compares with a recursive definition on the whole stream.
- `TypeOK` and `Truthful` of `StorageTasks`, and `KeepsChunk` on Amazon Cloud Drive and
  B2: the 19 backends are fixed programs and the state is finite but for the numbers of
  retries and lost answers, so that a run is close to exhaustive.
- What happens under relaxed conditions (ids that share a host, backups of dormant or
  ignored ids during a collection, chunks collected twice, resuming with chunks gone,
  exclusive prunes with collections pending), with `-persist`, with empty chunks and
  with a pruned destination: there the properties fail, see above.

## Not modelled

Dry runs; temporary files; parsing of the retention options, of filter files and
of storage URLs; regular expressions as patterns; the local snapshot cache and its
cleaning; several pruning repositories at once; chunks at several nesting levels;
two tasks on the same chunk of a backend at once; listing all chunks as more
than one step (exhaustive prune and first backups); links and metadata in a
restore; changes to the directory while it is restored; hard links whose root is
left out by an attribute.

The command line, preferences, keyring, shadow copies, extended attributes, file
flags and the benchmark are input and output or calls to the operating system,
keep no state that outlives a call, and are left out altogether.  So are
encryption, compression and erasure coding: a chunk is its hash, and a download
gives the right data or fails.

## Plan

1. Proofs: the step simulation of `ChunkStore` for the tasks of one backend;
   `CurrentContent`, without `RootsMayFail`.
2. Nesting levels in `FindChunk`, and a download against a running prune on one
   backend.
