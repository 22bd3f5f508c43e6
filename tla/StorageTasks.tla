---------------------------- MODULE StorageTasks ----------------------------
(***************************************************************************)
(* The tasks of the chunk operator (duplicacy_chunkoperator.go) on one     *)
(* chunk, down to the requests its storage backend sends: each task calls  *)
(* methods of the Storage interface, each method is a program of requests  *)
(* (StorageBackends), each request may fail, may be tried again, and may   *)
(* be carried out although its answer is lost.  The process may be killed  *)
(* at any point; other clients add and remove other files meanwhile.       *)
(***************************************************************************)
EXTENDS StorageBackends, FiniteSets

CONSTANTS Kinds,        \* the backends
          TaskKinds,    \* the tasks that are run
          MaxTries,     \* a bound on the retries of a request
          MaxLost,      \* how many answers to carried-out requests may be lost
          Losing,       \* the backends whose answers may be lost
          Skipped,      \* the pairs of backend and task that are left out
          MaxVersions   \* a bound on the copies of a file that pile up

ASSUME TasksAssumption ==
    /\ Kinds \subseteq {"s3", "s3c", "wasabi", "azure", "gcs", "storj", "dropbox", "swift", "hubic", "file", "samba", "sftp",
                        "webdav", "onedrive", "business", "acd", "gcd", "filefabric", "b2"}
    /\ TaskKinds \subseteq {"upload", "download", "rewrite", "fossilize", "resurrect", "delete fossil", "delete chunk",
                            "list", "revisions", "directory"}

VARIABLES kind,    \* the storage's backend
          srv,     \* the server: the versions or copies of each file, newest first
          dirs,    \* the server's directories
          other,   \* whether another client's file is there
          ids,     \* the directory or id cache: name -> where that file now is
          task,    \* the task, the step it is at and how often it started over
          call,    \* the method call in progress
          res,     \* its result, "" until it returns
          pc,      \* the step of its program
          tries,   \* how often this request, and the whole program, were retried
          login,   \* 0, or the step of the login program in progress
          did,     \* whether an earlier try of this request was carried out
          buf,     \* what DownloadFile has put into the chunk
          cursor,  \* where the listing is: names seen, names there all the time
          lost     \* how many answers have been lost

vars == <<kind, srv, dirs, other, ids, task, call, res, pc, tries, login, did, buf, cursor, lost>>

Files == {"chunk", "fossil", "temp"}
Names == Files \cup {"dir", "fossildir", "chunk.fsl"}

NoCall == Call("none", "", "")
NoTask == [op |-> "none", at |-> "", attempt |-> 0]
NoTries == [request |-> 0, program |-> 0, login |-> 0]
NoCursor == [last |-> 0, seen |-> {}, throughout |-> {}]

\* A process starts with what its backend looks up when it connects.
NoIds == [n \in Names |-> "none"]

There(n) == n \in Files /\ srv[n] # <<>>

\* On B2 a chunk is live if its latest version is not a marker, and a fossil if
\* there is a version behind a marker.
Whereabouts ==
    IF kind = "b2"
    THEN {p \in {"chunk"} : There("chunk") /\ Head(srv["chunk"]) # "hide"} \cup
         {p \in {"fossil"} : \E i, j \in DOMAIN srv["chunk"] :
                                i < j /\ srv["chunk"][i] = "hide" /\ srv["chunk"][j] # "hide"}
    ELSE {p \in {"chunk", "fossil"} : There(p)}

----------------------------------------------------------------------------
(* The tasks.  A step of a task calls a method and goes on by its result.  *)

\* FindChunk (with one nesting level): an error of GetFileInfo is not returned;
\* the chunk counts as missing.
FindChunk(a, found, missing) ==
    [call |-> Call("GetFileInfo", a, a), ok |-> found, absent |-> missing, error |-> missing]

Do(c, ok, error) == [call |-> c, ok |-> ok, absent |-> ok, error |-> error]

\* (Mutant: a failed move counts as "the fossil already exists".)
FossilizeUnchecked ==
    [find    |-> FindChunk("chunk", "move", "already"),
     already |-> FindChunk("fossil", "done", "fatal"),
     move    |-> Do(Call("MoveFile", "chunk", "fossil"), "done", "delete"),
     delete  |-> Do(Call("DeleteFile", "chunk", "chunk"), "done", "done")]

Fossilize ==
    [find    |-> FindChunk("chunk", "move", "already"),
     already |-> FindChunk("fossil", "done", "fatal"),
     move    |-> Do(Call("MoveFile", "chunk", "fossil"), "done", "exists"),
     exists  |-> FindChunk("fossil", "delete", "fatal"),
     delete  |-> Do(Call("DeleteFile", "chunk", "chunk"), "done", "done")]

Resurrect ==
    [find   |-> FindChunk("chunk", "delete", "move"),
     delete |-> Do(Call("DeleteFile", "fossil", "fossil"), "done", "done"),
     move   |-> Do(Call("MoveFile", "fossil", "chunk"), "done", "fatal")]

DeleteTask(path) == [find |-> Do(Call("DeleteFile", path, path), "done", "done")]

UploadChunk ==
    [find |-> FindChunk("chunk", "done", "put"),
     put  |-> Do(Call("UploadFile", "chunk", "chunk"), "done", "fatal")]

\* DownloadChunk; "missing", "failed", "verify" are decided in RetryDownload.
DownloadChunk ==
    [find   |-> FindChunk("chunk", "get", "fossil"),
     fossil |-> FindChunk("fossil", "getfsl", "missing"),
     get    |-> Do(Call("DownloadFile", "chunk", "chunk"), "verify", "failed"),
     getfsl |-> Do(Call("DownloadFile", "fossil", "fossil"), "verify", "failed")]

\* A chunk that the download found in need of it is written again; the move is
\* left out if it is a fossil, and errors are only warnings.
RewriteChunk ==
    [find |-> FindChunk("chunk", "move", "put"),
     move |-> Do(Call("MoveFile", "chunk", "fossil"), "put", "put"),
     put  |-> Do(Call("UploadFile", "chunk", "chunk"), "done", "done")]

Steps(op) ==
    CASE op = "fossilize"     -> Fossilize
      [] op = "resurrect"     -> Resurrect
      [] op = "upload"        -> UploadChunk
      [] op = "download"      -> DownloadChunk
      [] op = "rewrite"       -> RewriteChunk
      [] op = "delete fossil" -> DeleteTask("fossil")
      [] op = "delete chunk"  -> DeleteTask("chunk")
      [] op = "list"          -> [find |-> Do(Call("ListFiles", "chunks", "chunks"), "done", "fatal")]
      [] op = "revisions"     -> [find |-> Do(Call("ListFiles", "snapshots", "snapshots"), "done", "fatal")]
      [] op = "directory"     -> [find |-> Do(Call("CreateDirectory", "dir", "dir"), "done", "fatal")]

\* Every program, worked out once.
Calls == UNION {{Steps(op)[at].call : at \in DOMAIN Steps(op)} : op \in TaskKinds}

Idle == task = NoTask
Prog == Program(kind, call)
Current == IF login > 0 THEN LoginProgram(kind)[login] ELSE Prog[pc]
InCall == call # NoCall /\ pc \in 1..Len(Prog)

----------------------------------------------------------------------------
(* The server: what it answers if nothing goes wrong, and what it does.    *)

\* The directory a file of this storage is in.
DirOf(n) == IF kind \in Converting THEN ParentOf(n) ELSE "dir"
HasDir(n) == kind \in NeedsDirectory => DirOf(n) \in dirs

Moving(a, b) == CASE ~There(a) -> "notfound" [] There(b) -> "exists" [] ~(DirOf(b) \in dirs) -> "nodir" [] OTHER -> "ok"

\* The names under a directory, in the order of the listing.
Listable(dir) ==
    CASE dir = "chunks"    -> <<"a", "chunk", "fossil">>
      [] dir = "live"      -> <<"a", "chunk">>
      [] dir = "fossils"   -> <<"fossil">>
      [] dir = "snapshots" -> <<"a", "s">>

Present(n) == CASE n = "s" -> TRUE [] n = "a" -> other [] OTHER -> n \in Whereabouts

\* What is left of a directory after position i: one name to a page.
Remaining(dir, i) == {j \in DOMAIN Listable(dir) : j > i /\ Present(Listable(dir)[j])}

\* The version of a purge that goes next: the latest marker, then what was behind it.
LatestMarker == CHOOSE i \in DOMAIN srv["chunk"] : srv["chunk"][i] = "hide" /\ \A j \in 1..(i-1) : srv["chunk"][j] # "hide"
HasMarker == \E i \in DOMAIN srv["chunk"] : srv["chunk"][i] = "hide"
PurgeAt == IF cursor.last > 0 THEN cursor.last ELSE IF HasMarker THEN LatestMarker ELSE Len(srv["chunk"]) + 1

Found(yes) == IF yes THEN "ok" ELSE "notfound"

Answer(verb, a, b) ==
    CASE verb = "pages"              -> IF Cardinality(Remaining(a, cursor.last)) > 1 THEN "more" ELSE "ok"
      [] verb = "readdir"            -> IF a = "snapshots" \/ "dir" \in dirs THEN "ok" ELSE "nodir"
      [] verb \in {"stat", "get", "delete", "find", "lookup"} ->
             IF a \in {"dir", "fossildir"} THEN Found(a \in dirs) ELSE Found(There(a))
      [] verb = "cached"             -> Found(ids[a] # "none")
      [] verb = "getid"              -> Found(ids[a] \in Files)
      [] verb = "trash"              -> Found(ids[a] # "gone")
      [] verb = "statdir"            -> IF a \in dirs \cup {"root"} THEN "ok" ELSE "nodir"
      [] verb \in {"mkdir", "mkdirsave"} -> IF a \in dirs /\ kind # "gcd" THEN "exists" ELSE "ok"
      [] verb \in {"put", "putmore", "create"} -> IF HasDir("chunk") THEN "ok" ELSE "nodir"
      [] verb = "putonce"            -> IF There(a) THEN "exists" ELSE "ok"
      [] verb = "copy"               -> Found(There(a))
      [] verb = "rename"             -> Found(There(a))
      [] verb = "move"               -> IF kind \in Converting THEN Moving(a, b)
                                        ELSE IF There(a) /\ There(b) THEN "exists" ELSE Found(There(a))
      [] verb = "moveid"             -> IF ids[a] # a THEN "notfound" ELSE Moving(a, b)
      [] verb = "reparent"           -> Found(did \/ There(a))
      [] verb = "head"               -> Found("chunk" \in Whereabouts)
      [] verb = "hidden"             -> Found(There("chunk") /\ Head(srv["chunk"]) = "hide")
      [] verb = "hide"               -> IF "chunk" \in Whereabouts THEN "ok" ELSE "exists"
      [] verb = "delversion"         -> Found(~did /\ There("chunk"))
      [] verb = "purge"              -> CASE did -> "notfound" [] PurgeAt < Len(srv["chunk"]) -> "more" [] OTHER -> "ok"
      [] verb = "getlast"            -> Found(\E i \in DOMAIN srv["chunk"] : srv["chunk"][i] # "hide")
      [] OTHER                       -> "ok"

Without(s, i) == [j \in 1..(Len(s)-1) |-> IF j < i THEN s[j] ELSE s[j+1]]

\* The files after a request that is carried out.
FilesAfter(verb, a, b) ==
    CASE verb \in {"put", "putonce"}      -> [srv EXCEPT ![a] = <<"whole">>]
      [] verb \in {"putmore", "upload"}   -> [srv EXCEPT ![a] = <<"whole">> \o @]
      [] verb = "create"                  -> [srv EXCEPT ![a] = <<"part">>]
      [] verb = "write"                   -> [srv EXCEPT ![a] = <<"whole">>]
      [] verb = "copy"                    -> [srv EXCEPT ![b] = srv[a]]
      [] verb \in {"rename", "move", "moveid"} -> [srv EXCEPT ![b] = srv[a], ![a] = <<>>]
      [] verb = "reparent"                -> IF did THEN srv ELSE [srv EXCEPT ![b] = <<Head(srv[a])>> \o srv[b], ![a] = Tail(srv[a])]
      [] verb = "delete"                  -> [srv EXCEPT ![a] = Tail(@)]
      [] verb = "trash"                   -> IF ids[a] \in Files THEN [srv EXCEPT ![ids[a]] = Tail(@)] ELSE srv
      [] verb = "hide"                    -> [srv EXCEPT !["chunk"] = <<"hide">> \o @]
      [] verb = "delversion"              -> [srv EXCEPT !["chunk"] = Tail(@)]
      [] verb = "purge" /\ PurgeAt \in DOMAIN srv["chunk"] -> [srv EXCEPT !["chunk"] = Without(@, PurgeAt)]
      [] OTHER                            -> srv

DirsAfter(verb, a) == IF verb \in {"mkdir", "mkdirsave"} THEN dirs \cup {a} ELSE dirs

\* The ids in the cache follow their files.
Follow(verb, a, b) ==
    CASE verb = "moveid" -> [n \in Names |-> IF ids[n] = a THEN b ELSE ids[n]]
      [] verb = "trash"  -> [n \in Names |-> IF ids[n] = ids[a] THEN "gone" ELSE ids[n]]
      [] OTHER           -> ids

\* Requests that change something on the server.
Changing == {"put", "putonce", "putmore", "upload", "copy", "rename", "move", "moveid", "reparent",
             "delete", "trash", "hide", "delversion", "purge", "mkdir", "mkdirsave"}

----------------------------------------------------------------------------
Init ==
    /\ kind \in Kinds
    /\ IF kind = "b2"
       THEN \E v \in {<<>>, <<"whole">>, <<"hide", "whole">>} :
               srv = [chunk |-> v, fossil |-> <<>>, temp |-> <<>>]
       ELSE \E v, w \in {<<>>, <<"whole">>} :
               srv = [chunk |-> v, fossil |-> w, temp |-> <<>>]
    /\ dirs \in SUBSET {"dir", "fossildir"}
    /\ \A n \in Files : There(n) => DirOf(n) \in dirs
    /\ other \in BOOLEAN /\ (other => "dir" \in dirs)
    /\ ids = NoIds /\ task = NoTask /\ call = NoCall /\ res = ""
    /\ pc = 1 /\ tries = NoTries /\ login = 0 /\ did = FALSE
    /\ buf = "empty" /\ cursor = NoCursor /\ lost = 0

\* Before the first request of a call.
Enter(c) ==
    /\ call' = c /\ res' = "" /\ pc' = 1 /\ tries' = NoTries /\ login' = 0 /\ did' = FALSE
    /\ cursor' = IF c.op = "ListFiles"
                 THEN [NoCursor EXCEPT !.throughout = {n \in {Listable(c.a)[i] : i \in DOMAIN Listable(c.a)} : Present(n)}]
                 ELSE NoCursor

Leave == call' = NoCall /\ res' = "" /\ pc' = 1 /\ tries' = NoTries /\ login' = 0 /\ did' = FALSE /\ cursor' = NoCursor

\* A task is taken from the queue.  Fossilizing starts from the path a listing
\* gave or, without one, by finding the chunk.
Begin(op, at) ==
    /\ task = NoTask
    /\ \A n \in Files : Len(srv[n]) < MaxVersions
    /\ <<kind, op>> \notin Skipped
    /\ at = "find" \/ (op = "fossilize" /\ at = "move")
    /\ task' = [op |-> op, at |-> at, attempt |-> 0]
    /\ Enter(Steps(op)[at].call)
    /\ buf' = "empty"
    /\ UNCHANGED <<kind, srv, dirs, other, ids, lost>>

\* The process ends, by an error or killed; the next one knows nothing.
Exit ==
    /\ task' = NoTask /\ ids' = NoIds /\ buf' = "empty" /\ Leave
    /\ UNCHANGED <<kind, srv, dirs, other, lost>>

Crash == task # NoTask /\ Exit

OtherClient ==
    /\ other' = ~other
    /\ dirs' = dirs \cup {"dir"}
    /\ cursor' = [cursor EXCEPT !.throughout = @ \ {"a"}]
    /\ UNCHANGED <<kind, srv, ids, task, call, res, pc, tries, login, did, buf, lost>>

\* The position after an answer that says how to go on in the program.
Advance(then) == CASE then = "next" -> 1 [] then = "skip" -> 2 [] then = "skip2" -> 3 [] then = "skip3" -> 4 [] OTHER -> 0
Moves == {"next", "skip", "skip2", "skip3"}

\* (Mutant: one retry too many.)
VerdictOffByOne(step, answer, count) ==
    LET then == step.on[answer]
        limit == IF step.tries < MaxTries THEN step.tries ELSE MaxTries
    IN  IF then \in {"again", "login", "restart"} /\ count > limit THEN step.spent[answer] ELSE then

\* What an answer leads to, the retries counted.
Verdict(step, answer, count) ==
    LET then == step.on[answer]
        limit == IF step.tries < MaxTries THEN step.tries ELSE MaxTries
    IN  IF then \in {"again", "login", "restart"} /\ count >= limit THEN step.spent[answer] ELSE then

\* A request of the login program; if it fails so does the method, except on B2.
Login ==
    /\ res = "" /\ login > 0
    /\ \E answer \in {"ok"} \cup (FaultsOf(kind) \ {"notfound"}) :
          LET then == Verdict(Current, answer, tries.login)
              done == then = "next" /\ login = Len(LoginProgram(kind))
          IN  /\ login' = CASE then = "again" -> login [] then = "next" /\ ~done -> login + 1 [] OTHER -> 0
              /\ tries' = IF then = "again" THEN [tries EXCEPT !.login = @ + 1] ELSE [tries EXCEPT !.login = 0]
              /\ res' = IF then = "fail" /\ kind # "b2" THEN "error" ELSE ""
    /\ UNCHANGED <<kind, srv, dirs, other, ids, task, call, pc, did, buf, cursor, lost>>

\* What the client keeps of an answer: pages of a listing, ids, data.
Listed(step, got) == {Listable(step.a)[i] : i \in got}
Page(step) ==
    LET rest == Remaining(step.a, cursor.last)
    IN  IF step.verb = "readdir" THEN rest
        ELSE {i \in rest : \A j \in rest : i <= j}

Learn(step) ==
    LET v == step.verb
        after == Follow(v, step.a, step.b)
    IN  CASE v \in {"lookup", "mkdirsave"}    -> [after EXCEPT ![step.a] = step.a]
          [] v = "reid" /\ step.a = step.b   -> [after EXCEPT ![step.a] = step.a]
          [] v = "reid" /\ step.a # step.b   -> [after EXCEPT ![step.b] = after[step.a], ![step.a] = "none"]
          [] v = "pages" /\ kind = "acd"     ->
                [n \in Names |-> IF n \in Listed(step, Page(step)) THEN n ELSE after[n]]
          [] OTHER                           -> after

\* The outcome of the request in progress, given its answer.
Conclude(step, answer) ==
    LET then == Verdict(step, answer, IF step.on[answer] = "restart" THEN tries.program ELSE tries.request)
    IN  /\ pc' = CASE then \in Moves -> pc + Advance(then) [] then = "restart" -> 1 [] OTHER -> pc
        /\ res' = CASE then = "return" -> "ok" [] then = "absent" -> "absent" [] then = "fail" -> "error"
                    [] then \in {"hang", "panic"} -> then
                    [] then \in Moves /\ pc + Advance(then) > Len(Prog) -> "ok" [] OTHER -> ""
        /\ login' = IF then = "login" THEN 1 ELSE 0
        /\ \E counted \in (IF kind = "b2" /\ then = "login" THEN {0, 1} ELSE {1}) :
              tries' = CASE then \in {"again", "login"} -> [tries EXCEPT !.request = @ + counted]
                         [] then = "restart" -> [NoTries EXCEPT !.program = tries.program + 1]
                         [] OTHER -> [tries EXCEPT !.request = 0]

\* The request is answered as it should be.
Answered ==
    /\ res = "" /\ login = 0 /\ InCall
    /\ LET step == Prog[pc]
           answer == Answer(step.verb, step.a, step.b)
           moved == Verdict(step, answer, tries.request) # "stay"
       IN  /\ Conclude(step, answer)
           /\ srv' = IF answer \in {"ok", "more"} THEN FilesAfter(step.verb, step.a, step.b) ELSE srv
           /\ dirs' = IF answer = "ok" THEN DirsAfter(step.verb, step.a) ELSE dirs
           /\ ids' = IF answer \in {"ok", "more"} \/ (step.verb = "mkdirsave" /\ answer = "exists") THEN Learn(step) ELSE ids
           /\ buf' = IF step.verb = "read" THEN (IF buf = "empty" THEN "whole" ELSE "damaged") ELSE buf
           /\ cursor' = CASE step.verb \in {"pages", "firstpage", "readdir"} /\ answer \in {"ok", "more"} ->
                               [cursor EXCEPT !.seen = @ \cup Listed(step, Page(step)),
                                              !.last = IF moved THEN 0 ELSE CHOOSE i \in Page(step) : TRUE]
                          [] step.verb = "purge" -> [cursor EXCEPT !.last = IF moved THEN 0 ELSE PurgeAt]
                          [] OTHER -> cursor
           /\ did' = (did /\ Verdict(step, answer, tries.request) = "again")
    /\ UNCHANGED <<kind, other, task, call, lost>>

\* The request fails.  If the connection breaks it may have been carried out;
\* a download that breaks off leaves what it has read.
Failed ==
    /\ res = "" /\ login = 0 /\ InCall
    /\ LET step == Prog[pc]
           local == step.verb \in {"cached", "reid", "hidden"}
           fine == Answer(step.verb, step.a, step.b) \in {"ok", "more"}
       IN  \E answer \in IF step.verb = "idsaved" THEN {"notfound"} ELSE FaultsOf(kind) :
             /\ ~local
             /\ answer = "notfound" => step.verb \in {"stat", "get", "idsaved"}
             /\ Conclude(step, answer)
             /\ \/ UNCHANGED <<srv, dirs, ids, lost>> /\ did' = (did /\ pc' = pc /\ res' = "")
                \/ /\ answer = "drop" /\ step.verb \in Changing /\ fine /\ kind \in Losing /\ lost < MaxLost
                   /\ lost' = lost + 1
                   /\ srv' = FilesAfter(step.verb, step.a, step.b)
                   /\ dirs' = DirsAfter(step.verb, step.a)
                   /\ ids' = Follow(step.verb, step.a, step.b)
                   /\ did' = (pc' = pc /\ res' = "")
             /\ buf' = IF step.verb = "read" /\ answer = "drop" THEN (IF buf = "empty" THEN "part" ELSE "damaged") ELSE buf
             /\ cursor' = IF step.verb = "purge" /\ cursor.last = 0 /\ HasMarker THEN [cursor EXCEPT !.last = LatestMarker] ELSE cursor
    /\ UNCHANGED <<kind, other, task, call>>

\* A method without requests.
NoRequest ==
    /\ call # NoCall /\ res = "" /\ Prog = <<>>
    /\ res' = "ok"
    /\ UNCHANGED <<kind, srv, dirs, other, ids, task, call, pc, tries, login, did, buf, cursor, lost>>

\* Where the task goes after a result.
After == LET step == Steps(task.op)[task.at]
         IN  CASE res = "ok" -> step.ok [] res = "absent" -> step.absent [] OTHER -> step.error

Returned == call # NoCall /\ res \in {"ok", "absent", "error"}

NextCall ==
    /\ Returned /\ After \in DOMAIN Steps(task.op)
    /\ task' = [task EXCEPT !.at = After]
    /\ Enter(Steps(task.op)[After].call)
    /\ UNCHANGED <<kind, srv, dirs, other, ids, buf, lost>>

Complete ==
    /\ Returned /\ (After = "done" \/ (After = "verify" /\ buf = "whole"))
    /\ task' = NoTask /\ Leave /\ buf' = "empty"
    /\ UNCHANGED <<kind, srv, dirs, other, ids, lost>>

\* DownloadChunk starts over, at most three times: when Hubic or WebDAV say that
\* there is no such chunk, when the download broke off (or failed in any way,
\* for Hubic), when the data is not what it should be.
MaxDownloadAttempts == 3
StartsOver ==
    /\ task.attempt < MaxDownloadAttempts
    /\ \/ After = "missing" /\ kind \in {"hubic", "webdav"}
       \/ After = "failed" /\ (kind = "hubic" \/ buf # "empty")
       \/ After = "verify" /\ buf # "whole"

RetryDownload ==
    /\ Returned /\ StartsOver
    /\ task' = [task EXCEPT !.at = "find", !.attempt = @ + 1]
    /\ buf' = "empty"
    /\ Enter(Steps(task.op)["find"].call)
    /\ UNCHANGED <<kind, srv, dirs, other, ids, lost>>

\* LOG_ERROR ends the process.
Fatal ==
    /\ \/ res = "panic"
       \/ /\ Returned /\ ~StartsOver
          /\ After \in {"fatal", "missing", "failed"} \/ (After = "verify" /\ buf # "whole")
    /\ Exit

Progress == Login \/ Answered \/ Failed \/ NoRequest \/ NextCall \/ Complete \/ RetryDownload \/ Fatal

Next == (\E op \in TaskKinds, at \in {"find", "move"} : Begin(op, at)) \/ Progress \/ Crash \/ OtherClient

\* A request is answered or fails in the end (the clients have time-outs or the
\* connection breaks), and the operator's goroutine runs on: weak fairness of
\* Progress or Crash, which is enabled while there is a task that does not hang,
\* and which are the steps of a task that are not another client's.
Fairness ==
    \/ []<>(task = NoTask \/ res = "hang")
    \/ []<><<task # NoTask /\ other' = other>>_vars

Spec == Init /\ [][Next]_vars /\ Fairness

----------------------------------------------------------------------------
TypeOK ==
    /\ kind \in Kinds
    /\ DOMAIN srv = Files
    /\ \A n \in Files : Len(srv[n]) <= MaxVersions + 1 + MaxLost /\ \A i \in DOMAIN srv[n] : srv[n][i] \in {"whole", "part", "hide"}
    /\ dirs \subseteq {"dir", "fossildir"} /\ other \in BOOLEAN
    /\ \A n \in Names : ids[n] \in Names \cup {"none", "gone"}
    /\ task = NoTask \/ (task.op \in TaskKinds /\ task.at \in DOMAIN Steps(task.op) /\ task.attempt \in 0..MaxDownloadAttempts)
    /\ call \in Calls \cup {NoCall}
    /\ (call = NoCall) = (task = NoTask)
    /\ res \in {"", "ok", "absent", "error", "hang", "panic"}
    /\ res = "" /\ call # NoCall => pc \in 1..(Len(Prog) + 1)
    /\ tries \in [request : 0..MaxTries, program : 0..MaxTries, login : 0..MaxTries]
    /\ login \in 0..Len(LoginProgram(kind)) /\ did \in BOOLEAN
    /\ buf \in {"empty", "part", "whole", "damaged"} /\ lost \in 0..MaxLost
    /\ cursor.seen \cup cursor.throughout \subseteq {"a", "s", "chunk", "fossil"}

\* The tasks, on every backend and under all these failures, keep what the
\* fossil collection relies on: fossilizing, resurrecting, rewriting and
\* downloading never lose the last copy of a chunk (ChunkStore).
Store == INSTANCE ChunkStore WITH where <- Whereabouts, task <- task.op
KeepsChunk == Store!Spec

\* Methods that report a success which need not be one:
Exceptions ==
    \* a failed copy is not reported (s3c), a conflict or a second failure is
    \* ignored (onedrive, acd), a file that could not be looked up (filefabric),
    \* a fossil that is none (b2), a second file of that name which stays (gcd)
    {<<k, "MoveFile">> : k \in {"s3c", "onedrive", "business", "acd", "filefabric", "b2", "gcd"}} \cup
    \* a look-up that failed; a second file or an older version of the same name
    {<<k, "DeleteFile">> : k \in {"filefabric", "gcd", "b2"}} \cup
    \* the error of closing the writer is lost
    {<<"gcs", "UploadFile">>} \cup
    \* a file that is forbidden (or any error) counts as missing; the server
    \* of the last two may be wrong
    {<<k, "GetFileInfo">> : k \in {"s3", "s3c", "wasabi", "storj", "hubic", "webdav"}} \cup
    \* a download that is tried again appends to what was read before
    {<<"sftp", "DownloadFile">>}

\* What a method has done when it reports success.
Done(c) ==
    CASE c.op = "MoveFile"     -> c.a \notin Whereabouts /\ c.b \in Whereabouts
      [] c.op = "DeleteFile"   -> c.a \notin Whereabouts
      [] c.op = "UploadFile"   -> c.a \in Whereabouts
      [] c.op = "GetFileInfo"  -> IF res = "ok" THEN c.a \in Whereabouts ELSE c.a \notin Whereabouts
      [] c.op = "DownloadFile" -> buf = "whole"
      [] c.op = "CreateDirectory" -> kind \in NeedsDirectory \cap Converting => c.a \in dirs
      [] OTHER                 -> TRUE

\* A method of the Storage interface that reports success, or that a file does
\* not exist, tells the truth, whatever was retried and whatever answers were
\* lost on the way, but for the exceptions above.
Truthful == res \in {"ok", "absent"} /\ <<kind, call.op>> \notin Exceptions => Done(call)

\* A listing that is returned has every file that was there all the time, even
\* if other files come and go between its pages; not so on Storj, where a
\* listing that breaks off is returned, nor for the snapshots on S3C.
ListingComplete ==
    res = "ok" /\ call.op = "ListFiles" /\ kind # "storj" /\ ~(kind = "s3c" /\ call.a = "snapshots")
        => cursor.throughout \subseteq cursor.seen

\* Nothing but a whole chunk is ever visible under the name of a chunk.
WholeFiles == \A n \in {"chunk", "fossil"} : \A i \in DOMAIN srv[n] : srv[n][i] # "part"

\* Every task ends, in success or failure, whatever fails on the way: the
\* retries of the requests, methods and tasks are bounded.  On B2 they are not
\* (a Retry-After header starts the count again, a failed authorization is not
\* counted), and the listing of Google Drive may hang.
TasksEnd ==
    (task # NoTask /\ kind # "b2" /\ ~(kind = "gcd" /\ task.op = "list")) ~> (task = NoTask)
=============================================================================
