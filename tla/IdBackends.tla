----------------------------- MODULE IdBackends -----------------------------
(***************************************************************************)
(* The backends on drives that move a file between directories and, except *)
(* for File Fabric, do not rename it: a fossil is kept as fossils/x and    *)
(* convertFilePath translates chunks/x.fsl.  OneDrive goes by paths, the   *)
(* others by ids, which Amazon Cloud Drive caches for files too and the    *)
(* others only for directories.                                            *)
(***************************************************************************)
EXTENDS StorageSteps

\* The directory of a file: chunks/xx, or fossils/xx for a fossil.
ParentOf(a) == IF a = "fossil" THEN "fossildir" ELSE "dir"

\* The path of a fossil left as it is; there never is such a file.
Unconverted(a) == IF a = "fossil" THEN "chunk.fsl" ELSE a

----------------------------------------------------------------------------
\* OneDrive.  call: once connected, a connection error and any status above 401
\* but 404 and 409 are tried again, twelve times in all; 401 renews the token.
OneCall(verb, a, b) ==
    Step(verb, a, b, On(On(NoError, {"busy", "throttled", "denied", "drop"}, "again"), {"expired"}, "login"), 11)

\* RefreshToken sends its request through call, under TokenLock; 401 ends it.
OneRefreshToken == <<Where(OneCall("login", "", ""), {"expired"}, "fail")>>

OneListEntries(dir) == <<OneCall("pages", dir, dir)>>

\* The chunks first, then the fossils.
OneListFiles(dir) ==
    IF dir = "chunks" THEN OneListEntries("live") \o OneListEntries("fossils") ELSE OneListEntries(dir)

OneClientGetFileInfo(a) == Where(OneCall("stat", a, a), {"notfound"}, "absent")

OneClientDeleteFile(a) == OneCall("delete", a, a)

\* The directory that is to hold the new one is looked up first.
OneClientCreateDirectory(dir) ==
    <<OneCall("statdir", "root", "root"), Where(OneCall("mkdir", dir, dir), {"exists"}, "next")>>

\* If the directory does not exist it is created, whatever the result, and the
\* move sent once more; an error of this one is reported as success.
OneClientMoveFile(a, b) ==
    LET mkdir == OneClientCreateDirectory(ParentOf(b))
        ignored(step, then) == [step EXCEPT !.spent = Always(then),
                                            !.on = [x \in Answers |-> IF @[x] = "fail" THEN then ELSE @[x]]]
    IN  << Where(Where(OneCall("move", a, b), {"ok"}, "return"), {"nodir"}, "next"),
           ignored(mkdir[1], "skip"), ignored(mkdir[2], "next"),
           ignored(OneCall("move", a, b), "return") >>

OneDeleteFile(a) == <<Where(OneClientDeleteFile(a), {"notfound"}, "return")>>

\* A conflict is not an error: the file is there already.
OneMoveFile(a, b) ==
    LET steps == OneClientMoveFile(a, b) IN [steps EXCEPT ![1] = Where(@, {"exists"}, "return")]

OneCreateDirectory == OneClientCreateDirectory("dir")

OneGetFileInfo(a) == <<OneClientGetFileInfo(a)>>

OneClientDownloadFile(a) == OneCall("get", a, a)

\* The path of a fossil is not converted.
OneDownloadFile(a) == <<OneClientDownloadFile(Unconverted(a)), Ask("read", a)>>

OneCreateUploadSession(a) == OneCall("send", a, a)

\* The answer tells the size, which must be that of the content.
OneUploadFileSession(a) == <<OneCall("put", a, a), Ask("parse", a)>>

OneClientUploadFile(a, business) ==
    IF business THEN <<OneCreateUploadSession(a)>> \o OneUploadFileSession(a) ELSE <<OneCall("put", a, a)>>

OneUploadFile(a, business) ==
    LET steps == OneClientUploadFile(a, business)
    IN  [i \in DOMAIN steps |-> Where(steps[i], {"exists"}, "return")]

----------------------------------------------------------------------------
\* (Mutant: the retries after 429 are not counted.)
ACDCallUncounted(verb, a, b) ==
    Step(verb, a, b, On(On(NoError, {"throttled"}, "reset"), {"expired"}, "login"), 7)

\* Amazon Cloud Drive.  call: 429 and 500 ("throttled" here) are tried again,
\* eight times in all; 503 ("busy") and connection errors are returned.
ACDCall(verb, a, b) ==
    Step(verb, a, b, On(On(NoError, {"throttled"}, "again"), {"expired"}, "login"), 7)

ACDRefreshToken == <<Where(ACDCall("login", "", ""), {"expired"}, "fail")>>

ACDListEntries(dir) == <<ACDCall("pages", dir, dir)>>

\* ListByName; the id it returns is put into the cache, or is not.
ACDListByName(a, save) == ACDCall(IF save THEN "lookup" ELSE "find", a, a)

\* The id of the new directory is put into the cache, or is not.
ACDClientCreateDirectory(dir, save) == ACDCall(IF save THEN "mkdirsave" ELSE "mkdir", dir, dir)

ACDClientDownloadFile(a) == ACDCall("getid", a, a)

\* 409: there is a file of that name.
ACDClientUploadFile(a) == ACDCall("putonce", a, a)

\* An id in the cache is taken as it is.
ACDfindPathID(a) == Where(Ask("cached", a), {"notfound"}, "next")

\* getIDFromPath of a directory, created if it does not exist; a conflict means
\* that another thread has done so, which is waited for.
ACDgetIDFromPath(dir, createDirectories) ==
    << Where(ACDfindPathID(dir), {"ok"}, "skip3"),
       Where(Where(ACDListByName(dir, TRUE), {"ok"}, "skip2"),
             {"notfound"}, IF createDirectories THEN "next" ELSE "fail"),
       Where(Where(ACDClientCreateDirectory(dir, FALSE), {"ok"}, "skip"), {"exists"}, "next"),
       [Where(ACDListByName(dir, FALSE), {"notfound"}, "again") EXCEPT !.tries = 10] >>

ACDListFiles(dir) ==
    IF dir = "chunks" THEN ACDListEntries("live") \o ACDListEntries("fossils") ELSE ACDListEntries(dir)

ACDClientDeleteFile(a) == ACDCall("trash", a, a)

\* The id comes from the cache if it is there; it stays there.
ACDDeleteFile(a) ==
    << Where(ACDfindPathID(a), {"ok"}, "skip"),
       Where(ACDListByName(a, TRUE), {"notfound"}, "return"),
       Where(ACDClientDeleteFile(a), {"exists"}, "return") >>

ACDClientMoveFile(a, b) == ACDCall("moveid", a, b)

\* Only a file whose id is in the cache is moved; after a conflict the cache is
\* changed as well.
ACDMoveFile(a, b) ==
    <<Ask("cached", a)>> \o ACDgetIDFromPath(ParentOf(a), FALSE)
        \o ACDgetIDFromPath(ParentOf(b), TRUE)
        \o <<Where(ACDClientMoveFile(a, b), {"exists"}, "next"), Step("reid", a, b, NoError, 0)>>

ACDCreateDirectory == <<Where(ACDClientCreateDirectory("dir", TRUE), {"exists"}, "return")>>

ACDGetFileInfo(a) ==
    LET parent == ACDgetIDFromPath(ParentOf(a), FALSE)
    IN  << Where(parent[1], {"ok"}, "skip"), Where(Where(parent[2], {"ok"}, "next"), {"notfound"}, "absent"),
           Where(ACDListByName(a, TRUE), {"notfound"}, "absent") >>

ACDDownloadFile(a) ==
    << Where(ACDfindPathID(Unconverted(a)), {"ok"}, "skip"), ACDListByName(Unconverted(a), TRUE),
       ACDClientDownloadFile(Unconverted(a)), Ask("read", a) >>

ACDUploadFile(a) ==
    ACDgetIDFromPath("dir", TRUE) \o <<Where(ACDClientUploadFile(a), {"exists"}, "return"), Step("reid", a, a, NoError, 0)>>

----------------------------------------------------------------------------
\* Google Drive.  shouldRetry: server errors, 429, 403, 401 once connected and
\* connection errors are tried again, until fifteen have followed one another.
GCDshouldRetry(verb, a, b) ==
    Step(verb, a, b, On(NoError, {"busy", "throttled", "denied", "expired", "drop"}, "again"), 15)

GCDlistFiles(dir) == <<GCDshouldRetry("pages", dir, dir)>>

\* The first of the files of that name; the id of a directory is kept.
GCDlistByName(a) == GCDshouldRetry(IF a \in {"dir", "fossildir"} THEN "lookup" ELSE "find", a, a)

\* CreateDirectory: unless it is known or found, created; a drive accepts
\* any number of directories of one name, so this is under createDirectoryLock.
GCDCreateDirectory(dir) ==
    << Where(Where(Ask("cached", dir), {"ok"}, "skip2"), {"notfound"}, "next"),
       Where(Where(GCDlistByName(dir), {"ok"}, "skip"), {"notfound"}, "next"),
       GCDshouldRetry("mkdirsave", dir, dir) >>

\* getIDFromPath of a directory: known, found, or created.
GCDgetIDFromPath(dir, createDirectories) ==
    << Where(Where(Ask("cached", dir), {"ok"}, "skip"), {"notfound"}, "next"),
       Where(GCDlistByName(dir), {"notfound"}, IF createDirectories THEN "next" ELSE "fail") >>
    \o IF createDirectories THEN GCDCreateDirectory(dir) ELSE <<>>

\* The chunks are listed by one goroutine per directory.  One that finds a
\* subdirectory sends its name to be listed before it saves the id; with more
\* than one thread the goroutine started for it may look for the id first, and
\* then ends without a word while ListFiles waits for it.
GCDListFiles(dir) ==
    IF dir = "chunks"
    THEN << Where(Ask("idsaved", "dir"), {"notfound"}, "hang") >> \o GCDlistFiles("live") \o GCDlistFiles("fossils")
    ELSE GCDlistFiles(dir)

\* Errors of the look-up are ignored; the answer to deleting no id is 404.
GCDDeleteFile(a) ==
    << [Where(GCDlistByName(a), {"notfound"}, "return") EXCEPT !.spent = Always("return")],
       Where(GCDshouldRetry("delete", a, a), {"notfound"}, "return") >>

GCDMoveFile(a, b) ==
    <<GCDlistByName(a)>> \o GCDgetIDFromPath(ParentOf(a), FALSE) \o GCDgetIDFromPath(ParentOf(b), TRUE)
        \o <<GCDshouldRetry("reparent", a, b)>>

GCDGetFileInfo(a) ==
    LET parent == GCDgetIDFromPath(ParentOf(a), FALSE)
    IN  <<parent[1], Where(parent[2], {"notfound"}, "absent"), Where(GCDlistByName(a), {"notfound"}, "absent")>>

GCDDownloadFile(a) == <<GCDlistByName(a), GCDshouldRetry("get", a, a), Ask("read", a)>>

\* A file of the same name is no obstacle.
GCDUploadFile(a) == GCDgetIDFromPath("dir", TRUE) \o <<GCDshouldRetry("putmore", a, a)>>

----------------------------------------------------------------------------
\* File Fabric.  sendRequest: whatever is not answered with 2xx is tried again,
\* twelve times more; then a connection error is returned, but for an error
\* status a nil error without a response, which its callers run into.
FFsendRequest(verb, a, b) ==
    [Step(verb, a, b, On(NoError, {"busy", "throttled", "denied", "expired", "drop"}, "again"), 12)
        EXCEPT !.spent = [x \in Answers |-> IF x = "drop" THEN "fail" ELSE "panic"]]

FFgetFileInfo(a) == FFsendRequest("stat", a, a)

\* A directory that does not exist is listed as empty.
FFListFiles(dir) ==
    <<Where(FFsendRequest("statdir", IF dir = "chunks" THEN "dir" ELSE "root", dir), {"nodir"}, "return"), FFsendRequest("pages", dir, dir)>>

FFGetFileInfo(a) == <<Where(FFgetFileInfo(a), {"notfound"}, "absent")>>

\* Errors of the look-up are ignored, and nothing is deleted or moved then.
FFlookup(a) == [Where(FFgetFileInfo(a), {"notfound"}, "return") EXCEPT !.spent["drop"] = "return"]

FFDeleteFile(a) == <<FFlookup(a), FFsendRequest("delete", a, a)>>

FFMoveFile(a, b) == <<FFlookup(a), FFsendRequest("move", a, b)>>

FFcreateDirectory == FFsendRequest("mkdirsave", "dir", "dir")

\* The id of the parent directory comes from the cache, from creating it or,
\* if it exists, from looking it up.
FFcreateParentDirectory ==
    << Where(Where(Ask("cached", "dir"), {"ok"}, "skip2"), {"notfound"}, "next"),
       Where(Where(FFcreateDirectory, {"ok"}, "skip"), {"exists"}, "next"),
       FFsendRequest("lookup", "dir", "dir") >>

FFCreateDirectory == <<Where(FFcreateDirectory, {"exists"}, "return")>>

FFDownloadFile(a) == <<FFsendRequest("get", a, a), Ask("read", a)>>

\* The error of the request is not looked at before its response is used.
FFUploadFile(a) ==
    FFcreateParentDirectory \o <<[FFsendRequest("put", a, a) EXCEPT !.spent = Always("panic")]>>
=============================================================================
