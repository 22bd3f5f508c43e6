---------------------------- MODULE FileBackends ----------------------------
(***************************************************************************)
(* The backends on file systems: a local or mounted directory, SFTP, Samba *)
(* and WebDAV.  They have directories, which an upload creates, and they   *)
(* rename; all but WebDAV write under a temporary name first.              *)
(***************************************************************************)
EXTENDS StorageSteps

----------------------------------------------------------------------------
\* FileStorage.  A directory that does not exist is listed as empty.
FileListFiles(dir) == <<Where(Ask("readdir", dir), {"nodir"}, "return")>>

FileDeleteFile(a) == <<Where(Ask("delete", a), {"notfound"}, "return")>>

FileMoveFile(a, b) == <<Step("rename", a, b, NoError, 0)>>

FileCreateDirectory == <<Where(Ask("mkdir", "dir"), {"exists"}, "return")>>

FileGetFileInfo(a) == <<Where(Ask("stat", a), {"notfound"}, "absent")>>

FileDownloadFile(a) == <<Ask("get", a), Ask("read", a)>>

\* The directory is created unless it is there, then the file is written.
FileUploadFile(a) ==
    << Where(Where(Ask("statdir", "dir"), {"ok"}, "skip"), {"nodir"}, "next"),
       Where(Ask("mkdir", "dir"), {"exists"}, "next") >> \o WriteAndRename(a, "rename")

----------------------------------------------------------------------------
\* SambaStorage does the same on a share.
SambaListFiles(dir) == <<Where(Ask("readdir", dir), {"nodir"}, "return")>>

SambaDeleteFile(a) == <<Where(Ask("delete", a), {"notfound"}, "return")>>

\* A rename on the share does not replace a file.
SambaMoveFile(a, b) == <<Step("move", a, b, NoError, 0)>>

SambaCreateDirectory == <<Where(Ask("mkdir", "dir"), {"exists"}, "return")>>

SambaGetFileInfo(a) == <<Where(Ask("stat", a), {"notfound"}, "absent")>>

SambaDownloadFile(a) == <<Ask("get", a), Ask("read", a)>>

SambaUploadFile(a) ==
    << Where(Where(Ask("statdir", "dir"), {"ok"}, "skip"), {"nodir"}, "next"),
       Where(Ask("mkdir", "dir"), {"exists"}, "next") >> \o WriteAndRename(a, "move")

----------------------------------------------------------------------------
\* SFTP.  retry: an error that contains EOF, of a broken connection, is tried
\* again up to eight times after connecting anew, under clientLock.
SFTPRetry(step) == [Where(step, {"drop"}, "again") EXCEPT !.tries = 8]

SFTPListFiles(dir) == <<SFTPRetry(Ask("readdir", dir))>>

SFTPDeleteFile(a) ==
    <<SFTPRetry(Where(Ask("stat", a), {"notfound"}, "return")), SFTPRetry(Ask("delete", a))>>

\* An existing destination is an error; an error of Stat is not looked at.
SFTPMoveFile(a, b) ==
    << [SFTPRetry(Step("stat", b, b, On(On(NoError, Errors, "next"), {"ok"}, "fail"), 0))
           EXCEPT !.spent = Always("next")],
       SFTPRetry(Step("move", a, b, NoError, 0)) >>

SFTPCreateDirectory ==
    << [SFTPRetry(Step("statdir", "dir", "dir", On(On(NoError, Errors, "next"), {"ok"}, "return"), 0))
           EXCEPT !.spent = Always("next")],
       SFTPRetry(Ask("mkdir", "dir")) >>

SFTPGetFileInfo(a) == <<SFTPRetry(Where(Ask("stat", a), {"notfound"}, "absent"))>>

\* Opening and reading are tried again together, into the same chunk.
SFTPDownloadFile(a) ==
    LET again(step) == [Where(step, {"drop"}, "restart") EXCEPT !.tries = 8]
    IN  <<again(Ask("get", a)), again(Ask("read", a))>>

\* The whole upload is tried again.
SFTPUploadFile(a) ==
    LET again(step) == [step EXCEPT !.tries = 8,
                                    !.on["drop"] = IF @ = "fail" THEN "restart" ELSE @]
        steps == << Where(Step("statdir", "dir", "dir", On(NoError, Errors, "skip"), 0), {"nodir"}, "next"),
                    Ignoring("mkdir", "dir") >> \o WriteAndRename(a, "move")
    IN  [i \in DOMAIN steps |-> IF i = 1 THEN Where(steps[1], {"ok"}, "skip") ELSE again(steps[i])]

----------------------------------------------------------------------------
\* WebDAV.  sendRequest tries eight times; 301 and 405 are returned at once, and
\* so is 404 except when uploading.
WebDAVsendRequest(verb, a, b) ==
    LET final == {"exists"} \cup (IF verb = "put" THEN {} ELSE {"notfound"})
    IN  Step(verb, a, b, On(On(NoError, Errors, "again"), final, "fail"), 7)

\* getProperties: a reply that breaks off is asked for again, three times.
WebDAVgetProperties(verb, a) ==
    << WebDAVsendRequest(verb, a, a),
       Step("parse", a, a, On(NoError, {"drop"}, "restart"), 3) >>

WebDAVListFiles(dir) == WebDAVgetProperties("readdir", dir)

WebDAVGetFileInfo(a) ==
    LET steps == WebDAVgetProperties("stat", a)
    IN  <<Where(steps[1], {"notfound"}, "absent"), steps[2]>>

WebDAVDeleteFile(a) == <<WebDAVsendRequest("delete", a, a)>>

WebDAVMoveFile(a, b) == <<WebDAVsendRequest("rename", a, b)>>

\* A directory in the cache is not created; 405 and 301 mean it is there.
WebDAVCreateDirectory ==
    << Where(Where(Ask("cached", "dir"), {"ok"}, "return"), {"notfound"}, "next"),
       Where(WebDAVsendRequest("mkdirsave", "dir", "dir"), {"exists"}, "return") >>

WebDAVDownloadFile(a) == <<WebDAVsendRequest("get", a, a), Ask("read", a)>>

WebDAVcreateParentDirectory ==
    << Where(Where(Ask("cached", "dir"), {"ok"}, "skip"), {"notfound"}, "next"),
       [WebDAVsendRequest("mkdirsave", "dir", "dir") EXCEPT !.on["exists"] = "next", !.spent = Always("next")] >>

\* An error of creating the directory is ignored.
WebDAVUploadFile(a) == WebDAVcreateParentDirectory \o <<WebDAVsendRequest("put", a, a)>>
=============================================================================
