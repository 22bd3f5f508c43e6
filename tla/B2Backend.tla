----------------------------- MODULE B2Backend -----------------------------
(***************************************************************************)
(* Backblaze B2.  Files have versions: an upload adds one, hiding a file   *)
(* adds a marker, deleting removes one version by its id.  A fossil is a   *)
(* chunk whose latest version is a marker; there is no file chunks/x.fsl,  *)
(* and the requests below are all about the name of the chunk.             *)
(***************************************************************************)
EXTENDS StorageSteps

\* B2Client.retry: with Retry-After the count starts at one again, otherwise a
\* request is tried again until the count exceeds MaximumRetries (15).
B2retry == [busy |-> "again", throttled |-> "reset", drop |-> "again", times |-> 16]

\* B2Client.call: 401 authorizes the account again, 403 is an error, 404 answers
\* a HEAD request and everything else is tried again.
B2call(verb, a) ==
    LET on == [x \in Answers |->
                 CASE x \in {"ok", "more"} -> NoError[x]
                   [] x = "expired"        -> "login"
                   [] x = "denied"         -> "fail"
                   [] x = "notfound"       -> IF verb = "head" THEN "absent" ELSE "again"
                   [] x \in DOMAIN B2retry \ {"times"} -> B2retry[x]
                   [] OTHER                -> "again"]
    IN  Step(verb, a, a, on, B2retry.times)

\* AuthorizeAccount: 401 fails; whether it succeeded is not looked at, the call
\* goes on, and is only counted as a retry when the last authorization was less
\* than 30 seconds ago.
B2AuthorizeAccount ==
    <<Step("login", "", "", On(On(NoError, {"busy", "throttled", "drop"}, "again"), {"denied"}, "fail"),
           B2retry.times)>>

\* getUploadURL, for which the upload waits when it has none.
B2getUploadURL == B2call("uploadurl", "chunk")

\* ListFileNames: one file without its versions is a HEAD request, otherwise
\* the list is followed page by page.
B2ListFileNames(a, singleFile, includeVersions) ==
    IF singleFile
    THEN IF includeVersions THEN B2call("versions", "chunk") ELSE B2call("head", a)
    ELSE B2call("pages", a)

\* One version is deleted by its id, or those of a fossil one after the other.
B2ClientDeleteFile(verb) == B2call(verb, "chunk")

B2HideFile(a) == B2call("hide", a)

B2ClientDownloadFile(verb, a) == B2call(verb, a)

B2ClientUploadFile(a) == B2call("upload", a)

B2ListFiles(dir) == <<B2ListFileNames(dir, FALSE, dir = "chunks")>>

\* Of a fossil, the latest marker and every version before it, the newest first;
\* of a chunk, the latest version.
B2DeleteFile(a) ==
    IF a = "fossil"
    THEN <<B2ListFileNames(a, TRUE, TRUE), B2ClientDeleteFile("purge")>>
    ELSE <<Where(B2ListFileNames(a, TRUE, FALSE), {"notfound"}, "return"), B2ClientDeleteFile("delversion")>>

\* Fossilizing hides the file; resurrecting deletes the marker, if the latest
\* version is one.
B2MoveFile(a, b) ==
    IF b = "fossil"
    THEN <<B2HideFile(a)>>
    ELSE <<B2ListFileNames(b, TRUE, TRUE), Where(Ask("hidden", b), {"notfound"}, "return"),
           B2ClientDeleteFile("delversion")>>

B2GetFileInfo(a) ==
    IF a = "fossil"
    THEN <<B2ListFileNames(a, TRUE, TRUE), Where(Ask("hidden", "chunk"), {"notfound"}, "absent")>>
    ELSE <<B2ListFileNames(a, TRUE, FALSE)>>

\* The data of a fossil is that of the last upload, asked for by its id.
B2DownloadFile(a) ==
    IF a = "fossil"
    THEN << [Where(B2ListFileNames(a, TRUE, TRUE), {"denied"}, "next") EXCEPT !.spent = Always("next")],
            B2ClientDownloadFile("getlast", "chunk"), Ask("read", "chunk") >>
    ELSE <<B2ClientDownloadFile("get", a), Ask("read", a)>>

B2UploadFile(a) == <<B2getUploadURL, B2ClientUploadFile(a)>>
=============================================================================
