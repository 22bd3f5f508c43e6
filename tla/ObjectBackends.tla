--------------------------- MODULE ObjectBackends ---------------------------
(***************************************************************************)
(* The backends on object stores reached through a client library: S3, S3C *)
(* (the older library for S3), Wasabi, Azure, Google Cloud Storage, Storj, *)
(* Dropbox, Swift; and Hubic with its own client.  Most have no directories *)
(* and no rename.  The libraries' own retries are part of a request.       *)
(***************************************************************************)
EXTENDS StorageSteps

----------------------------------------------------------------------------
\* S3.  The library follows the continuation tokens of the pages.
S3ListFiles(dir) == <<Ask("pages", dir)>>

\* (Mutant: a refused deletion passes for a missing object.)
S3DeleteFileRefused(a) == <<Where(Ask("delete", a), {"notfound", "denied"}, "return")>>

\* Deleting an object that is not there is not an error.
S3DeleteFile(a) == <<Where(Ask("delete", a), {"notfound"}, "return")>>

S3MoveFile(a, b) == <<Step("copy", a, b, NoError, 0)>> \o S3DeleteFile(a)

\* 403 counts as "does not exist", as 404 does.
S3GetFileInfo(a) == <<Where(Ask("stat", a), {"notfound", "denied"}, "absent")>>

S3DownloadFile(a) == <<Ask("get", a), Ask("read", a)>>

\* Only a mismatch of the content hash (the data was damaged on the way) is
\* tried again; the library's other errors are returned.
S3UploadFile(a) == <<Step("put", a, a, On(NoError, {"busy"}, "again"), 3)>>

----------------------------------------------------------------------------
\* S3C: only the chunks are listed page by page; of the snapshots and of the
\* revisions of one, the first page.
S3CListFiles(dir) == <<Ask(IF dir = "chunks" THEN "pages" ELSE "firstpage", dir)>>

S3CDeleteFile(a) == <<Where(Ask("delete", a), {"notfound"}, "return")>>

\* A failed copy is reported as success.
S3CMoveFile(a, b) ==
    <<Step("copy", a, b, On(NoError, Errors, "return"), 0)>> \o S3CDeleteFile(a)

S3CGetFileInfo(a) == <<Where(Ask("stat", a), {"notfound", "denied"}, "absent")>>

S3CDownloadFile(a) == <<Ask("get", a), Ask("read", a)>>

S3CUploadFile(a) == <<Ask("put", a)>>

----------------------------------------------------------------------------
\* Wasabi has a request of its own for renaming; the rest is passed on to S3.
WasabiListFiles(dir) == S3ListFiles(dir)
WasabiDeleteFile(a) == S3DeleteFile(a)
WasabiMoveFile(a, b) == <<Step("rename", a, b, NoError, 0)>>
WasabiGetFileInfo(a) == S3GetFileInfo(a)
WasabiDownloadFile(a) == S3DownloadFile(a)
WasabiUploadFile(a) == S3UploadFile(a)

----------------------------------------------------------------------------
\* Azure.
AzureListFiles(dir) == <<Ask("pages", dir)>>

\* DeleteIfExists
AzureDeleteFile(a) == <<Where(Ask("delete", a), {"notfound"}, "return")>>

AzureMoveFile(a, b) == <<Step("copy", a, b, NoError, 0)>> \o AzureDeleteFile(a)

AzureGetFileInfo(a) == <<Where(Ask("stat", a), {"notfound"}, "absent")>>

AzureDownloadFile(a) == <<Ask("get", a), Ask("read", a)>>

\* A connection that broke while writing is tried again.
AzureUploadFile(a) == <<Step("put", a, a, On(NoError, {"drop"}, "again"), 3)>>

----------------------------------------------------------------------------
\* Google Cloud Storage.  What shouldRetry tries again: 5xx, 429, 403 and
\* connection errors, until the back-off has doubled from 1 to 256.
GCSshouldRetry == On(NoError, {"busy", "denied", "drop"}, "again")

GCSListFiles(dir) == <<Ask("pages", dir)>>

GCSDeleteFile(a) == <<Where(Ask("delete", a), {"notfound"}, "return")>>

GCSMoveFile(a, b) == <<Step("copy", a, b, NoError, 0)>> \o GCSDeleteFile(a)

GCSGetFileInfo(a) == <<Where(Ask("stat", a), {"notfound"}, "absent")>>

GCSDownloadFile(a) == <<Ask("get", a), Ask("read", a)>>

\* The data is copied into a writer, with retries; the object only exists once
\* the writer is closed, which the deferred call does and whose error is lost.
GCSUploadFile(a) ==
    <<Step("send", a, a, GCSshouldRetry, 8), Ignoring("put", a)>>

----------------------------------------------------------------------------
\* Storj.  Next() is false at the end and after an error alike, and the error
\* is only looked at while there is another object: a listing that breaks off
\* is returned as if it were complete.
StorjListFiles(dir) == <<Where(Ask("pages", dir), Errors, "return")>>

StorjDeleteFile(a) == <<Where(Ask("delete", a), {"notfound"}, "return")>>

StorjMoveFile(a, b) == <<Step("move", a, b, NoError, 0)>>

\* No object is returned together with any error, and that is what is tested.
StorjGetFileInfo(a) == <<Where(Ask("stat", a), Errors, "absent")>>

StorjDownloadFile(a) == <<Ask("get", a), Ask("read", a)>>

\* Open, copy the data, commit.
StorjUploadFile(a) == <<Ask("send", a), Ask("send", a), Ask("put", a)>>

----------------------------------------------------------------------------
\* Dropbox.
DropboxListFiles(dir) == <<Ask("pages", dir)>>

DropboxDeleteFile(a) == <<Where(Ask("delete", a), {"notfound"}, "return")>>

DropboxMoveFile(a, b) == <<Step("move", a, b, NoError, 0)>>

DropboxCreateDirectory == <<Where(Ask("mkdir", "dir"), {"exists"}, "return")>>

DropboxGetFileInfo(a) == <<Where(Ask("stat", a), {"notfound"}, "absent")>>

DropboxDownloadFile(a) == <<Ask("get", a), Ask("read", a)>>

DropboxUploadFile(a) == <<Ask("put", a)>>

----------------------------------------------------------------------------
\* Swift.  ObjectMove of the library copies and deletes.
SwiftListFiles(dir) == <<Ask("pages", dir)>>

SwiftDeleteFile(a) == <<Ask("delete", a)>>

SwiftMoveFile(a, b) == <<Step("copy", a, b, NoError, 0), Ask("delete", a)>>

SwiftGetFileInfo(a) == <<Where(Ask("stat", a), {"notfound"}, "absent")>>

SwiftDownloadFile(a) == <<Ask("get", a), Ask("read", a)>>

SwiftUploadFile(a) == <<Ask("put", a)>>

----------------------------------------------------------------------------
\* Hubic.  HubicClient.call: a connection error, 5xx and 408 are tried again,
\* eleven times in all; 401 renews the token and then the credential.
HubicCall(verb, a, b) ==
    Step(verb, a, b, On(On(NoError, {"busy", "drop"}, "again"), {"expired"}, "login"), 10)

\* RefreshToken: the request for a token, which the same loop sends; 401 ends it.
HubicRefreshToken == <<Step("login", "", "", On(NoError, {"busy", "drop"}, "again"), 10)>>

\* GetCredential: here a connection error ends it too.
HubicGetCredential == <<Step("login", "", "", On(NoError, {"busy"}, "again"), 10)>>

\* (Mutant: the first page is taken for the whole listing.)
HubicListFirstPage(dir) == <<HubicCall("firstpage", dir, dir)>>

\* Each page is asked for with the last name of the one before.
HubicListEntries(dir) == <<HubicCall("pages", dir, dir)>>

HubicListFiles(dir) == HubicListEntries(dir)

HubicClientDeleteFile(a) == <<HubicCall("delete", a, a)>>

HubicDeleteFile(a) == <<Where(HubicClientDeleteFile(a)[1], {"notfound"}, "return")>>

\* The client's own DeleteFile, for which 404 is an error.
HubicClientMoveFile(a, b) == <<HubicCall("copy", a, b)>> \o HubicClientDeleteFile(a)
HubicMoveFile(a, b) == HubicClientMoveFile(a, b)

HubicClientCreateDirectory == HubicCall("mkdir", "dir", "dir")
HubicCreateDirectory == <<HubicClientCreateDirectory>>

HubicClientGetFileInfo(a) == Where(HubicCall("stat", a, a), {"notfound"}, "absent")
HubicGetFileInfo(a) == <<HubicClientGetFileInfo(a)>>

HubicClientDownloadFile(a) == HubicCall("get", a, a)
HubicDownloadFile(a) == <<HubicClientDownloadFile(a), Ask("read", a)>>

HubicClientUploadFile(a) == HubicCall("put", a, a)
HubicUploadFile(a) == <<HubicClientUploadFile(a)>>
=============================================================================
