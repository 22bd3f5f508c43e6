--------------------------- MODULE StorageBackends --------------------------
(***************************************************************************)
(* The backends side by side: the program each one runs for a method of    *)
(* the Storage interface, and what its server does with a request.  The    *)
(* servers are not part of the repository; they are as the backends use    *)
(* them.                                                                   *)
(***************************************************************************)
EXTENDS ObjectBackends, FileBackends, IdBackends, B2Backend

\* A call of a method of the interface.
Call(op, a, b) == [op |-> op, a |-> a, b |-> b]

Methods(c, list, delete, move, info, download, upload, mkdir) ==
    CASE c.op = "ListFiles"       -> list
      [] c.op = "DeleteFile"      -> delete
      [] c.op = "MoveFile"        -> move
      [] c.op = "GetFileInfo"     -> info
      [] c.op = "DownloadFile"    -> download
      [] c.op = "UploadFile"      -> upload
      [] c.op = "CreateDirectory" -> mkdir

\* Object stores have no directories to create.
Nothing == <<>>

Program(k, c) ==
    LET a == c.a
        b == c.b
    IN  CASE k = "s3" -> Methods(c, S3ListFiles(a), S3DeleteFile(a), S3MoveFile(a, b), S3GetFileInfo(a), S3DownloadFile(a), S3UploadFile(a), Nothing)
          [] k = "s3c" -> Methods(c, S3CListFiles(a), S3CDeleteFile(a), S3CMoveFile(a, b), S3CGetFileInfo(a), S3CDownloadFile(a), S3CUploadFile(a), Nothing)
          [] k = "wasabi" -> Methods(c, WasabiListFiles(a), WasabiDeleteFile(a), WasabiMoveFile(a, b), WasabiGetFileInfo(a), WasabiDownloadFile(a), WasabiUploadFile(a), Nothing)
          [] k = "azure" -> Methods(c, AzureListFiles(a), AzureDeleteFile(a), AzureMoveFile(a, b), AzureGetFileInfo(a), AzureDownloadFile(a), AzureUploadFile(a), Nothing)
          [] k = "gcs" -> Methods(c, GCSListFiles(a), GCSDeleteFile(a), GCSMoveFile(a, b), GCSGetFileInfo(a), GCSDownloadFile(a), GCSUploadFile(a), Nothing)
          [] k = "storj" -> Methods(c, StorjListFiles(a), StorjDeleteFile(a), StorjMoveFile(a, b), StorjGetFileInfo(a), StorjDownloadFile(a), StorjUploadFile(a), Nothing)
          [] k = "dropbox" -> Methods(c, DropboxListFiles(a), DropboxDeleteFile(a), DropboxMoveFile(a, b), DropboxGetFileInfo(a), DropboxDownloadFile(a), DropboxUploadFile(a), DropboxCreateDirectory)
          [] k = "swift" -> Methods(c, SwiftListFiles(a), SwiftDeleteFile(a), SwiftMoveFile(a, b), SwiftGetFileInfo(a), SwiftDownloadFile(a), SwiftUploadFile(a), Nothing)
          [] k = "hubic" -> Methods(c, HubicListFiles(a), HubicDeleteFile(a), HubicMoveFile(a, b), HubicGetFileInfo(a), HubicDownloadFile(a), HubicUploadFile(a), HubicCreateDirectory)
          [] k = "file" -> Methods(c, FileListFiles(a), FileDeleteFile(a), FileMoveFile(a, b), FileGetFileInfo(a), FileDownloadFile(a), FileUploadFile(a), FileCreateDirectory)
          [] k = "samba" -> Methods(c, SambaListFiles(a), SambaDeleteFile(a), SambaMoveFile(a, b), SambaGetFileInfo(a), SambaDownloadFile(a), SambaUploadFile(a), SambaCreateDirectory)
          [] k = "sftp" -> Methods(c, SFTPListFiles(a), SFTPDeleteFile(a), SFTPMoveFile(a, b), SFTPGetFileInfo(a), SFTPDownloadFile(a), SFTPUploadFile(a), SFTPCreateDirectory)
          [] k = "webdav" -> Methods(c, WebDAVListFiles(a), WebDAVDeleteFile(a), WebDAVMoveFile(a, b), WebDAVGetFileInfo(a), WebDAVDownloadFile(a), WebDAVUploadFile(a), WebDAVCreateDirectory)
          [] k = "onedrive" -> Methods(c, OneListFiles(a), OneDeleteFile(a), OneMoveFile(a, b), OneGetFileInfo(a), OneDownloadFile(a), OneUploadFile(a, FALSE), OneCreateDirectory)
          [] k = "business" -> Methods(c, OneListFiles(a), OneDeleteFile(a), OneMoveFile(a, b), OneGetFileInfo(a), OneDownloadFile(a), OneUploadFile(a, TRUE), OneCreateDirectory)
          [] k = "acd" -> Methods(c, ACDListFiles(a), ACDDeleteFile(a), ACDMoveFile(a, b), ACDGetFileInfo(a), ACDDownloadFile(a), ACDUploadFile(a), ACDCreateDirectory)
          [] k = "gcd" -> Methods(c, GCDListFiles(a), GCDDeleteFile(a), GCDMoveFile(a, b), GCDGetFileInfo(a), GCDDownloadFile(a), GCDUploadFile(a), GCDCreateDirectory("dir"))
          [] k = "filefabric" -> Methods(c, FFListFiles(a), FFDeleteFile(a), FFMoveFile(a, b), FFGetFileInfo(a), FFDownloadFile(a), FFUploadFile(a), FFCreateDirectory)
          [] k = "b2" -> Methods(c, B2ListFiles(a), B2DeleteFile(a), B2MoveFile(a, b), B2GetFileInfo(a), B2DownloadFile(a), B2UploadFile(a), Nothing)

\* How the credentials are renewed after 401; Hubic's in two requests.
LoginProgram(k) ==
    CASE k = "hubic"                    -> HubicRefreshToken \o HubicGetCredential
      [] k \in {"onedrive", "business"} -> OneRefreshToken
      [] k = "acd"                      -> ACDRefreshToken
      [] k = "b2"                       -> B2AuthorizeAccount
      [] OTHER                          -> Nothing

\* The storages with directories that must exist, and the ones where a fossil
\* is in a directory of its own.
NeedsDirectory == {"file", "samba", "sftp", "webdav", "filefabric", "acd", "gcd"}
Converting == {"onedrive", "business", "acd", "gcd"}

\* What can go wrong with a request, by storage.
FaultsOf(k) ==
    CASE k \in {"file", "samba"} -> {"denied"}
      [] k = "sftp"              -> {"denied", "drop"}
      [] k \in {"s3", "s3c", "wasabi", "azure", "gcs", "storj", "dropbox", "swift", "filefabric"}
                                 -> {"busy", "denied", "drop"}
      \* "it may return 404 even when the chunk exists" (DownloadChunk)
      [] k \in {"hubic", "webdav"} -> {"busy", "drop", "notfound"} \cup (IF k = "hubic" THEN {"expired"} ELSE {})
      [] OTHER                   -> {"busy", "throttled", "denied", "expired", "drop"}
=============================================================================
