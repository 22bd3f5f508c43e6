--------------------------- MODULE MCStorageTasks ---------------------------
EXTENDS StorageTasks

ObjectStores == {"s3", "s3c", "wasabi", "azure", "gcs", "storj", "dropbox", "swift", "hubic", "b2"}
FileSystems == {"file", "samba", "sftp", "webdav"}
Drives == {"onedrive", "business", "acd", "gcd", "filefabric"}
AllKinds == ObjectStores \cup FileSystems \cup Drives

AllTasks == {"upload", "download", "rewrite", "fossilize", "resurrect", "delete fossil", "delete chunk",
             "list", "revisions", "directory"}

\* A lost answer makes Amazon Cloud Drive delete the fossil instead of the chunk,
\* and after an ignored conflict the chunk instead of the fossil.
AllButACD == AllKinds \ {"acd"}

\* Deleting a fossil on B2 makes it a live chunk for a moment.
NotKept == {<<"b2", "delete fossil">>, <<"acd", "delete fossil">>, <<"acd", "resurrect">>}

OnlyACD == {"acd"}
PruneTasks == {"list", "fossilize"}
None == {}
=============================================================================
