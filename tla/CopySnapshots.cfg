\* Copies that fail and are repeated.
SPECIFICATION Spec
CONSTANTS
    a = a
    b = b
    c = c
    Chunks <- MCChunks
    DownloadThreads = 2
    UploadThreads = 1
    EmptyChunks = {}
    DestinationPruned = FALSE
    MaxCopies = 2
INVARIANTS TypeOK DestinationComplete StoppedWhenDone
PROPERTY CopyEnds
CHECK_DEADLOCK FALSE
