\* A prune before a backup that resumes without looking for the chunks.
SPECIFICATION Spec
CONSTANTS
    Inode <- MCInode
    Outside = {}
    Contents <- MCContents
    FirstData <- MCTwoFiles
    CutBytes <- MCCutBytes
    MaxChunkSize = 2
    Threads = 1
    FastListing = FALSE
    InMemory = FALSE
    RootsMayFail = FALSE
    KeepAlive = FALSE
    MaxRuns = 3
    MaxChanges = 1
INVARIANT LatestComplete
CHECK_DEADLOCK FALSE
