\* Backups with failures and resuming, in full.
SPECIFICATION Spec
CONSTANTS
    Inode <- MCInode
    Outside = {}
    Contents <- MCContents
    FirstData <- MCTwoFiles
    CutBytes <- MCCutBytes
    MaxChunkSize = 2
    Threads = 2
    FastListing = TRUE
    InMemory = FALSE
    RootsMayFail = FALSE
    KeepAlive = TRUE
    MaxRuns = 3
    MaxChanges = 1
INVARIANTS TypeOK RightContent ChunksStored IncompleteSound IncompleteStored NothingForgotten
CHECK_DEADLOCK FALSE
