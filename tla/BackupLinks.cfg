\* A hard link root that is gone when it is packed.
SPECIFICATION Spec
CONSTANTS
    Inode <- MCInode
    Outside <- MCOutside
    Contents <- MCContents
    FirstData <- MCTwoFiles
    CutBytes <- MCCutBytes
    MaxChunkSize = 2
    Threads = 2
    FastListing = TRUE
    InMemory = FALSE
    RootsMayFail = TRUE
    KeepAlive = TRUE
    MaxRuns = 3
    MaxChanges = 1
INVARIANT RightContent
CHECK_DEADLOCK FALSE
