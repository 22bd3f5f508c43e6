SPECIFICATION Spec
CONSTANTS
    Kinds <- AllKinds
    TaskKinds <- AllTasks
    MaxTries = 2
    MaxLost = 1
    Losing <- AllButACD
    Skipped <- NotKept
    MaxVersions = 3
INVARIANTS TypeOK Truthful ListingComplete WholeFiles
PROPERTIES KeepsChunk TasksEnd
