SPECIFICATION Spec
CONSTANTS
    Kinds <- OnlyACD
    TaskKinds <- PruneTasks
    MaxTries = 1
    MaxLost = 1
    Losing <- OnlyACD
    Skipped <- None
    MaxVersions = 2
PROPERTIES KeepsChunk
