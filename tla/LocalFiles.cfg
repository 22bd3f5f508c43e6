\* Listing repositories and splitting files into chunks.
SPECIFICATION Spec
CONSTANTS
    Inputs <- MCInputs
    NoBackup <- MCNoBackup
    Width = 3
    Table <- MCTable
    MaskBits = 1
INVARIANTS TypeOK ListedInOrder ListedWhole StreamKept ChunkSizes SameChunks
PROPERTY PackingEnds
