SPECIFICATION Spec
CONSTANTS
  a = a
  b = b
  c1 = c1
  c2 = c2
  Ids = {a}
  Chunks = {c1, c2}
  HostOf <- OwnHost
  Ignored = {}
  ExtraTime = 0
  MaxRunningTime = 1
  Threads = 1
  FastListing = TRUE
  InitialSnaps <- TwoRevisions
  Relax = {}
  MaxTime = 2
  MaxRev <- Revs3
  PruneOptions <- AllModes
INVARIANTS TypeOK TasksFindTheirChunk
PROPERTY KeepsSnapshots
CHECK_DEADLOCK FALSE
