SPECIFICATION Spec
CONSTANTS
  a = a
  b = b
  c1 = c1
  c2 = c2
  Ids = {a}
  Chunks = {c1, c2}
  HostOf <- OwnHost
  Ignored = {}
  ExtraTime = 0
  MaxRunningTime = 1
  Threads = 1
  FastListing = FALSE
  InitialSnaps <- TwoRevisions
  Relax = {"exclusive"}
  MaxTime = 3
  MaxRev <- Revs3
  PruneOptions <- ExclusiveModes
INVARIANT Recoverable
CHECK_DEADLOCK FALSE
