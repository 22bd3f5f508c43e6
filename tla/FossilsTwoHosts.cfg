SPECIFICATION Spec
CONSTANTS
  a = a
  b = b
  c1 = c1
  c2 = c2
  Ids = {a, b}
  Chunks = {c1, c2}
  HostOf <- OwnHost
  Ignored = {}
  ExtraTime = 0
  MaxRunningTime = 1
  Threads = 1
  FastListing = FALSE
  InitialSnaps <- TwoHosts
  Relax = {}
  MaxTime = 3
  MaxRev <- Revs32
  PruneOptions <- PlainModes
INVARIANTS Recoverable IInv
CHECK_DEADLOCK FALSE
