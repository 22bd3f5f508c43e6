SPECIFICATION Spec
CONSTANTS
  Threads = 2
  Restores <- FreshMixed
  AllowFailures = TRUE
  Faulty = {12}
INVARIANT RightData
CHECK_DEADLOCK FALSE
