SPECIFICATION Spec
CONSTANTS
  Threads = 2
  Restores <- AllRestores
  AllowFailures = FALSE
  Faulty = {11}
INVARIANTS TypeOK FilesPlanned RightData BuffersOwnedOnce QueueDrains ActiveChunks StoppedWhenIdle
PROPERTY RestoreEnds
CHECK_DEADLOCK FALSE
