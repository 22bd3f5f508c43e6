SPECIFICATION Spec
CONSTANTS
  Threads = 2
  Restores <- FirstMissing
  AllowFailures = FALSE
  Faulty = {}
PROPERTY DownloadsComplete
CHECK_DEADLOCK FALSE
