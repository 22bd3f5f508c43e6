SPECIFICATION Spec
CONSTANTS
  Policies <- ThreePolicies
  Tags = {"", "t"}
  Filter = {"t"}
  DayLength = 2
  MaxTime = 11
  MaxBackups = 5
INVARIANTS TypeOK PolicyHeld HistoryCovered
CHECK_DEADLOCK FALSE
