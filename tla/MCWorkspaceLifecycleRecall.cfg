SPECIFICATION Spec
CONSTANTS
  MaxCalls = 2
  MaxCrashes = 1
  MaxFaults = 0
CHECK_DEADLOCK FALSE
INVARIANTS RestoredIsRecalled
