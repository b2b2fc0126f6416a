SPECIFICATION Spec
CONSTANTS
  MaxCalls = 3
CHECK_DEADLOCK FALSE
INVARIANTS OneTurn DeletedStaysQuiet NoOrphanPi
PROPERTIES TurnsExclude LeaseReturns
