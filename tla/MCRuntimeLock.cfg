SPECIFICATION Spec
CONSTANTS
  p1 = p1
  p2 = p2
  p3 = p3
  None = None
  Proc = {p1, p2, p3}
  MaxAttempts = 2
  MaxCrashes = 1
CHECK_DEADLOCK FALSE
INVARIANTS HolderOwnsPath
PROPERTIES HoldersResolve
