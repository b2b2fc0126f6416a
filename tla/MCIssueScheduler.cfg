SPECIFICATION Spec
CONSTANTS
  Issues = 1
  At = 6
  Period = 4
  Interval = 2
  Start = 5
  MaxTime = 12
  MaxFaults = 2
  MaxRefusals = 2
  MaxManual = 1
CHECK_DEADLOCK FALSE
PROPERTIES SlotFiresOnce RefusedIsRetried
