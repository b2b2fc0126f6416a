SPECIFICATION Spec
CONSTANTS
  auto1 = auto1
  user = user
  Automated = {auto1}
  Manual = {user}
  Batch = 2
  MaxOrdersPerHour = 1
  MaxOrdersPerDay = 2
  PauseAfterConsecutiveErrors = 2
  Hour = 1
  DayLength = 3
  MaxTime = 0
  MaxPushes = 2
  MaxEvents = 0
CHECK_DEADLOCK FALSE
INVARIANTS EveryAutomatedIsChecked
