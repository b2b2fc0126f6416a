SPECIFICATION Spec
CONSTANTS
  o1 = o1
  o2 = o2
  x1 = x1
  l1 = l1
  poller = poller
  route = route
  r1 = r1
  Own = {o1}
  External = {x1}
  Legs = {}
  Size = 1
  Poller = poller
  Others = {route}
  Readers = {}
  MayFillAtOnce = TRUE
  MayLose = TRUE
  MayEnd = TRUE
  MayEndLate = TRUE
  Listings = {TRUE, FALSE}
  MayForget = TRUE
  MayBePending = TRUE
  Budgets <- SafetyBudgets
CHECK_DEADLOCK FALSE
INVARIANTS FillsAreReal LoggedEndIsReal
