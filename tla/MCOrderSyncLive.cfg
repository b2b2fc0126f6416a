SPECIFICATION Spec
CONSTANTS
  o1 = o1
  o2 = o2
  x1 = x1
  l1 = l1
  poller = poller
  route = route
  r1 = r1
  Own = {o1, o2}
  External = {}
  Legs = {l1}
  Size = 1
  Poller = poller
  Others = {}
  Readers = {r1}
  MayFillAtOnce = FALSE
  MayLose = FALSE
  MayEnd = FALSE
  MayEndLate = TRUE
  Listings = {TRUE, FALSE}
  MayForget = FALSE
  MayBePending = FALSE
  Budgets <- LiveBudgets
CHECK_DEADLOCK FALSE
PROPERTIES EndsAreLearnt DriftHeals
INVARIANTS LoggedEndIsReal
