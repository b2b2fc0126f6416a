SPECIFICATION Spec
CONSTANTS
  MaxCalls = 3
  MaxCrashes = 2
  MaxFaults = 2
INVARIANTS Settled CheckoutSurvives WorkHasItsDesk NoHalfAbsorb
CHECK_DEADLOCK FALSE
