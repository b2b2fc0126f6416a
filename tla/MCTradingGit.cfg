SPECIFICATION Spec
CONSTANTS
  a1 = a1
  a2 = a2
  Approvers = {a1, a2}
  MaxOps = 2
  MaxHash = 2
  MaxRecords = 1
  MaxFails = 1
  MaxCrashes = 1
CHECK_DEADLOCK FALSE
INVARIANTS TypeOK OneWriter ShownIsWritten HashChain AtMostOnce HonestLog FileBeginsLog
PROPERTIES WriteIsExclusive WalletReleased ImplementsGate
