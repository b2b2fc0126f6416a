SPECIFICATION Spec
CONSTANTS
  Keyless = FALSE
  DEGRADED_THRESHOLD = 2
  OFFLINE_THRESHOLD = 3
  MayDisable = TRUE
  MayClose = TRUE
  MaxFlaps = 2
  MaxCalls = 4
  MaxNudges = 1
CHECK_DEADLOCK FALSE
INVARIANTS RecoveryIsAlive OfflineByFailuresRecovers
PROPERTIES DisabledIsFinal Recovers ConnectSettlesAtLast
