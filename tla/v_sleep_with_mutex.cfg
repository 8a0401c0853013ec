CONSTANTS
  Session = {s1, s2, s3}
  NoOne = NoOne
  SyncPeriods = {0, 1}
  OrderModes = {TRUE}
  Dynamic = TRUE
  ErrorAction = "ABORT_SERVER"
  IoErrors = FALSE
  MaxSize = 2
  MaxTrx = 1
  MaxStatements = 3
  MaxCrashes = 0
SPECIFICATION Spec
SYMMETRY Symmetry
CHECK_DEADLOCK FALSE
INVARIANTS
  NoSleepWithMutex
