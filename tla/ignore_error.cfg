CONSTANTS
  Session = {s1, s2, s3}
  NoOne = NoOne
  SyncPeriods = {1}
  OrderModes = {TRUE}
  Dynamic = TRUE
  ErrorAction = "IGNORE_ERROR"
  IoErrors = TRUE
  MaxSize = 2
  MaxTrx = 1
  MaxStatements = 3
  MaxCrashes = 0
SPECIFICATION FairSpec
CHECK_DEADLOCK FALSE
INVARIANTS
  AckedIsCommitted
PROPERTIES
  StatementsReturn
