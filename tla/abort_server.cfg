CONSTANTS
  Session = {s1, s2, s3}
  NoOne = NoOne
  SyncPeriods = {1}
  OrderModes = {TRUE, FALSE}
  Dynamic = TRUE
  ErrorAction = "ABORT_SERVER"
  IoErrors = TRUE
  MaxSize = 1
  MaxTrx = 1
  MaxStatements = 3
  MaxCrashes = 0
SPECIFICATION FairSpec
CHECK_DEADLOCK FALSE
INVARIANTS
  LoggedIsRecovered
  UnloggedIsMarked
PROPERTIES
  StatementsReturn
