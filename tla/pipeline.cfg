CONSTANTS
  Session = {s1, s2, s3, s4}
  NoOne = NoOne
  SyncPeriods = {0, 2}
  OrderModes = {TRUE}
  Dynamic = TRUE
  ErrorAction = "ABORT_SERVER"
  IoErrors = FALSE
  MaxSize = 2
  MaxTrx = 1
  MaxStatements = 4
  MaxCrashes = 0
SPECIFICATION Spec
SYMMETRY Symmetry
CHECK_DEADLOCK FALSE
INVARIANTS
  TypeOK
  CommitOrder
  OnePlace
  OneLeader
  OldFilesCommitted
