CONSTANTS
  Session = {s1, s2, s3}
  NoOne = NoOne
  SyncPeriods = {1}
  OrderModes = {TRUE, FALSE}
  Dynamic = FALSE
  ErrorAction = "ABORT_SERVER"
  IoErrors = FALSE
  MaxSize = 2
  MaxTrx = 2
  MaxStatements = 5
  MaxCrashes = 1
SPECIFICATION Spec
SYMMETRY Symmetry
CHECK_DEADLOCK FALSE
INVARIANTS
  SyncedBeforeVisible
  AckedIsCommitted
  RefusedLosesNothing
PROPERTIES
  SnapshotFreezes
  ImplementsAtomicCommit
