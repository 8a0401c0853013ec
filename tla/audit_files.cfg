CONSTANTS
  Session = {w1, w2}
  NoOne = NoOne
  Strategies = {"ASYNCHRONOUS", "SYNCHRONOUS"}
  RotationsAtStart = {0, 3}
  LimitsAtStart = {1}
  MaxRotations = 3
  FileErrors = TRUE
  MaxRecords = 4
  MaxReopens = 1
  MaxSets = 1
  MaxCrashes = 1
SPECIFICATION Spec
SYMMETRY Symmetry
CHECK_DEADLOCK FALSE
INVARIANTS
  NewestKept
  SyncedUnlessRotated
