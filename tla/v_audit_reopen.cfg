CONSTANTS
  Session = {w1}
  NoOne = NoOne
  Strategies = {"SEMISYNCHRONOUS"}
  RotationsAtStart = {2}
  LimitsAtStart = {1}
  MaxRotations = 2
  FileErrors = FALSE
  MaxRecords = 2
  MaxReopens = 1
  MaxSets = 0
  MaxCrashes = 0
SPECIFICATION Spec
CHECK_DEADLOCK FALSE
INVARIANT LogIsOpen
