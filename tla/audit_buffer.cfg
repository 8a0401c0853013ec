CONSTANTS
  Writer = {w1, w2}
  NoOne = NoOne
  Size = 3
  Lengths = {1, 2, 3, 4}
  DropModes = {TRUE, FALSE}
  MaxRecords = 2
  MaxReopens = 1
SPECIFICATION FairSpec
CHECK_DEADLOCK FALSE
INVARIANTS
  TypeOK
  NothingLost
  NothingTorn
PROPERTIES
  FlushedRegionStable
  WritesReturn
  ShutdownDrains
