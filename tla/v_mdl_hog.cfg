CONSTANTS
  c1 = c1 c2 = c2 c3 = c3 t1 = t1 t2 = t2
  Context <- MCContext
  Key <- HogTable
  Requests <- HogRequests
  Upgrades <- MCUpgrades
  Downgrades <- MCDowngrades
  max_write_lock_count = 1
  MAX_SEARCH_DEPTH = 4
  MaxRequests = 2
  MaxAborts = 0
SYMMETRY MCSymmetry
SPECIFICATION Spec
INVARIANT WaitersCanGoOn
CHECK_DEADLOCK FALSE
