CONSTANTS
  t1 = t1 t2 = t2 h1 = h1
  Thread <- MCThread
  HighPriority <- MCHighPriority
  X_LOCK_DECR = 4
  MaxDepth = 3
  MaxRequests = 4
  MaxMonitor = 1
SYMMETRY MCSymmetry
SPECIFICATION Spec
INVARIANTS TypeOK Exclusive LockWordCounts WriterKnown NobodyForgotten
CHECK_DEADLOCK FALSE
