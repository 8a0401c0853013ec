CONSTANTS
  Session = {t1, t2}
  Slave = {r1}
  OrderModes = {TRUE, FALSE}
  WaitNoSlave = FALSE
  AutoPosition = TRUE
  MaxTrx = 2
  MaxGroup = 2
  MaxToggles = 1
  MaxDrops = 2
SPECIFICATION FairSpec
CHECK_DEADLOCK FALSE
INVARIANTS
  TypeOK
  YesMeansReceived
  WaitersListed
  NodeOrAcknowledged
  NobodySleepsWhenOff
PROPERTIES
  CommitsReturn
  SwitchesOnAgain
