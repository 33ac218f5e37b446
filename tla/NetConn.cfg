CONSTANTS
  MaxRetries = 1
  SilenceTicks = 4
  SleepTicks = 1
  LoopTicks = 1
  MaxDelay = 1
  MaxFaults = 1
  MaxConnects = 1
  Leaving = {"disconnect", "exit"}
SPECIFICATION FairSpec
INVARIANT HandshakeOrder
INVARIANT ReasonTruth
INVARIANT KeepalivesSuffice
PROPERTY ConnectionsEnd
CHECK_DEADLOCK FALSE
