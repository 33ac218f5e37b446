CONSTANTS
  TicMod = 16
  LowEdge = 4
  HighEdge = 11
  NumPlayers = 1
  NumDrones = 1
  MaxPlayers = 2
  BackupTics = 2
  ExtraTics = 1
  MaxAhead = 1
  Lead = 0
  MaxTic = 3
  MaxWire = 1
  MaxFaults = 2
  Lossy = {"up", "down"}
  Leavers = {}
SPECIFICATION Spec
INVARIANT SendQueueKept
CHECK_DEADLOCK FALSE
