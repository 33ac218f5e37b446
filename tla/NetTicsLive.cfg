CONSTANTS
  TicMod = 16
  LowEdge = 4
  HighEdge = 11
  NumPlayers = 2
  NumDrones = 0
  MaxPlayers = 2
  BackupTics = 2
  ExtraTics = 0
  MaxAhead = 1
  Lead = 0
  MaxTic = 2
  MaxWire = 1
  MaxFaults = 1
  Lossy = {"up"}
  Leavers = {1}
SPECIFICATION FairSpec
PROPERTY Progress
CHECK_DEADLOCK FALSE
