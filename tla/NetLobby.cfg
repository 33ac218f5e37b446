CONSTANTS
  Client = {p1, p2, d1}
  Drone = {d1}
  NoClient = NoClient
  MaxNodes = 2
  MaxPlayers = 2
  MaxConnects = 2
  MaxUpsets = 2
SYMMETRY Addresses
SPECIFICATION Spec
INVARIANT NumbersAgree
INVARIANT PlayersShown
INVARIANT GameEnds
CHECK_DEADLOCK FALSE
