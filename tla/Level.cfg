CONSTANTS
    Thinker = {t1, t2, t3, t4}
    Sector = {1, 2, 3}
    None = None
    TagOf <- MCTagOf
    ManualRaise = {3}
    ManualOpen = {3}
    Stair <- MCStair
    Maps <- MCMaps
    MaxPlats = 2
    MaxCeilings = 2
    Sync = {2}
    Next205 <- MCNext205
    SpecialAt <- MCSpecialAt
    SuspendMovers = FALSE
    WatchCombined = FALSE
SPECIFICATION Spec
SYMMETRY Addresses
INVARIANT HeldByMover
INVARIANT SlotsExact
INVARIANT WatchIsLive
INVARIANT CombinerLives
PROPERTY LoadKeepsMovers
PROPERTY ImplementsOwner
