CONSTANTS
    Thinker = {t1, t2, t3}
    Sector = {1}
    None = None
    TagOf <- MCTagOf
    Maps <- MCMaps
    ManualRaise = {}
    ManualOpen = {}
    Stair <- MCStair
    MaxPlats = 1
    MaxCeilings = 1
    Line = {1, 2, 3, 4, 5, 6}
    LineTag <- MCLineTag
    Special <- MCSpecial
    Present <- MCPresent
    Tids = {5}
    Repeat = {3, 4}
    Switch = {3}
    Macro = {1, 2}
    Data <- MCData
    QueueSize = 2
    MaxButtons = 1
    MaxQueued = 2
    MaxLoads = 1
    SaveFresh = FALSE
SPECIFICATION FairSpec
INVARIANT TypeOK
INVARIANT SwitchReset
PROPERTY CounterRuns
PROPERTY MacroEnds
PROPERTY QueueServed
