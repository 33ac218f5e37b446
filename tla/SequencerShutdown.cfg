CONSTANTS
    NumChannels = 1
    Music = {}
    MusicTracks = 1
    Sound = {sfx}
    Endless = {}
    Broken = {}
    Mobj = {mo}
    None = None
SPECIFICATION FairSpec
PROPERTY ShutdownEnds
CHECK_DEADLOCK FALSE
