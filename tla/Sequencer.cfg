CONSTANTS
    NumChannels = 2
    Music = {mus}
    MusicTracks = 2
    Sound = {sfx}
    Endless = {mus}
    Broken = {mus}
    Mobj = {mo}
    None = None
SPECIFICATION FairSpec
INVARIANT OriginsLive
INVARIANT TracksInStep
INVARIANT RequestHolds
PROPERTY StopsEnd
CHECK_DEADLOCK FALSE
