CONSTANTS
    Weapon = {"fist", "pistol", "supershotgun", "laser"}
    NoChange = "nochange"
    None = None
    BfgCells = 2
    MaxAmmo <- MCMaxAmmo
    ClipAmmo <- MCClipAmmo
    StartClip = 1
    MaxBeams = 2
    Travel = 2
    Netgame = {TRUE, FALSE}
SPECIFICATION FairSpec
INVARIANT WeaponIsReal
INVARIANT DebtIsSmall
INVARIANT CorpseIsDisarmed
PROPERTY ChangeGoesThrough
CHECK_DEADLOCK FALSE
