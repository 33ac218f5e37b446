CONSTANTS
    Mobj = {m1, m2, m3}
    Fade = {f1}
    Marker = {k1}
    Sector = {s1}
    None = None
    MobjHead = MobjHead
    Switchable = FALSE
    MaxLeaks = 1
    Games <- MCGames
SPECIFICATION Spec
SYMMETRY Addresses
INVARIANT TypeOK
INVARIANT HeldIsLinked
INVARIANT NeverUndercounted
INVARIANT TurnsInOrder
INVARIANT FreedInTime
