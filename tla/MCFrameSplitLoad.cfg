SPECIFICATION LoadSpec
CONSTANTS
    p1 = p1
    p2 = p2
    a1 = a1
    a2 = a2
    b1 = b1
    Sublevels = 2
    Actor <- MCActor
    LevelOf <- MCLevelOf
    Ignored = {p2}
    Slow = {a2}
INVARIANTS
    LoadIInv
    LoadIsComplete
    OnlyCutActorsRepeat
PROPERTY
    LoadEnds
CHECK_DEADLOCK FALSE
