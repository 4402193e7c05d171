CONSTANTS
    s1 = s1
    s2 = s2
    n1 = n1
    Slot = {s1, s2}
    Node = {n1}
    Game = Game
    Nobody = Nobody
    Freed = Freed
    MaxTasks = 2
SPECIFICATION FairSpec
INVARIANTS
    ToldOnce
    ListsMissNoSlot
    DeletedIsGone
PROPERTIES
    EveryTaskIsTold
    NodesGoOn
CHECK_DEADLOCK FALSE
