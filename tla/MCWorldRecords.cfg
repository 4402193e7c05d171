CONSTANTS
    main = main
    sub = sub
    n1 = n1
    n2 = n2
    f1 = f1
    f2 = f2
    A = A
    B = B
    U = U
    NoActor = NoActor
    None = None
    Levels <- MCLevels
    Name = {n1, n2}
    Fresh = {f1, f2}
    Class = {A, B, U}
    Value = {1, 2}
    Allowed = {A, B}
    Picky = {B}
    New = 1
    Threads = 4
    MinObjectsPerTask = 1
    StartWorld <- MCStartWorld
    MaxMoves = 2
    MaxLoads = 2
SPECIFICATION Spec
INVARIANTS
    WorldIInv
    EveryActorInOneShare
    FileIsTheWorld
    GameInstanceIsWhole
    LoadRestores
