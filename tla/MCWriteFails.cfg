CONSTANTS
    t1 = t1
    t2 = t2
    s1 = s1
    s2 = s2
    A = A
    B = B
    x = x
    y = y
    Task <- MCTask
    NoTask = NoTask
    Preset <- MCPreset
    NoPreset = NoPreset
    DefaultPreset <- Async
    Slot <- MCOneSlot
    NoSlot = NoSlot
    Map <- MCMap
    NoMap = NoMap
    LostMap = LostMap
    State <- MCOneState
    Fresh = x
    Bare = x
    FirstMap = A
    Missing = Missing
    Torn = Torn
    Nothing = Nothing
    Asked <- MCAskedAll
    OldFile <- MCOldElsewhere
    Crashes = FALSE
    WritesFail = TRUE
SPECIFICATION SaveSafety
INVARIANT
    SuccessIsDurable
CHECK_DEADLOCK FALSE
