CONSTANTS
    t1 = t1
    t2 = t2
    s1 = s1
    s2 = s2
    A = A
    B = B
    x = x
    y = y
    Task <- MCTask
    NoTask = NoTask
    Preset <- MCTwoPresets
    NoPreset = NoPreset
    DefaultPreset <- Split
    Slot <- MCOneSlot
    NoSlot = NoSlot
    Map <- MCMap
    NoMap = NoMap
    LostMap = LostMap
    State <- MCOneState
    Fresh = x
    Bare = x
    FirstMap = A
    Missing = Missing
    Torn = Torn
    Nothing = Nothing
    Asked <- MCAskedAll
    OldFile <- MCOldElsewhere
    Crashes = TRUE
    WritesFail = FALSE
SPECIFICATION SaveSpec
PROPERTIES
    EveryRequestIsTold
CHECK_DEADLOCK FALSE
