CONSTANTS
    t1 = t1
    t2 = t2
    s1 = s1
    s2 = s2
    A = A
    B = B
    x = x
    y = y
    Task <- MCTask
    NoTask = NoTask
    Preset <- MCPreset
    NoPreset = NoPreset
    DefaultPreset <- Async
    Slot <- MCSlot
    NoSlot = NoSlot
    Map <- MCMap
    NoMap = NoMap
    LostMap = LostMap
    State <- MCState
    Fresh = x
    Bare = y
    FirstMap = A
    Missing = Missing
    Torn = Torn
    Nothing = Nothing
    Asked <- MCAsked
    OldFile <- MCOldFile
    Crashes = FALSE
    WritesFail = FALSE
SPECIFICATION SaveSafety
INVARIANTS
    SaveTypeOK
    SuccessIsDurable
    OnlyTheSaveAtWorkIsAtRisk
PROPERTIES
    OverrideIsAsked
    LoadsSeeTheLastSave
    LoadBringsTheGameBack
    LoadsFailForCause
SYMMETRY MCSymmetry
CHECK_DEADLOCK FALSE
