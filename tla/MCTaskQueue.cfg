CONSTANTS
    t1 = t1
    t2 = t2
    t3 = t3
    p1 = p1
    p2 = p2
    Task <- MCTask
    NoTask = NoTask
    Preset <- MCPreset
    NoPreset = NoPreset
    DefaultPreset = p1
SPECIFICATION Spec
INVARIANTS
    TypeOK
    OnlyHeadRuns
    FinishedOnce
    RefusedHasFailed
    QueueUsesActivePreset
PROPERTIES
    ImplementsSerialRequests
    EveryRequestIsServed
