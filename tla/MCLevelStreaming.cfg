CONSTANTS
    Requests = 5
    West = West
    East = East
    S0 = S0
    S1 = S1
    Level <- MCLevel
    State <- MCState
    Fresh = S0
    Nothing = Nothing
SYMMETRY MCSymmetry
SPECIFICATION StreamingSpec
INVARIANT StreamingIInv
INVARIANT LevelsAreCached
INVARIANT FileIsOneMoment
INVARIANT LastLoadIsCurrent
PROPERTY LevelComesBack
