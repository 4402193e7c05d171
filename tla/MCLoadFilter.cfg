CONSTANTS
    A = A
    B = B
    C = C
    D = D
    Class <- MCClass
    Chain <- MCChain
    Native <- MCNative
    Preset <- MCPreset
    NoRecord = NoRecord
    NoFile = NoFile
SPECIFICATION Spec
INVARIANT
    SavesUseTheSaveFilters
