CONSTANTS
    N = 5
    Inputs <- MCInputs
SPECIFICATION SpecPreprocessing
INVARIANTS
    ChordalWhenDone
    FillIsExact
    PassesValidation
    SameShortcuts
    BlocksAreExact
    NodesAreClassified
CHECK_DEADLOCK FALSE
