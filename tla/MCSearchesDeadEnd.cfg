CONSTANTS
    Nodes = {0, 1, 2, 3, 4, 5, 6}
    Inf = 1000
    None = None
    Instances <- Flags
    ThreadInstances <- Flags
    TurnVariants <- NoVariants
    TopoVariants <- CoreFirst
    ThreadVariants <- NoVariants
SPECIFICATION SpecSearches
INVARIANTS
    EveryAnswerIsShortest
