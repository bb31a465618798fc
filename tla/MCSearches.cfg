CONSTANTS
    Nodes = {0, 1, 2, 3, 4, 5, 6}
    Inf = 1000
    None = None
    Instances <- MCInstances
    ThreadInstances <- MCThreadInstances
    TurnVariants <- MCTurns
    TopoVariants <- MCTopo
    ThreadVariants <- MCThreads
SPECIFICATION SpecSearches
INVARIANTS
    TurnsAreShortest
    TopoAnswersAreDistances
    ThreadsAreShortest
PROPERTIES
    EveryQueryEnds
