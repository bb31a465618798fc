CONSTANTS
    Nodes = {0, 1, 2, 3, 4, 5, 6}
    Inf = 1000
    None = None
    Instances <- Ties
    ThreadInstances <- Ties
    TurnVariants <- SymmetricAlternating
    TopoVariants <- NoVariants
    ThreadVariants <- NoVariants
SPECIFICATION SpecSearches
INVARIANTS
    TurnsAreShortest
