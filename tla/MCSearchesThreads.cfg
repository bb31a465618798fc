CONSTANTS
    Nodes = {0, 1, 2, 3, 4, 5, 6}
    Inf = 1000
    None = None
    Instances <- Ways
    ThreadInstances <- Ways
    TurnVariants <- NoVariants
    TopoVariants <- NoVariants
    ThreadVariants <- BufferedImproved
SPECIFICATION SpecSearches
INVARIANTS
    ThreadsAreShortest
