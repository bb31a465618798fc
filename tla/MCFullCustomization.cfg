CONSTANTS
    N = 7
    Graph <- MCGraph
    Inf = 12
    Metrics <- MCMetrics
    Threads = {t1, t2}
    Cells <- MCCells
    Root <- MCRoot
    Small = 2
    Threshold = 2
    TargetLists <- MCTargetLists
    ChunkCounts = {2, 4, 8}
SPECIFICATION SpecMC
INVARIANTS
    SlicesSuffice
    NoConcurrentAccess
    WeightsAreDistances
    ModifiedIsExact
    ReducedIsExact
    ReducedUnpacks
    EnoughChunks
    NearestAreFound
PROPERTIES
    ImplementsCustomization
    CustomizationEnds
CHECK_DEADLOCK FALSE
