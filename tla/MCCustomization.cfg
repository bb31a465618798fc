CONSTANTS
    N = 4
    Graph <- CompleteGraph
    Inf = 16
    Metrics <- MCMetrics
SPECIFICATION SpecMC
INVARIANTS
    LowerTriangles
    UnpackingIsExact
    ComputesBasic
    OverlayKeepsDistances
    ChAnswersAreDistances
    HubsAreExact
CHECK_DEADLOCK FALSE
