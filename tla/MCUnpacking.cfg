CONSTANTS
    N = 5
    Graph <- MCGraph
    Inf = 16
    Metrics <- MCMetrics
    Updates <- MCUpdates
    Queries <- MCQueries
    Selections <- MCSelections
SPECIFICATION SpecZero
INVARIANTS
    UnpackedPathsEnd
