CONSTANTS
    Index = {1, 2, 3}
    Value <- MCValue
    Default <- MCDefault
    Update <- MCUpdate
    Timestamps = 3
SPECIFICATION SpecVectors
PROPERTIES
    ImplementsVector
    ClearlistImplementsVector
    HeapImplementsQueue
    HeapImplementsLabelQueue
