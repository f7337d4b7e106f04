SPECIFICATION LiveSpec
CONSTANTS
    NThreads = 3
    Chunks = 3
    PerThread = 1
    MaxGraphs = 2
    Graphs <- MCGraphs
INVARIANTS
    PhasesInOrder
    AbortAgreed
    NobodyReads
    SameWork
    ChunksOnce
PROPERTIES
    GraphEnds
    FreeEnds
CHECK_DEADLOCK FALSE
