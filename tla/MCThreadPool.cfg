SPECIFICATION Spec
CONSTANTS
    NumThreads = 3
    Graphs <- MCGraphs
    NumChunks = 3
    ChunkFactor = 1
    MaxGraphs = 2
INVARIANTS
    QuietBetweenGraphs
    InStep
    EachPartOnce
PROPERTIES
    ComputeReturns
CHECK_DEADLOCK FALSE
