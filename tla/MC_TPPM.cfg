\* Walks of three edges through a delegate on two ranks, delivery only while polling.
CONSTANTS
    NumWorkers = 2
    Labels = {0, 1, 2, 3}
    Edges <- MCEdges
    Threshold = 3
    ShardOf <- MCShardOf
    Target = 0
    MaxItr = 2
    Spi = 1
    Meta <- MCMeta
    Pattern <- MCPattern
    PatternIndices <- MCPatternIndices
    RecvInSend = FALSE
SPECIFICATION Spec
INVARIANT FoundLoops
PROPERTY TPPMTerminates
