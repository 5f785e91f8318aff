\* A delegate (label 0) as the only source.
CONSTANTS
    NumWorkers = 2
    Labels = {0, 1, 2, 3, 4, 5}
    Edges <- MCEdges
    Threshold = 3
    ShardOf <- MCShardOf
    SourceList <- MCDelegateSource
    MaxLevel = 6
    RecvInSend = FALSE
SPECIFICATION Spec
INVARIANT FinalLevels
