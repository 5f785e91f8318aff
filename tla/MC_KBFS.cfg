\* Two sources, delivery only while polling global_empty().
CONSTANTS
    NumWorkers = 2
    Labels = {0, 1, 2, 3, 4, 5}
    Edges <- MCEdges
    Threshold = 3
    ShardOf <- MCShardOf
    SourceList <- MCSources
    MaxLevel = 6
    RecvInSend = FALSE
SPECIFICATION Spec
INVARIANT TypeOK
INVARIANT LevelSound
INVARIANT FinalLevels
INVARIANT KBFSResult
PROPERTY KBFSTerminates
