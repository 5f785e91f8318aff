\* The mailbox runs receive callbacks inside send() / send_bcast().
CONSTANTS
    NumWorkers = 2
    Labels = {0, 1, 2, 3, 4, 5}
    Edges <- MCEdges
    Threshold = 3
    ShardOf <- MCShardOf
    SourceList <- MCSources
    MaxLevel = 6
    RecvInSend = TRUE
SPECIFICATION Spec
INVARIANT PopSafe
