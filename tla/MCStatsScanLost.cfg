CONSTANTS
    Other = Other
    Window = 2
    Chains <- MCChains
    Txs <- MCTxs
    FirstTxid <- MCFirstTxid
    StartHeight = 1
    Blocks = 3
    BatchSize = 2
    FinalityDepth = 1
    Every = 1
    Keep = 1
    ReorgDepth = 1
    MaxCrashes = 3
SPECIFICATION Spec
INVARIANT CheckpointMeansCommitted
CHECK_DEADLOCK FALSE
