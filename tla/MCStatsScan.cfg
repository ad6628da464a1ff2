CONSTANTS
    Other = Other
    Window = 2
    Chains <- MCChains
    Txs <- MCTxs
    FirstTxid <- MCFirstTxid
    StartHeight = 1
    Blocks = 3
    BatchSize = 2
    FinalityDepth = 1
    Every = 2
    Keep = 1
    ReorgDepth = 1
    MaxCrashes = 3
SPECIFICATION FairSpec
INVARIANTS ResumesExactly RowsExact LossBounded
PROPERTY Completes
CHECK_DEADLOCK FALSE
