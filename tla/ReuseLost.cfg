CONSTANTS
    Other = Other
    Nums = Nums
    Keys = {k1}
    MaxBlocks = 2
    MaxTxs = 2
    MaxInputs = 1
    MaxOutputs = 2
SPECIFICATION ServiceSpec
INVARIANT ReuseDetected
CHECK_DEADLOCK FALSE
