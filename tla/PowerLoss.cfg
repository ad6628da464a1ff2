CONSTANTS
    Block <- MCBlock
    Outpoint <- MCOutpoint
    NoBlock = NoBlock
    NoRow = NoRow
    NoFile = NoFile
    Absent = Absent
    Torn = Torn
    Height <- MCHeight
    Parent <- MCParent
    Inputs <- MCInputs
    Indexed <- MCIndexed
    Slots <- MCSlots
    Chains <- MCChains
    MaxHeight = 5
    EmitStart = 1
    FinalityDepth = 1
    FlushBlocks = 3
    FetchBatch = 2
    ReorgDepth = 1
    MaxCrashes = 1
SPECIFICATION LossSpec
INVARIANT FilesCoverTip
CHECK_DEADLOCK FALSE
