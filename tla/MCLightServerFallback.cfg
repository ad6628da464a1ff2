CONSTANTS
    Block <- MCBlock
    Outpoint <- MCOutpoint
    NoBlock = NoBlock
    NoRow = NoRow
    NoFile = NoFile
    Absent = Absent
    Torn = Torn
    Height <- MCHeight
    Parent <- MCParent
    Inputs <- MCInputs
    Indexed <- MCIndexed
    Slots <- MCSlots
    Chains <- MCChains
    MaxHeight = 4
    EmitStart = 1
    FinalityDepth = 1
    FlushBlocks = 2
    FetchBatch = 2
    ReorgDepth = 0
    MaxCrashes = 2
    None = None
    Requests <- MCRequests
SPECIFICATION ServingSpec
INVARIANT ExtraFilesHarmless
CHECK_DEADLOCK FALSE
