CONSTANTS
    Block <- MCBlock
    Outpoint <- MCOutpoint
    NoBlock = NoBlock
    NoRow = NoRow
    NoFile = NoFile
    Absent = Absent
    Torn = Torn
    Height <- MCHeight
    Parent <- MCParent
    Inputs <- MCInputs
    Indexed <- MCIndexed
    Slots <- MCSlots
    Chains <- MCChains
    MaxHeight = 5
    EmitStart = 1
    FinalityDepth = 1
    FlushBlocks = 3
    FetchBatch = 2
    ReorgDepth = 1
    MaxCrashes = 2
SPECIFICATION FairSpec
INVARIANTS CutThroughExact AgreesWithNode
PROPERTIES PublishesAtomically FollowsNode
CHECK_DEADLOCK FALSE
