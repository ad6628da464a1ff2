CONSTANTS
    Block <- MCBlock
    Outpoint <- MCOutpoint
    NoBlock = NoBlock
    NoRow = NoRow
    NoFile = NoFile
    Absent = Absent
    Torn = Torn
    Height <- MCHeight
    Parent <- MCParent
    Inputs <- MCInputs
    Indexed <- MCIndexed
    Slots <- MCSlots
    Chains <- MCChains
    MaxHeight = 5
    EmitStart = 1
    FinalityDepth = 1
    FlushBlocks = 3
    FetchBatch = 2
    ReorgDepth = 2
    MaxCrashes = 2
SPECIFICATION Spec
INVARIANTS TypeOK FilesCoverTip UidsDense RowsExact PointersResolve ManifestBehindTip
CHECK_DEADLOCK FALSE
