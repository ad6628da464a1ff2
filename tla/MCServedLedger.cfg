CONSTANTS
    Other = Other
    Nums = Nums
    None = None
    NeverSpent = NeverSpent
    Keys = {k1}
    MaxBlocks = 2
    MaxTxs = 2
    MaxInputs = 1
    MaxOutputs = 2
    Width = 8
    MaxIds = 2
    Failed = Failed
    Absent = Absent
    UndoError = UndoError
    Fundings <- MCFundings
    Outputs <- MCOutputs
    MaxStoreTxs = 2
    MaxStoreBlocks = 2
    UndoData <- MCUndoData
    Messages <- MCMessages
    MaxMessages = 2
    Unread = Unread
SPECIFICATION WireSpec
INVARIANTS SpendsExact StoredWellFormed ReuseFlagged
    WalkRecovers CutThroughBalances RoundTrip DamageDetected
    FramesExact PathsAgree UndoAligned
CHECK_DEADLOCK FALSE
