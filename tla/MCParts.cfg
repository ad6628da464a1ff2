CONSTANTS
    Task = {t1, t2}
    Free = Free
    MinGap = 2
    FirstDelay = 1
    DelayCap = 2
    RetryAfter = {3}
    Attempts = 2
    MaxTime = 9
    N = 3
    Callers = {r1, r2}
    b1 = b1
    b2 = b2
    b3 = b3
    b4 = b4
    c2 = c2
    c3 = c3
    c4 = c4
    Chains <- MCChains
    Start = 1
    Count = 3
    BatchSize = 2
    Buffer = 2
    NoUndo = NoUndo
    Tips = {b4, c4}
    NoTip = NoTip
    Threads = 2
    Capacity = 1
    MaxCalls = 3
    Other = Other
    Window = 1
    Keys = {k1}
    PreScanOutputs = 1
    MaxBlocks = 2
    MaxTxs = 2
    MaxInputs = 2
    MaxOutputs = 1
    MaxItems = 4
    Width = 16
    Failed = Failed
    RiceKs = {0, 1, 7, 10}
    EscapedKs = {0, 1, 7}
    Thresholds = {128, 2048}
    KOverhead = 5
    UidSamples = {2, 3, 130, 258}
    Anchors = {258, 16386}
    MaxUids = 3
    MaxMeasured = 2
    None = None
    Birthday = 1
    MaxTip = 6
    MaxCount = 3
    MaxRestarts = 2
    PinTip = TRUE
SPECIFICATION PartsSpec
INVARIANTS BackoffCovered FallsThrough StreamInOrder
    UtxoExact HashCoversWindow SpentUidsExact CountsExact PathAsConsensus EstimatesExact
    NoGhostCoins NoMissedCoins
PROPERTIES GapKept CallsReturn CatchesUp
CHECK_DEADLOCK FALSE
