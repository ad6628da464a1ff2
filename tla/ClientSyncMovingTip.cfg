CONSTANTS
    None = None
    Birthday = 1
    MaxTip = 6
    MaxCount = 3
    MaxRestarts = 2
    PinTip = FALSE
SPECIFICATION SyncSpec
INVARIANT NoGhostCoins
CHECK_DEADLOCK FALSE
