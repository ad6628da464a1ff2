CONSTANTS
    Width = 16
    Failed = Failed
    RiceKs = {0, 1, 7, 10}
    EscapedKs = {0, 1, 7}
    Thresholds = {128, 2048}
    KOverhead = 5
    UidSamples = {2, 3, 130, 258}
    Anchors = {258, 16386}
    MaxUids = 3
    MaxMeasured = 2
SPECIFICATION EstimateSpec
INVARIANT EliasChargedDirectly
CHECK_DEADLOCK FALSE
