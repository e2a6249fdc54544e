CONSTANTS
    NoSub = NoSub
    MaxSubs = 2
    Objects <- MCObjects
    LastTime = 5
    Skew = 1
    SafeDelay = 2
    Lookback = 2
    LagThreshold = 1
    WindowPadding = 1
    MaxReplayWindow = 1
    MsgIDBucket = 8
    MaxFaults = 1
SPECIFICATION RepairFairSpec
PROPERTIES
    AckedIsReplayed
    RequestsCoverTheLag
    DrainedIsIdle
    Repaired
CHECK_DEADLOCK FALSE
