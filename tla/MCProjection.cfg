CONSTANTS
    m1 = m1
    m2 = m2
    m3 = m3
    w1 = w1
    w2 = w2
    a = a
    b = b
    NoMessage = NoMessage
    Messages <- MCMessages
    Workers <- MCWorkers
    Metrics <- MCMetrics
    Time <- MCTime
    Value <- MCValue
    MaxFaults = 2
SPECIFICATION ProjectionFairSpec
INVARIANTS
    MetricsAreTruthful
PROPERTIES
    SnapshotAdvances
    AppliedOnce
    NewestWins
CHECK_DEADLOCK FALSE
