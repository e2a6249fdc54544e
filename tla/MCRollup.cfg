CONSTANTS
    m1 = m1
    m2 = m2
    m3 = m3
    m4 = m4
    w1 = w1
    w2 = w2
    None = None
    Gap = 3
    Widths <- MCWidths
    Horizon = 4
    Messages <- MCMessages
    Sample <- MCSample
    Workers <- MCWorkers
    MaxFaults = 2
SPECIFICATION RollupFairSpec
INVARIANTS
    CountedOnce
    WidthsAgree
    EnergyCountedOnce
PROPERTY AllCounted
CHECK_DEADLOCK FALSE
