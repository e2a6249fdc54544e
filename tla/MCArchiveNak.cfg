CONSTANTS
    m1 = m1
    m2 = m2
    w1 = w1
    w2 = w2
    Messages <- MCMessages
    Workers <- MCWorkers
    MaxRecords = 2
    DedupMax = 2
    OutboxMax = 1
    Modes <- MCModeNak
SPECIFICATION ArchiveSpec
INVARIANT AckedIsStored
CHECK_DEADLOCK FALSE
