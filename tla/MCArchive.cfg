CONSTANTS
    m1 = m1
    m2 = m2
    w1 = w1
    w2 = w2
    Messages <- MCMessages
    Workers <- MCWorkers
    MaxRecords = 2
    DedupMax = 1
    OutboxMax = 1
    Modes <- MCModes
SPECIFICATION ArchiveFairSpec
INVARIANTS
    ArchiveTypeOK
    ManifestMatchesObject
    CrashesLoseNothing
PROPERTIES
    ObjectsAreFinal
    Settles
CHECK_DEADLOCK FALSE
