SPECIFICATION LeaseFairSpec
CONSTANTS
    t1 = t1  t2 = t2
    Tokens <- MCTokens
    NoToken = NoToken
    MaxAttempts = 2
    MaxFence = 3
    MaxStray = 2
INVARIANTS
    LeaseTypeOK
    FencesDistinct
    OwnerOutranksStale
PROPERTIES
    NonOwnerIsHarmless
    ImplementsFencedLock
    ImplementsLeaseClient
    CancelledGivesUp
CHECK_DEADLOCK FALSE
