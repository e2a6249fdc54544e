CONSTANTS
    None = None
    key = key
    Gap = 2
    Widths <- MCWidths
    Horizon = 4
    Envelopes <- MCEnvelopes
    LogLength = 4
SPECIFICATION RebuildSpec
INVARIANTS
    RebuildEqualsLive
    EnergyIsBounded
CHECK_DEADLOCK FALSE
