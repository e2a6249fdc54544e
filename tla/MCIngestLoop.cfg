CONSTANTS
    w1 = w1
    w2 = w2
    c1 = c1
    c2 = c2
    Workers <- MCWorkers
    Starts = 2
    Tokens <- MCTokens
    NoToken = NoToken
    Configs <- MCConfigs
    Off = Off
    Scenarios <- MCScenarios
SPECIFICATION LoopFairSpec
INVARIANTS
    LiveIsRegistered
    AtMostOneLive
PROPERTIES
    LostHeartbeatStopsSession
    Converges
