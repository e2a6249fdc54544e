SPECIFICATION FairSpec
CONSTANTS
  Messages = 2
  QueueSize = 1
  MaxRetries = 1
  Configs <- MCConfigs
  MaxSessions = 2
  MaxFrames = 1
INVARIANTS SessionTypeOK ClosedIsQuiet GracefulDrain StreamInOrder
PROPERTY NeverWedged
CHECK_DEADLOCK FALSE
