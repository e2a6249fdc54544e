SPECIFICATION FairSpec
CONSTANTS
  MaxCollectors = 2
  Records = {1, 2}
  MaxUnread = 1
  MaxBytes = 3
  MaxAge = 1
  Bounds <- MCBounds
INVARIANTS EdgeTypeOK SecretStaysValid QueuedIsKept OutboxWithinBounds
PROPERTIES Replayed
CHECK_DEADLOCK FALSE
