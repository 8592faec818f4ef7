SPECIFICATION FairSpec
CONSTANTS
  Uplinks = {u1, u2}
  Invalid = {}
  QueueSize = 1
  MaxAttempts = 2
  Window = 2
  Poison = {u2}
  MaxRetries = 1
  Prefetch = 1
  Faults = {"publish"}
  MaxFaults = 2
  None = None
PROPERTIES GivenUpIsRedelivered
CHECK_DEADLOCK FALSE
