SPECIFICATION FairSpec
CONSTANTS
  Jobs = {j1}
  Workers = {w1, w2}
  MaxAttempts = 2
  LockSeconds = 2
  RetryDelays <- Delays
  OutboxBackoff <- Delays
  OutboxMaxAttempts = 3
  Faults = {"abort", "connection", "republish", "reapply", "publish", "overrun"}
  MaxFaults = 1
  None = None
PROPERTIES EventuallyFinished
CHECK_DEADLOCK FALSE
