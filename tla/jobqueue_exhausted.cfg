SPECIFICATION Spec
CONSTANTS
  Jobs = {j1}
  Workers = {w1, w2}
  MaxAttempts = 2
  LockSeconds = 2
  RetryDelays <- Delays
  OutboxBackoff <- Delays
  OutboxMaxAttempts = 3
  Faults = {"abort", "connection"}
  MaxFaults = 1
  None = None
PROPERTIES ExhaustedAfterRecovery
CHECK_DEADLOCK FALSE
