SPECIFICATION Spec
CONSTANTS
  Jobs = {j1, j2}
  Workers = {w1, w2}
  MaxAttempts = 1
  LockSeconds = 2
  RetryDelays <- Delays
  OutboxBackoff <- Delays
  OutboxMaxAttempts = 3
  Faults = {"abort", "connection", "republish", "reapply", "publish"}
  MaxFaults = 1
  None = None
SYMMETRY Threads
PROPERTIES InstanceShowsVerdict ImplementsLifecycle
CHECK_DEADLOCK FALSE
