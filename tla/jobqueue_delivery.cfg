SPECIFICATION Spec
CONSTANTS
  Jobs = {j1}
  Workers = {w1, w2}
  MaxAttempts = 2
  LockSeconds = 2
  RetryDelays <- Delays
  OutboxBackoff <- Delays
  OutboxMaxAttempts = 2
  Faults = {"abort", "connection", "reapply", "publish"}
  MaxFaults = 2
  None = None
SYMMETRY Threads
INVARIANTS TypeOK HandlerExclusive WorkIsCurrent LeaseInv NeverForgotten
PROPERTIES TerminalRowFrozen
CHECK_DEADLOCK FALSE
