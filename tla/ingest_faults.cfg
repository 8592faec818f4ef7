SPECIFICATION FairSpec
CONSTANTS
  Uplinks = {u1, u2, u3}
  Invalid = {u3}
  QueueSize = 1
  MaxAttempts = 2
  Window = 2
  Poison = {u2}
  MaxRetries = 1
  Prefetch = 1
  Faults = {"publish", "disconnect", "stop", "crash", "connection", "die", "database", "timeout", "dead letter"}
  MaxFaults = 2
  None = None
INVARIANTS TypeOK AckedIsAccounted BroadcastOnce
PROPERTIES EverySettles
CHECK_DEADLOCK FALSE
