SPECIFICATION Spec
CONSTANTS
  Jobs = {j1, j2}
  FirstJob = j1
  MaxAttempts = 2
  Deletes = {d1, d2}
  Faults = {}
  MaxFaults = 0
INVARIANTS NoOrphanContainer
CHECK_DEADLOCK FALSE
