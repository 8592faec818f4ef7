SPECIFICATION Spec
CONSTANTS
  Jobs = {j1, j2}
  FirstJob = j1
  MaxAttempts = 2
  Deletes = {d1, d2}
  Faults = {"refused", "lost", "database", "commit", "crash", "deadline", "provisioner", "redelivery"}
  MaxFaults = 3
INVARIANTS TypeOK ContainerGoesWithRow NoOrphanInChirpStack PersistedHasNamespace DeletionCanBeRepeated RunningHasContainer
CHECK_DEADLOCK FALSE
