SPECIFICATION FairSpec
CONSTANTS
  Apps = {a1, a2}
  Calls = {c1, c2, c3}
  PortMin = 1
  PortMax = 2
  MaxPortAttempts = 2
  Faults = {"daemon", "outsider", "stop", "restart"}
  MaxFaults = 2
  None = None
INVARIANTS TypeOK ContainerHasNetwork NoForeignConflict
PROPERTIES ImplementsService EveryCallEnds
CHECK_DEADLOCK FALSE
