SPECIFICATION Spec
CONSTANTS
  Apps = {a1, a2}
  Calls = {c1, c2}
  PortMin = 1
  PortMax = 2
  MaxPortAttempts = 2
  Faults = {}
  MaxFaults = 0
  None = None
INVARIANTS CollisionTriesNextPort
CHECK_DEADLOCK FALSE
