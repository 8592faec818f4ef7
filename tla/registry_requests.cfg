SPECIFICATION Spec
CONSTANTS
  Requests = {r1, r2, r3, r4}
  Apps = {a1, a2}
  Euis = {e1}
  Payloads <- OneField
  None = None
  Faults = {"refused", "cleanup", "lost", "database", "commit", "crash"}
  MaxFaults = 2
SYMMETRY Symmetry
INVARIANTS
  TypeOK
  DeviceRowIsProvisioned
  NoOrphanDevice
  NoOrphanTenant
  TenantDeletionRepeats
  LabelsAgree
  UsersLeftByTenant
CHECK_DEADLOCK FALSE
