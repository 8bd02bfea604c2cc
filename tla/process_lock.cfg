SPECIFICATION Spec
CONSTANTS
  Procs = {p1, p2}
  Inodes = {i1, i2}
  None = None
  Reclaimers = {p1}
  MAX_ACQUIRE_ATTEMPTS = 2
  MAX_OWNER_OBSERVATION_ATTEMPTS = 2
  IoFaults = TRUE
  MaxPublish = 3
  MaxBirth = 1
INVARIANTS
  TypeOK
  MutualExclusion
  HolderRecordIntact
  ReclaimsOnlyStale
  ForgottenLockReported
PROPERTIES
  ImplementsLockService
CHECK_DEADLOCK FALSE
