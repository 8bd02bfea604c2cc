SPECIFICATION Spec
CONSTANTS
  Procs = {p1, p2}
  Inodes = {i1, i2}
  None = None
  Reclaimers = {p1, p2}
  MAX_ACQUIRE_ATTEMPTS = 2
  MAX_OWNER_OBSERVATION_ATTEMPTS = 2
  IoFaults = FALSE
  MaxPublish = 3
  MaxBirth = 1
INVARIANT ReclaimsOnlyStale
CHECK_DEADLOCK FALSE
