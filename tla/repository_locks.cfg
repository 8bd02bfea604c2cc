SPECIFICATION Spec
CONSTANTS
  Procs = {p1, p2, p3}
  None = None
  Faults = TRUE
  MaxToken = 4
  MaxBirth = 1
SYMMETRY ProcSymmetry
INVARIANTS
  TypeOK
  MaintenanceExcludesFlow
  FlowOperationOwned
  NoSilentResidue
CHECK_DEADLOCK FALSE
