SPECIFICATION Spec
CONSTANTS
  Procs = {p1, p2}
  None = None
  Worktrees = {f, w}
  featureRoot = f
  promoteFeatureWorktreeToBase = FALSE
  Failures = {"git", "conflict", "lock"}
  Users = {"edit", "commit", "fetch", "feature", "switch"}
  MaxBase = 3
  MaxFeature = 2
  MaxBirth = 1
SYMMETRY ProcSymmetry
INVARIANTS
  TypeOK
  NoDuplicateMerge
  ReturnsMaterialized
PROPERTIES
  ErrorsTellPublication
  BaseOnlyGrows
CHECK_DEADLOCK FALSE
