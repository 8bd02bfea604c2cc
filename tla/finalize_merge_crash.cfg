SPECIFICATION FairSpec
CONSTANTS
  Procs = {p1}
  None = None
  Worktrees = {f, w}
  featureRoot = f
  promoteFeatureWorktreeToBase = FALSE
  Failures = {}
  Users = {}
  MaxBase = 1
  MaxFeature = 1
  MaxBirth = 1
PROPERTIES
  PublishedIsMaterialized
CHECK_DEADLOCK FALSE
