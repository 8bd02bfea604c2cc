SPECIFICATION FairSpec
CONSTANTS
  Procs = {p1}
  None = None
  Worktrees = {f}
  featureRoot = f
  promoteFeatureWorktreeToBase = TRUE
  Failures = {}
  Users = {"feature"}
  MaxBase = 1
  MaxFeature = 2
  MaxBirth = 2
PROPERTIES
  PublishedIsMaterialized
  EventuallyMerged
CHECK_DEADLOCK FALSE
