SPECIFICATION FairSpec
CONSTANTS
  p1 = p1
  Procs <- MCProcs
  None = None
  Calls <- MCCalls
  Lineage <- MCLineage
  Forking = {1}
  Scenarios <- MCScenarios
  MaxEpoch = 2
  MaxBirth = 1
INVARIANTS
  TypeOK
  StopReceiptIsFinal
  ExecutionsDoNotOverlap
  EvidenceMeansQuiet
  SuccessCoversLineage
PROPERTIES
  StopEnds
  LauncherEnds
CHECK_DEADLOCK FALSE
