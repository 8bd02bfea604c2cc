SPECIFICATION FairSpec
CONSTANTS
  p1 = p1
  p2 = p2
  None = None
  Infinity = Infinity
  Procs <- MCProcs
  Calls <- MCCalls
  ProcOf <- MCProcOf
  Caller <- MCCaller
  Timeout <- MCTimeout
  Interval = 2
  Faults = TRUE
  MaxBirth = 1
INVARIANTS
  TypeOK
  BodyOwnsLock
  LeftLockReported
  NestedCallRefused
PROPERTIES
  AcquireEnds
CHECK_DEADLOCK FALSE
