SPECIFICATION FlowSpec
CONSTANTS
  p1 = p1
  p2 = p2
  t1 = t1
  t2 = t2
  None = None
  Missing = Missing
  Torn = Torn
  Note = Note
  Procs <- MCProcs
  Tasks <- MCTasks
  Wants <- MCWants
  Files <- FlowFiles
  Ledger = "activities"
  Values <- MCValues
  Appends <- MCAppends
  Rank <- WriteOrder
  Republish = FALSE
  MaxOrder = 2
  MaxFaults = 0
  MaxBirth = 1
INVARIANTS
  FlowTypeOK
  UninterruptedSpecIsLastRevision
  AdmittedTasksSpecified
PROPERTIES
  HistoryOnlyGrows
CHECK_DEADLOCK FALSE
