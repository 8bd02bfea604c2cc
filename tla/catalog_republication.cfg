SPECIFICATION MCSpec
CONSTANTS
  Procs = {p1, p2}
  None = None
  ledger = ledger
  artifact = artifact
  Files <- MCFiles
  Values <- MCValues
  Missing = Missing
  Torn = Torn
  Ledger = ledger
  Appends <- MCAppends
  Rank <- MCRank
  Republish = TRUE
  Lines = 1
  MaxFaults = 1
  MaxBirth = 1
SYMMETRY ProcSymmetry
INVARIANTS
  SettlesToCatalog
CHECK_DEADLOCK FALSE
