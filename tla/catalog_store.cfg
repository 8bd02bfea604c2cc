SPECIFICATION MCSpec
CONSTANTS
  Procs = {p1, p2}
  None = None
  ledger = ledger
  artifact = artifact
  Files <- MCFiles
  Values <- MCValues
  Missing = Missing
  Torn = Torn
  Ledger = ledger
  Appends <- MCAppends
  Rank <- MCRank
  Republish = FALSE
  Lines = 1
  MaxFaults = 1
  MaxBirth = 1
SYMMETRY ProcSymmetry
INVARIANTS
  TypeOK
  SettlesToCatalog
PROPERTIES
  ImplementsVersionTree
CHECK_DEADLOCK FALSE
