SPECIFICATION Spec
CONSTANTS
  p1 = p1
  p2 = p2
  k1 = k1
  k2 = k2
  m1 = m1
  m2 = m2
  None = None
  Procs <- MCProcs
  Keys <- MCKeys
  Messages <- MCMessages
  MaxActivities = 12
SYMMETRY MCSymmetry
INVARIANTS
  OutboxTypeOK
  OneOutcomePerAttempt
  OutcomeMatchesClaim
  RecoveryOnce
CHECK_DEADLOCK FALSE
