SPECIFICATION Spec
CHECK_DEADLOCK FALSE
CONSTANTS
  q1 = q1
  q2 = q2
  s1 = s1
  s2 = s2
  Nobody = Nobody
  Requests <- MCRequests
  Sweepers <- MCSweepers
  ObjectDigests <- MCObjects
  InlineDigests <- MCInline
  Wants <- MCWants
  WriteMode <- MCWriteMode
  MinAge = 1
  MaxTime = 3
  MaxFailures = 1
  MaxLostSessions = 1
SYMMETRY SweeperSymmetry
INVARIANTS
  NoDanglingReference
  NoLockCycle
