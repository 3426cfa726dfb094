SPECIFICATION Spec
CHECK_DEADLOCK FALSE
CONSTANTS
  q1 = q1
  q2 = q2
  s1 = s1
  s2 = s2
  Nobody = Nobody
  Requests = {q1}
  Sweepers = {s1}
  ObjectDigests = {1}
  InlineDigests = {}
  Wants <- MCOne
  WriteMode <- MCDefaultMode
  MinAge = 1
  MaxTime = 3
  MaxFailures = 1
  MaxLostSessions = 1
INVARIANTS
  NeverDangling
