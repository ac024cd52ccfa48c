SPECIFICATION ServiceSpec
CONSTANTS
  None = None
  Instances = {s1, s2}
  Ops = {o1, o2}
  Manual = {}
  Ids = {i1}
  Contents = {c1, c2}
  MaxClients = 0
SYMMETRY Symmetry
INVARIANTS
  AtMostOnce RecordedIsSent
CHECK_DEADLOCK FALSE
