SPECIFICATION ServiceSpec
CONSTANTS
  None = None
  Instances = {s1}
  Ops = {o1, o2}
  Manual = {}
  Ids = {i1, i2}
  Contents = {c1, c2}
  MaxClients = 1
SYMMETRY Symmetry
INVARIANT ServiceTypeOK
CHECK_DEADLOCK FALSE
