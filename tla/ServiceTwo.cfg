SPECIFICATION ServiceSpec
CONSTANTS
  None = None
  Instances = {s1, s2}
  Ops = {o1, o2}
  Manual = {}
  Ids = {i1, i2}
  Contents = {c1}
  MaxClients = 0
SYMMETRY Symmetry
INVARIANT SerialNative
CHECK_DEADLOCK FALSE
