SPECIFICATION Spec
CONSTANTS
  None = None
  Ops = {o1, o2, o3}
  Ids = {i1}
  Contents = {c1}
  MaxClients = 0
SYMMETRY Symmetry
PROPERTY SubmittedIsKept
CHECK_DEADLOCK FALSE
