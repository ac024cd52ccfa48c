SPECIFICATION ServiceSpec
CONSTANTS
  None = None
  Instances = {s1}
  Ops = {o1, o2}
  Manual = {o2}
  Ids = {i1}
  Contents = {c1}
  MaxClients = 0
INVARIANT RecordedOutcomeIsRead
CHECK_DEADLOCK FALSE
