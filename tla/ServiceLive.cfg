SPECIFICATION FairServiceSpec
CONSTANTS
  None = None
  Instances = {s1, s2}
  Ops = {o1}
  Manual = {}
  Ids = {i1}
  Contents = {c1}
  MaxClients = 1
PROPERTIES
  LoopReturns StopIsDrained TrialEnds
CHECK_DEADLOCK FALSE
