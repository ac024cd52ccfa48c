SPECIFICATION FairServiceSpec
CONSTANTS
  None = None
  Instances = {s1}
  Ops = {o1}
  Manual = {}
  Ids = {i1}
  Contents = {c1}
  MaxClients = 0
PROPERTY CompletedSendIsDrained
CHECK_DEADLOCK FALSE
