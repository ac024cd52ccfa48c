SPECIFICATION FairSpec
CONSTANTS
  None = None
  Ops = {o1, o2}
  Ids = {i1}
  Contents = {c1}
  MaxClients = 1
PROPERTIES
  TrialEnds HelperStopsPolling
CHECK_DEADLOCK FALSE
