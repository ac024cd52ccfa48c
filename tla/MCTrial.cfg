SPECIFICATION Spec
CONSTANTS
  None = None
  Ops = {o1, o2}
  Ids = {i1, i2}
  Contents = {c1, c2}
  MaxClients = 1
SYMMETRY Symmetry
INVARIANTS
  TypeOK AtMostOnce ArmedOnlyDetached RecordedIsSent NoArtifactNoInjection CompletedIsSent
PROPERTY HandoverIsClean
CHECK_DEADLOCK FALSE
