SPECIFICATION Spec
CONSTANTS
  MaxInterrupts = 1
  Tasks <- MCTasks
  MaxEvents = 1
  MaxErrors = 2
  MaxHits = 4
INVARIANTS
  ProbeTypeOK EventsTypeOK
