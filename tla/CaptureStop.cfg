SPECIFICATION Spec
CONSTANTS
  MaxInterrupts = 0
  Tasks <- MCTasks
  MaxEvents = 1
  MaxErrors = 2
  MaxHits = 4
PROPERTY
  OwnersStopIsKept
