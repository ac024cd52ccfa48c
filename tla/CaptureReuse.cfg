SPECIFICATION Spec
CONSTANTS
  MaxInterrupts = 0
  Tasks <- MCTasks
  MaxEvents = 2
  MaxErrors = 2
  MaxHits = 6
INVARIANT
  RecordsSurviveErrors
