SPECIFICATION FairSpec
CONSTANTS
  MaxInterrupts = 3
  SaveFailsIn = {"script"}
  MaxClones = 2
INVARIANTS
  FreedOnce ReportIsHonest CompletedIsFinal ArmedIsLaunched
PROPERTIES
  NeverAcrossACall LeftoverIsANewline DebuggerEnds BusinessIsReleased WorkerEnds
CHECK_DEADLOCK FALSE
