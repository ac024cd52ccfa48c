SPECIFICATION Spec
CONSTANTS
  MaxInterrupts = 3
  SaveFailsIn = {"script"}
  MaxClones = 2
INVARIANTS
  InjectionTypeOK HelperTypeOK
CHECK_DEADLOCK FALSE
