SPECIFICATION InjectionSpec
CONSTANTS
  MaxInterrupts = 2
  SaveFailsIn = {"script", "finish"}
PROPERTY
  NeverAcrossACall
