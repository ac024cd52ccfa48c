SPECIFICATION InstallSpec
CONSTANTS
  Nobody = Nobody
  Installers = {p1}
  Users = {u1}
INVARIANT FailureIsCleaned
CHECK_DEADLOCK FALSE
