SPECIFICATION Spec
CONSTANTS
  LastElection = 0
  Callers = {a}
  MaxFaults = 1
  MaxCrashes = 0
PROPERTIES
  ElectionErrorsAreNotFatal
CHECK_DEADLOCK FALSE
