SPECIFICATION Spec
CONSTANTS
  Lag = FALSE
  Callers = {c1}
  Entries = {"proposal"}
  Discovered = TRUE
  MaxFaults = 0
  ErrorThreshold = 5
INVARIANTS
  UnfinishedIsQueried
