SPECIFICATION Spec
CONSTANTS
  Lag = FALSE
  Callers = {c1, c2}
  Entries = {"proposal", "queueTx"}
  Discovered = TRUE
  MaxFaults = 0
  ErrorThreshold = 5
SYMMETRY Symmetry
INVARIANTS
  CheckpointsAreTrue
  UnderWayIsQueried
