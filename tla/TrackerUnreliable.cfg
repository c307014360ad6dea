SPECIFICATION Spec
CONSTANTS
  Lag = TRUE
  Callers = {c1}
  Entries = {"proposal", "queueTx", "operation"}
  Discovered = FALSE
  MaxFaults = 1
  ErrorThreshold = 5
INVARIANTS
  CheckpointsAreTrue
  CheckpointsInOrder
