SPECIFICATION Spec
CONSTANTS
  Keys = {g, t}
  Governors = {g}
  MaxHeight = 4
  MaxReorgs = 0
  MaxDepth = 2
  Rollback = 2
  MaxFailedReads = 0
  Together = FALSE
  MaxFaults = 0
  SingleBlocks = TRUE
INVARIANTS
  NothingIsMissed
