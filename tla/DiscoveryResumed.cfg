SPECIFICATION FairSpec
CONSTANTS
  Keys = {g, t}
  Governors = {g}
  MaxHeight = 4
  MaxReorgs = 2
  MaxDepth = 2
  Rollback = 2
  MaxFailedReads = 1
  Together = FALSE
  MaxFaults = 1
  SingleBlocks = FALSE
INVARIANTS
  TypeOK
  NothingIsMissed
PROPERTIES
  ProposalsAreFound
