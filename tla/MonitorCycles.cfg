SPECIFICATION FairSpec
CONSTANTS
  p = p
  o = o
  u = u
  Proposals = {p}
  Operations = {o, u}
  OperationOf <- MCOperationOf
  Concurrency = 2
  MaxFaults = 1
  MaxRetracks = 1
  MaxRewinds = 1
INVARIANTS
  TypeOK
  WithinLimit
  OneTaskPerKey
  OperationsFollowTheirProposal
  NothingIsForgotten
PROPERTIES
  CyclesEnd
CHECK_DEADLOCK FALSE
