SPECIFICATION FairSpec
CONSTANTS
  Monitors = {m}
  Trackers = {t}
  MaxBlock = 2
  Bundled = 1
  MaxSteps = 3
  MaxCrashes = 1
  MaxFailures = 1
INVARIANTS
  TypeOK
  WatermarkVouches
  WrittenIsStored
PROPERTIES
  ProposalsArePersisted
CHECK_DEADLOCK FALSE
