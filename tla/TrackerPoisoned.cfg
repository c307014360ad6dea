SPECIFICATION FairSpec
CONSTANTS
  Lag = FALSE
  Callers = {c1}
  Entries = {"proposal"}
  Discovered = FALSE
  MaxFaults = 1
  ErrorThreshold = 5
PROPERTIES
  ErrorIsRetried
