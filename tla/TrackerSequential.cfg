SPECIFICATION FairSpec
CONSTANTS
  Lag = FALSE
  Callers = {c1}
  Entries = {"proposal", "queueTx", "operation"}
  Discovered = TRUE
  MaxFaults = 1
  ErrorThreshold = 5
INVARIANTS
  TypeOK
  UnderWayIsQueried
  TicketsAreNotSkipped
  ViewsAreTrue
  ExecutedIsFinished
  TrimmedIsResumable
PROPERTIES
  ProgressIsKept
  ImplementsObserver
  OutcomeIsRecorded
