SPECIFICATION FairSpec
CONSTANTS
  LastElection = 0
  Callers = {a}
  MaxFaults = 2
  MaxCrashes = 1
INVARIANTS
  TypeOK
  PhaseIsNotAhead
  ActionsAreEarned
  CompletedIsWhole
  OperationIsNotLost
PROPERTIES
  TrackingIsHandedOver
  OutcomeIsRecorded
CHECK_DEADLOCK FALSE
