SPECIFICATION Spec
CONSTANTS
  CallLists <- SmallCallLists
  MessageCounts <- SmallMessageCounts
  TicketCounts <- SmallTicketCounts
  MaxFee = 3
  MaxFeeMoves = 2
  TransactionKeys = {"tx:a", "tx:c"}
  OperationKeys = {"tx:a:op:1", "tx:b:op:2"}
  ElectionOrder <- SmallElectionOrder
  MaxRetries = 1
  NearbyAttempts = 3
  SafetyMargin = 1
  ExcludedDelegates = {"x"}
  DefaultChunkSize = 4
  MinChunkSize = 1
  LogLimit = 1
INVARIANTS CountsAgree LinksAreWhole SearchIsComplete DelegatesAgree DecodingIsTrue
PROPERTIES PreparedIsAccepted FollowedIsSettled
