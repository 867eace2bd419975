SPECIFICATION Spec
CONSTANTS
  bob = bob
  carol = carol
  None = None
  Peer <- Bob
  NumPairs = 1
  MaxId = 9
  MaxCalls = 16
  MaxInFlight = 2
  MaxQueue = 1
  Environment <- AnyEvent
INVARIANTS
  TransactionHasProcedure
  SecurityHasTransaction
CHECK_DEADLOCK FALSE
