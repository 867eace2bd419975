CONSTANTS
  alice = alice
  bob = bob
  carol = carol
  None = None
  Node <- Two
  NumCtx = 2
  Trids = 4
  NumPairs = 1
  Supports <- OnePair
  Priority <- NoTies
  Timeout = 2
  Grace = 1
  PeerTimeout = 1
  Uptime <- SameUptime
  Multicast = FALSE
  Environment = {"lose", "duplicate", "reorder", "late", "silence", "restart", "operator"}
  MaxTime = 2
  MaxEph = 3
  MaxInFlight = 2
SPECIFICATION Spec
INVARIANTS CreationIdsUnique TimersMatchContexts ProcedureOwnsTransaction NoKeyInTwoContexts
PROPERTIES NoEarlyExpiry
CHECK_DEADLOCK FALSE
