CONSTANTS
  alice = alice
  bob = bob
  carol = carol
  None = None
  Node <- Two
  NumCtx = 3
  Trids = 4
  NumPairs = 2
  Supports <- Unequal
  Priority <- NoTies
  Timeout = 4
  Grace = 2
  PeerTimeout = 1
  Uptime <- SameUptime
  Multicast = FALSE
  Environment = {}
  MaxTime = 2
  MaxEph = 14
  MaxInFlight = 6
SPECIFICATION FairSpec
PROPERTIES HandshakeCompletes
CHECK_DEADLOCK FALSE
