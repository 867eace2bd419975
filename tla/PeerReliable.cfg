CONSTANTS
  alice = alice
  bob = bob
  carol = carol
  None = None
  Node <- Two
  NumCtx = 3
  Trids = 4
  NumPairs = 2
  Supports <- Unequal
  Priority <- Ties
  Timeout = 4
  Grace = 2
  PeerTimeout = 1
  Uptime <- SameUptime
  Multicast = FALSE
  Environment = {}
  MaxTime = 7
  MaxEph = 8
  MaxInFlight = 6
SPECIFICATION Spec
INVARIANTS TypeOK SelectedContextShared KeysAgree
PROPERTIES SeamlessRenewal KeyForgottenOnlyWhenExpired
CHECK_DEADLOCK FALSE
