SPECIFICATION Spec
CONSTANTS
  alice = alice
  bob = bob
  carol = carol
  None = None
  Query = Query
  Node <- Two
  Seeder <- Alice
  Priority <- EqualDraws
  Timeout = 3
  Grace = 1
  Sns = 8
  Uptime <- SameUptime
  Environment = {"restart"}
  MaxTime = 3
  MaxKeys = 1
  MaxSn = 2
  MaxInFlight = 2
INVARIANTS
  RefreshAcceptable
CHECK_DEADLOCK FALSE
