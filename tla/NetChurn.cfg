SPECIFICATION Spec
CONSTANTS
  alice = alice
  bob = bob
  carol = carol
  None = None
  Query = Query
  Node <- Two
  Seeder <- Both
  Priority <- Draws
  Timeout = 2
  Grace = 1
  Sns = 8
  Uptime <- LongUptime
  Environment = {"lose", "duplicate", "reorder", "late", "fail", "restart", "operator"}
  MaxTime = 2
  MaxKeys = 2
  MaxSn = 2
  MaxInFlight = 2
INVARIANTS
  TypeOK
  TimersMatchKeys
  RefreshKeepsRunning
PROPERTIES
  GivenUpForAReason
  AcceptedOnceWhileHeld
CHECK_DEADLOCK FALSE
