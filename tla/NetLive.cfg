SPECIFICATION FairSpec
CONSTANTS
  alice = alice
  bob = bob
  carol = carol
  None = None
  Query = Query
  Node <- Two
  Seeder <- Both
  Priority <- Draws
  Timeout = 3
  Grace = 1
  Sns = 2
  Uptime <- SameUptime
  Environment = {"operator"}
  MaxTime = 0
  MaxKeys = 2
  MaxSn = 2
  MaxInFlight = 3

  
PROPERTIES
  KeysConverge
CHECK_DEADLOCK FALSE
