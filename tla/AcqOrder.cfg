SPECIFICATION FairSpec
CONSTANTS
  bob = bob
  carol = carol
  None = None
  Peer <- Both
  NumPairs = 1
  MaxId = 9
  MaxCalls = 16
  MaxInFlight = 2
  MaxQueue = 1
  Environment <- Busy
INVARIANTS
  
  OneAtATime
  OngoingIsWaited
PROPERTIES
  AcquisitionEnds
CHECK_DEADLOCK FALSE
