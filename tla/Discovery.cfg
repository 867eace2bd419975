SPECIFICATION Spec
CONSTANTS
  alice = alice
  bob = bob
  a1 = a1
  a2 = a2
  b1 = b1
  None = None
  Node <- Two
  Port = {"u", "m"}
  Multicast = {"m"}
  NodeId <- Ids
  OwnId <- Own
  Target <- OnlyBob
  Interval = {1, 2}
  DefaultInterval = 1
  Timeout = 1
  Check = 1
  Environment <- AliceOperates
  MaxStatic = 2
  MaxQuiet = 2
  MaxChanges = 8
INVARIANTS
  TypeOK
  BeaconsMatch
  TimersMatchBeacons
  SelectedIsConfigured
  SilentPeersGoAway
  AnnouncedNodesAreKnown
PROPERTIES
  ForgottenOnlyWhenSilent
