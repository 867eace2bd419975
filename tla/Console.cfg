SPECIFICATION FairSpec
CONSTANTS
  c1 = c1
  c2 = c2
  Clients = {c1, c2}
  NoClient = NoClient
  Script <- MCScript
  Cuts <- MCCuts
  Capacity = 1
  MaxLines = 2
INVARIANTS
  WritesArePending
  CallbacksMatchClients
PROPERTIES
  KeepsThePromise
  EveryLineAnswered
CHECK_DEADLOCK FALSE
