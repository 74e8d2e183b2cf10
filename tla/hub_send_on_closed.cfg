\* One connection that leaves while its first book is fetched.
SPECIFICATION Spec
CONSTANTS
  c1 = c1
  c2 = c2
  btc = btc
  Clients <- OneClient
  Markets <- OneMarket
  SendCap = 1
  BroadcastCap = 1
CHECK_DEADLOCK FALSE
INVARIANTS
  ImmediateNeverPanics
