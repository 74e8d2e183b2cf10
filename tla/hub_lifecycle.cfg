\* Two connections of the order book hub, channels of one message.
SPECIFICATION FairSpec
CONSTANTS
  c1 = c1
  c2 = c2
  btc = btc
  Clients <- TwoClients
  Markets <- OneMarket
  SendCap = 1
  BroadcastCap = 1
CHECK_DEADLOCK FALSE
INVARIANTS
  TypeOK
  RunNeverPanics
  ConnectedAreKnown
PROPERTIES
  ConnectionsAreCleanedUp
  SubscribersHear
