\* A resting order is amended down to what it has filled.
SPECIFICATION FairSpec
CONSTANTS
  alice = alice
  bob = bob
  s1 = s1
  s2 = s2
  Null = Null
  Users <- MCUsers
  WalletRows <- AllWallets
  Sessions <- OneSession
  InitialFunds <- MCFunds
  PlaceReqs <- AmendToFilledReqs
  AmendReqs <- AmendToFilled
  ChangeIds <- Ids
  MaxOrders = 3
  HistoryLimits <- MCLimits
  BatchLimit = 1
PROPERTIES
  RequestsEnd
