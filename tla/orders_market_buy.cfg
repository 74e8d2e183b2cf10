\* A market buy that finds too little to spend its budget on.
SPECIFICATION Spec
CONSTANTS
  alice = alice
  bob = bob
  s1 = s1
  s2 = s2
  Null = Null
  Users <- MCUsers
  WalletRows <- AllWallets
  Sessions <- OneSession
  InitialFunds <- MCFunds
  PlaceReqs <- SerialReqs
  AmendReqs <- SerialAmends
  ChangeIds <- Ids
  MaxOrders = 2
  HistoryLimits <- MCLimits
  BatchLimit = 1
INVARIANTS
  MarketOrdersNeverRest
