\* Two requests at a time, under fairness.
SPECIFICATION FairSpec
CONSTANTS
  alice = alice
  bob = bob
  s1 = s1
  s2 = s2
  Null = Null
  Users <- ProgressUsers
  WalletRows <- ProgressWallets
  Sessions <- TwoSessions
  InitialFunds <- ProgressFunds
  PlaceReqs <- ProgressReqs
  AmendReqs = {}
  ChangeIds <- FirstOrder
  MaxOrders = 4
  HistoryLimits <- MCLimits
  BatchLimit = 2
PROPERTIES
  RequestsEnd
