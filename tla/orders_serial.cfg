\* One request at a time, three orders of every kind.
SPECIFICATION Spec
CONSTANTS
  alice = alice
  bob = bob
  s1 = s1
  s2 = s2
  Null = Null
  Users <- MCUsers
  WalletRows <- AllWallets
  Sessions <- OneSession
  InitialFunds <- MCFunds
  PlaceReqs <- SerialReqs
  AmendReqs <- SerialAmends
  ChangeIds <- Ids
  MaxOrders = 3
  HistoryLimits <- MCLimits
  BatchLimit = 1
SYMMETRY UserSymmetry
INVARIANTS
  TypeOK
  ImmediateOrdersNeverRest
PROPERTIES
  PriceTimePriority
  OnlyAmendsCrossTheBook
  LockedFundsFollowOrders
