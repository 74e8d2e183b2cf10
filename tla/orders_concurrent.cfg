\* Two requests at a time, three orders, an amend of the second one's price or amount.
SPECIFICATION Spec
CONSTANTS
  alice = alice
  bob = bob
  s1 = s1
  s2 = s2
  Null = Null
  Users <- MCUsers
  WalletRows <- AllWallets
  Sessions <- TwoSessions
  InitialFunds <- TightFunds
  PlaceReqs <- ConcurrentReqs
  AmendReqs <- PriceAmends
  ChangeIds <- SecondOrder
  MaxOrders = 3
  HistoryLimits <- MCLimits
  BatchLimit = 2
SYMMETRY FullSymmetry
INVARIANTS
  HistoryExplainsBalances
  FillsMatchTrades
  FilledWithinAmount
  SellersFundsAreBacked
  PostOnlyNeverTakes
PROPERTIES
  LockedFundsFollowOrders
  OnlyNegativePricesOverdraw
  ExecutesWithinLimits
  ImplementsLifecycle
