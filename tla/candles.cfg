\* One symbol, two trades, the turns of two minutes, one crash or failed call.
SPECIFICATION Spec
CONSTANTS
  btc = btc
  Null = Null
  Symbols = {btc}
  TradePrices <- MCTradePrices
  MinuteLength = 2
  Lifetime = 3
  MaxDelay = 1
  StartTime = 1
  MaxTime = 4
  Tables <- MCTables
  Intervals = {1, 2, 3}
  Limits = {0, 1, 2}
  Ends = {2, 3, 4, 5, 6}
  MaxMishaps = 1
CONSTRAINT FewGoroutines
INVARIANTS
  TypeOK
  PunctualTradesAreCounted
  CountedAtMostTwice
  VolumeIsConserved
  CandlesAreInShape
  CandlesAreContiguous
  OnlyTheOldestIsPartial
  UnbrokenHistoryIsExact
CHECK_DEADLOCK FALSE
