\* One symbol, two trades that may be stamped before they commit, no failure.
SPECIFICATION Spec
CONSTANTS
  btc = btc
  Null = Null
  Symbols = {btc}
  TradePrices <- MCTradePrices
  MinuteLength = 2
  Lifetime = 3
  MaxDelay = 1
  StartTime = 1
  MaxTime = 4
  Tables <- MCTables
  Intervals = {1, 2, 3}
  Limits = {0, 1, 2}
  Ends = {2, 3, 4, 5, 6}
  MaxMishaps = 0
INVARIANT EveryTradeIsCounted
CHECK_DEADLOCK FALSE
