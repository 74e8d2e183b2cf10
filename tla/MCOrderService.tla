--------------------------- MODULE MCOrderService ---------------------------
(* Instances of OrderService for TLC. *)
EXTENDS OrderProperties, TLC

CONSTANTS alice, bob, s1, s2

MCUsers == {alice, bob}
AllWallets == MCUsers \X Assets

(* The users start alike and no request names one, so they can be swapped. *)
UserSymmetry == Permutations(MCUsers)

(* limit=0 stands for the default of 100. *)
MCLimits == {0, 2}

FirstOrder  == {1}
SecondOrder == {2}
OneSession  == {s1}
TwoSessions == {s1, s2}
FullSymmetry == UserSymmetry \cup Permutations(TwoSessions)

MCFunds == [w \in AllWallets |-> IF w[2] = "base" THEN 6 ELSE 24000]

(* Too little quote for two of the concurrent buys. *)
TightFunds == [w \in AllWallets |-> IF w[2] = "base" THEN 6 ELSE 18000]

Limit(side, price, amount, tif) ==
  [side |-> side, type |-> "limit", tif |-> tif, price |-> price, amount |-> amount,
   qmax |-> Null]

MarketSell(amount, tif) ==
  [side |-> "sell", type |-> "market", tif |-> tif, price |-> Null, amount |-> amount,
   qmax |-> Null]

MarketBuy(lots, tif) ==
  [side |-> "buy", type |-> "market", tif |-> tif, price |-> Null, amount |-> 0,
   qmax |-> 2000 * lots]

(* Amounts and budgets are even and positive prices 1 or 2, so that a market buy's budget
   divides exactly, as the code's float64 division does. *)
SerialReqs ==
  {Limit(side, price, amount, "GTC") : side \in Sides, price \in {1, 2}, amount \in {2, 4}}
  \cup {Limit("buy", 2, 4, tif) : tif \in {"IOC", "POST_ONLY"}}
  \cup {Limit("sell", 1, 4, tif) : tif \in {"FOK", "POST_ONLY"}}
  \cup {MarketSell(4, "IOC"), MarketSell(2, "GTC"), MarketBuy(6, "IOC")}
  \cup {Limit("sell", -1, 2, "GTC")}

ConcurrentReqs ==
  {Limit("sell", 2, 2, "GTC"), Limit("buy", 2, 4, "GTC"), MarketBuy(6, "IOC"),
   Limit("buy", 2, 2, "POST_ONLY")}

SerialAmends == {[amount |-> 2, price |-> Null], [amount |-> 4, price |-> 1]}
PriceAmends  == {[amount |-> 1, price |-> Null], [amount |-> 4, price |-> -1]}

(* Two resting orders that do not cross and a taker for each: with one user the
   takers lock the two wallet rows in opposite order and deadlock. *)
ProgressUsers == {alice}
ProgressWallets == ProgressUsers \X Assets
ProgressFunds == [w \in ProgressWallets |-> IF w[2] = "base" THEN 4 ELSE 12000]
ProgressReqs ==
  {Limit("sell", 2, 2, "GTC"), Limit("buy", 1, 2, "GTC"), MarketSell(2, "IOC"), MarketBuy(4, "IOC")}

(* A sell of 2, a buy of 4 that takes it and rests, a market sell. *)
AmendToFilledReqs ==
  {Limit("sell", 1, 2, "GTC"), Limit("buy", 1, 4, "GTC"), MarketSell(2, "IOC")}
AmendToFilled == {[amount |-> 2, price |-> Null]}

=============================================================================
