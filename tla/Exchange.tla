------------------------------ MODULE Exchange ------------------------------
(***************************************************************************)
(* The rows of the exchange (orders, wallets, trades) of one market and    *)
(* the arithmetic that OrderService applies to them.                       *)
(*                                                                         *)
(* Fixed point.  The code keeps float64 amounts and treats anything below  *)
(* 1e-12 base or 1e-8 quote as zero.  Here base is counted in lots and     *)
(* quote in units of 1/2000 of (price 1 * one lot), so that a trade and    *)
(* both of its fees (0.1% and 0.05%) are exact integers and "<= 1e-12"     *)
(* becomes "<= 0".                                                         *)
(***************************************************************************)
EXTENDS Integers, FiniteSets, FiniteSetsExt

CONSTANTS
  Users,        \* account holders
  WalletRows,   \* the <<user, asset>> pairs that have a row in "wallets"
  MaxOrders,    \* bound: order ids ever allocated
  BatchLimit,   \* makers locked by one SelectMakersForUpdate (50 in the code)
  Null          \* SQL NULL

Assets   == {"base", "quote"}
Sides    == {"buy", "sell"}
Types    == {"market", "limit"}
Statuses == {"open", "partially_filled", "filled", "canceled", "rejected", "expired"}
Live     == {"open", "partially_filled"}
TIFs     == {"GTC", "IOC", "FOK", "POST_ONLY"}

Ids     == 1 .. MaxOrders
Wallets == Users \X Assets

(* Of either sign: neither a request nor an amend is asked for more than a number. *)
Prices == Int

Order == [user : Users, side : Sides, type : Types, price : Prices \cup {Null},
          amount : Nat \cup {Null}, filled : Nat, qmax : Int \cup {Null},
          status : Statuses, tif : TIFs]

ASSUME ExchangeAssumption ==
  /\ WalletRows \subseteq Wallets
  /\ MaxOrders \in Nat
  /\ BatchLimit \in Nat \ {0}
  /\ Null \notin Int \cup Statuses /\ Null \notin Order

-----------------------------------------------------------------------------
(* Rows *)

Wallet == [balance : Int, inOrders : Int]

Trade == [maker : Ids, taker : Ids, price : Prices, amount : Nat, quote : Int,
          feeMaker : Int, feeTaker : Int]

IsMarketBuy(o) == o.type = "market" /\ o.side = "buy"

Opposite(side) == IF side = "buy" THEN "sell" ELSE "buy"

(* The asset an order's funds are locked in. *)
LockedAsset(side) == IF side = "buy" THEN "quote" ELSE "base"

-----------------------------------------------------------------------------
(* Money *)

Cost(price, amount)     == 2000 * (price * amount)
FeeTaker(price, amount) == 2 * (price * amount)
FeeMaker(price, amount) == price * amount

(* UPDATE wallets SET balance = balance + db, in_orders = in_orders + di:
   an UPDATE of a row that is not there changes nothing and is no error. *)
UpdateBalances(w, user, asset, db, di) ==
  IF <<user, asset>> \in WalletRows
  THEN [w EXCEPT ![<<user, asset>>] =
          [balance |-> @.balance + db, inOrders |-> @.inOrders + di]]
  ELSE w

(* What lockFunds moves from balance to in_orders for a new order. *)
LockCost(r) ==
  CASE r.side = "buy" /\ r.type = "market" -> r.qmax
    [] r.side = "buy" /\ r.type = "limit"  -> Cost(r.price, r.amount)
    [] r.side = "sell"                     -> r.amount

(* settle: the four wallet updates of one trade. *)
SettleBuy(w, maker, taker, price, amount) ==
  LET cost   == Cost(price, amount)
      locked == IF taker.type = "market" THEN cost ELSE Cost(taker.price, amount)
      w1 == UpdateBalances(w,  taker.user, "quote", locked - cost, -locked)
      w2 == UpdateBalances(w1, taker.user, "base", amount, 0)
      w3 == UpdateBalances(w2, maker.user, "base", 0, -amount)
  IN  UpdateBalances(w3, maker.user, "quote", cost - FeeMaker(price, amount), 0)

SettleSell(w, maker, taker, price, amount) ==
  LET cost   == Cost(price, amount)
      locked == Cost(maker.price, amount)
      w1 == UpdateBalances(w,  taker.user, "base", 0, -amount)
      w2 == UpdateBalances(w1, taker.user, "quote", cost - FeeTaker(price, amount), 0)
      w3 == UpdateBalances(w2, maker.user, "quote", locked - cost, -locked)
  IN  UpdateBalances(w3, maker.user, "base", amount, 0)

Settle(w, maker, taker, price, amount) ==
  IF taker.side = "buy" THEN SettleBuy(w, maker, taker, price, amount)
                        ELSE SettleSell(w, maker, taker, price, amount)

(* The wallet rows settle writes. *)
SettleRows(maker, taker) == ({maker.user, taker.user} \X Assets) \cap WalletRows

-----------------------------------------------------------------------------
(* The book *)

IsLiveLimit(book, i, side) ==
  /\ book[i] # Null
  /\ book[i].side = side
  /\ book[i].type = "limit"
  /\ book[i].status \in Live

(* A taker of this side with this limit accepts this price. *)
Accepts(side, limit, price) == IF side = "buy" THEN price <= limit ELSE price >= limit

(* Fault: price < limit where the query has price <= limit. *)
IsMakerStrict(book, i, taker) ==
  /\ IsLiveLimit(book, i, Opposite(taker.side))
  /\ taker.type = "market" \/ (/\ Accepts(taker.side, taker.price, book[i].price)
                               /\ taker.price # book[i].price)

(* The WHERE clause of SelectMakersForUpdate. *)
IsMaker(book, i, taker) ==
  /\ IsLiveLimit(book, i, Opposite(taker.side))
  /\ taker.type = "market" \/ Accepts(taker.side, taker.price, book[i].price)

(* Its ORDER BY: best price first, then created_at, which is the order in
   which the placing transactions began and so the order of the ids. *)
Precedes(book, i, j) ==
  \/ book[i].side = "sell" /\ book[i].price < book[j].price
  \/ book[i].side = "buy"  /\ book[i].price > book[j].price
  \/ book[i].price = book[j].price /\ i < j

(* Fault: ordered by created_at alone. *)
FirstCreated(book, cand, n) == {i \in cand : Cardinality({j \in cand : j < i}) < n}

(* Its LIMIT: the first n of the candidates. *)
FirstOf(book, cand, n) ==
  {i \in cand : Cardinality({j \in cand : Precedes(book, j, i)}) < n}

(* willMatchImmediately: the best opposite price is one the request accepts. *)
WillMatchImmediately(book, r) ==
  \E i \in Ids : /\ IsLiveLimit(book, i, Opposite(r.side))
                 /\ Accepts(r.side, r.price, book[i].price)

-----------------------------------------------------------------------------
(* Requests *)

(* PlaceOrder's validation, and the post-only precheck on what it reads. *)
Validates(book, r) ==
  /\ IF r.type = "market" /\ r.side = "buy"
     THEN r.qmax # Null /\ r.qmax > 0
     ELSE r.amount > 0
  /\ r.type = "limit"  => r.price # Null
  /\ r.type = "market" => r.price = Null /\ r.tif # "GTC"
  /\ r.tif = "POST_ONLY" /\ r.type = "limit" => ~WillMatchImmediately(book, r)

(* The order row PlaceOrder inserts. *)
NewOrder(user, r) ==
  [user |-> user, side |-> r.side, type |-> r.type, price |-> r.price,
   amount |-> IF r.type = "market" /\ r.side = "buy" THEN Null ELSE r.amount,
   filled |-> 0, qmax |-> r.qmax, status |-> "open", tif |-> r.tif]

=============================================================================
