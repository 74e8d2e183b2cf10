------------------------- MODULE OrderServiceProofs -------------------------
(***************************************************************************)
(* Proofs about OrderService, for any users, sessions, requests and        *)
(* bounds.  First the rows by themselves: types and fills.  Then           *)
(* that OrderService implements OrderLifecycle, and what follows from the  *)
(* same invariant about prices, POST_ONLY and immediate orders.  The       *)
(* argument: a row that a transaction has locked was not stale when it was *)
(* locked and nobody else commits it since, so that what a transaction     *)
(* writes is a change of the committed row, whatever else its snapshot is  *)
(* mistaken about.  The last section is of one request at a time:          *)
(* price-time priority, and a book that only an amend makes cross.         *)
(***************************************************************************)
EXTENDS OrderProperties, SumLemmas

-----------------------------------------------------------------------------
(* Arithmetic and wallets *)

(* The wallet rows have their type; nothing is said of their sign here. *)
FundsOK(w) == w \in [Wallets -> Wallet]

(* The provers need to be told that products of integers are integers. *)
LEMMA ProductInt == ASSUME NEW p \in Int, NEW a \in Int PROVE p * a \in Int
  OBVIOUS

(* What a trade costs and its fees: below zero at a negative price. *)
LEMMA CostInt ==
  ASSUME NEW p \in Int, NEW a \in Nat
  PROVE  Cost(p, a) \in Int /\ FeeTaker(p, a) \in Int /\ FeeMaker(p, a) \in Int
  <1>1. p * a \in Int BY ProductInt
  <1> QED BY <1>1 DEF Cost, FeeTaker, FeeMaker

(* At a price that is not negative nothing costs less than nothing, and the cost covers
   the fees that are taken from it. *)
LEMMA CostNat ==
  ASSUME NEW p \in Nat, NEW a \in Nat
  PROVE  /\ Cost(p, a) \in Nat
         /\ Cost(p, a) - FeeTaker(p, a) \in Nat
         /\ Cost(p, a) - FeeMaker(p, a) \in Nat
  <1>1. p * a \in Nat OBVIOUS
  <1> QED BY <1>1 DEF Cost, FeeTaker, FeeMaker

(* An update changes one row by integers, or none. *)
LEMMA UpdateOK ==
  ASSUME NEW w, FundsOK(w), NEW u \in Users, NEW a \in Assets, NEW db \in Int, NEW di \in Int
  PROVE  FundsOK(UpdateBalances(w, u, a, db, di))
  BY DEF FundsOK, UpdateBalances, Wallets, Wallet

(* settle updates rows of both sides. *)
LEMMA SettleOK ==
  ASSUME NEW w, FundsOK(w), NEW maker, NEW taker, OrderOK(maker), OrderOK(taker),
         maker.type = "limit", NEW a \in Nat
  PROVE  FundsOK(Settle(w, maker, taker, maker.price, a))
  <1> DEFINE cost == Cost(maker.price, a)
  <1>1. maker.price \in Int /\ maker.user \in Users /\ taker.user \in Users
        /\ taker.side \in Sides /\ taker.type \in Types
    BY DEF OrderOK, Order, Prices
  <1>2. /\ cost \in Int
        /\ cost - FeeTaker(maker.price, a) \in Int
        /\ cost - FeeMaker(maker.price, a) \in Int
    <2>1. /\ Cost(maker.price, a) \in Int /\ FeeTaker(maker.price, a) \in Int
          /\ FeeMaker(maker.price, a) \in Int
      BY <1>1, CostInt
    <2> QED BY <2>1
  <1>3. "base" \in Assets /\ "quote" \in Assets BY DEF Assets
  <1>4. CASE taker.side = "buy"
    <2> DEFINE locked == IF taker.type = "market" THEN cost ELSE Cost(taker.price, a)
               w1 == UpdateBalances(w, taker.user, "quote", locked - cost, -locked)
               w2 == UpdateBalances(w1, taker.user, "base", a, 0)
               w3 == UpdateBalances(w2, maker.user, "base", 0, -a)
    <2>1. locked \in Int
      <3>1. CASE taker.type = "market" BY <3>1, <1>2
      <3>2. CASE taker.type # "market"
        <4>1. taker.price \in Int BY <1>1, <3>2 DEF OrderOK, Types, Prices
        <4>2. Cost(taker.price, a) \in Int BY <4>1, CostInt
        <4> QED BY <3>2, <4>2
      <3> QED BY <3>1, <3>2
    <2> HIDE DEF locked, cost
    <2>2. FundsOK(w1) BY <1>1, <1>2, <1>3, <2>1, UpdateOK DEF w1
    <2> HIDE DEF w1
    <2>3. FundsOK(w2) BY <1>1, <1>3, <2>2, UpdateOK DEF w2
    <2> HIDE DEF w2
    <2>4. FundsOK(w3) BY <1>1, <1>3, <2>3, UpdateOK DEF w3
    <2> HIDE DEF w3
    <2>5. FundsOK(UpdateBalances(w3, maker.user, "quote", cost - FeeMaker(maker.price, a), 0))
      BY <1>1, <1>2, <1>3, <2>4, UpdateOK
    <2> QED BY <1>4, <2>5 DEF Settle, SettleBuy, w1, w2, w3, locked, cost
  <1>5. CASE taker.side # "buy"
    <2> DEFINE w1 == UpdateBalances(w, taker.user, "base", 0, -a)
               w2 == UpdateBalances(w1, taker.user, "quote", cost - FeeTaker(maker.price, a), 0)
               w3 == UpdateBalances(w2, maker.user, "quote", cost - cost, -cost)
    <2> HIDE DEF cost
    <2>1. FundsOK(w1) BY <1>1, <1>3, UpdateOK DEF w1
    <2> HIDE DEF w1
    <2>2. FundsOK(w2) BY <1>1, <1>2, <1>3, <2>1, UpdateOK DEF w2
    <2> HIDE DEF w2
    <2>3. FundsOK(w3) BY <1>1, <1>2, <1>3, <2>2, UpdateOK DEF w3
    <2> HIDE DEF w3
    <2>4. FundsOK(UpdateBalances(w3, maker.user, "base", a, 0))
      BY <1>1, <1>3, <2>3, UpdateOK
    <2> QED BY <1>5, <2>4 DEF Settle, SettleSell, w1, w2, w3, cost
  <1> QED BY <1>4, <1>5

-----------------------------------------------------------------------------
(* One lemma for each thing a transaction does to itself *)

(* Writing a well formed row keeps the book well formed. *)
LEMMA BookUpdate ==
  ASSUME NEW b, BookOK(b), NEW i \in Ids, NEW o, OrderOK(o)
  PROVE  BookOK([b EXCEPT ![i] = o])
  BY DEF BookOK, OrderOK

(* A session without a request is well formed. *)
LEMMA IdleOK == TxOK(IdleTx)
  <1>1. BookOK(NoOrders) BY DEF BookOK, NoOrders
  <1>2. FundsOK(OpeningFunds)
    BY OrderServiceAssumption DEF FundsOK, OpeningFunds, Wallet
  <1>3. IdleTx \in Tx
    BY <1>1, <1>2 DEF IdleTx, Tx, PCs, BookOK, FundsOK
  <1> QED BY <1>1, <1>2, <1>3 DEF TxOK, IdleTx

(* Validation leaves requests that say what lockFunds and Insert need. *)
LEMMA ValidReq ==
  ASSUME NEW b, NEW r \in PlaceReqs, Validates(b, r)
  PROVE  ReqOK(r)
  BY OrderServiceAssumption DEF ReqOK, Validates, Prices

(* Insert writes a well formed row. *)
LEMMA NewOrderOK ==
  ASSUME NEW u \in Users, NEW r, ReqOK(r)
  PROVE  OrderOK(NewOrder(u, r)) /\ NewOrder(u, r) # Null
  BY OrderServiceAssumption, ExchangeAssumption
     DEF ReqOK, NewOrder, OrderOK, Order, IsMarketBuy, Statuses, Sides, Types, Prices

(* What lockFunds moves: below zero for a buy at a negative price. *)
LEMMA LockCostInt ==
  ASSUME NEW r, ReqOK(r)
  PROVE  LockCost(r) \in Int
  BY OrderServiceAssumption, CostInt DEF ReqOK, LockCost, Sides, Types, Prices

(* lockFunds and Insert. *)
LEMMA LockAndInsertOK ==
  ASSUME NEW t, TxOK(t), t.pc = "place"
  PROVE  TxOK(LockAndInsert(t))
  <1> DEFINE asset == LockedAsset(t.req.side)
             cost  == LockCost(t.req)
             o     == NewOrder(t.user, t.req)
             funds == UpdateBalances(t.funds, t.user, asset, -cost, cost)
             view  == [t.view EXCEPT ![t.id] = o]
             r     == LockAndInsert(t)
  <1>1. /\ t \in Tx /\ BookOK(t.view) /\ FundsOK(t.funds) /\ t.id \in Ids /\ t.user \in Users
        /\ ReqOK(t.req) /\ t.batch = {} /\ t.bought = 0
    BY DEF TxOK, Tx, FundsOK
  <1>2. cost \in Int /\ asset \in Assets
    BY <1>1, LockCostInt DEF LockedAsset, Assets
  <1>3. FundsOK(funds)
    <2> HIDE DEF cost, asset
    <2> QED BY <1>1, <1>2, UpdateOK
  <1>4. OrderOK(o) /\ o # Null BY <1>1, NewOrderOK
  <1>5. BookOK(view) BY <1>1, <1>4, BookUpdate
  <1>6. /\ r = [t EXCEPT !.pc = "match", !.funds = funds, !.purse = {<<t.user, asset>>},
                         !.view = view, !.rows = {t.id}]
    BY DEF LockAndInsert
  <1>7. view[t.id] = o BY <1>1 DEF BookOK
  <1>8. o.filled = 0 BY DEF NewOrder
  <1> HIDE DEF funds, view, r, o
  <1>9. r \in Tx
    BY ZenonT(60), <1>1, <1>2, <1>3, <1>5, <1>6 DEF Tx, PCs, BookOK, FundsOK, Wallets
  <1>10. /\ r.pc = "match" /\ r.view = view /\ r.funds = funds /\ r.id = t.id
         /\ r.batch = {} /\ r.bought = 0
    BY <1>1, <1>6 DEF Tx
  <1>11. TakerOK(r)
    BY <1>1, <1>4, <1>7, <1>8, <1>10 DEF TakerOK, Taker
  <1> QED BY <1>3, <1>5, <1>9, <1>10, <1>11 DEF TxOK, r

(* A batch holds only makers that the taker accepts. *)
LEMMA SelectedAreMakers ==
  ASSUME NEW s \in Sessions, NEW m \in SelectMakers(s)
  PROVE  m \in Ids /\ IsMaker(tx[s].view, m, Taker(tx[s]))
  BY DEF SelectMakers, FirstOf

(* One turn of the outer loop of match. *)
LEMMA SelectOK ==
  ASSUME NEW t, TxOK(t), t.pc = "match", NEW batch \in SUBSET Ids,
         \A m \in batch : IsMaker(t.view, m, Taker(t)),
         NEW pc \in {"finish", "fill"}
  PROVE  TxOK([t EXCEPT !.pc = pc, !.batch = batch, !.rows = @ \cup batch])
  <1> DEFINE r == [t EXCEPT !.pc = pc, !.batch = batch, !.rows = @ \cup batch]
  <1>1. t \in Tx BY DEF TxOK
  <1>2. r \in Tx BY <1>1 DEF Tx, PCs
  <1>3. /\ r.pc = pc /\ r.view = t.view /\ r.funds = t.funds /\ r.id = t.id
        /\ r.batch = batch /\ r.bought = t.bought
    BY <1>1 DEF Tx
  <1> HIDE DEF r
  <1>4. TakerOK(r) BY <1>3 DEF TxOK, TakerOK, Taker
  <1> QED BY <1>2, <1>3, <1>4 DEF TxOK, r

(* The makers loop ends, and leaves no maker unvisited. *)
LEMMA NextOK ==
  ASSUME NEW t, TxOK(t), t.pc = "fill"
  PROVE  TxOK([t EXCEPT !.pc = "match", !.batch = {}])
  <1> DEFINE r == [t EXCEPT !.pc = "match", !.batch = {}]
  <1>1. t \in Tx BY DEF TxOK
  <1>2. r \in Tx BY <1>1 DEF Tx, PCs
  <1>3. /\ r.pc = "match" /\ r.view = t.view /\ r.funds = t.funds /\ r.id = t.id
        /\ r.batch = {} /\ r.bought = t.bought
    BY <1>1 DEF Tx
  <1> HIDE DEF r
  <1>4. TakerOK(r) BY <1>3 DEF TxOK, TakerOK, Taker
  <1> QED BY <1>2, <1>3, <1>4 DEF TxOK, r

(* A budget that is not used up pays for some amount only at a price that is not
   negative. *)
LEMMA BudgetOK ==
  ASSUME NEW budget \in Int, NEW price \in Int, NEW left \in Int
  PROVE  /\ MaxAmtByQuote(budget, price, left) \in Int
         /\ budget > 0 /\ price < 0 => MaxAmtByQuote(budget, price, left) <= 0
  <1>1. CASE price > 0
    <2>1. Cost(price, 1) \in Int /\ Cost(price, 1) > 0 BY <1>1 DEF Cost
    <2> QED BY <1>1, <2>1 DEF MaxAmtByQuote
  <1>2. CASE price = 0 BY <1>2 DEF MaxAmtByQuote
  <1>3. CASE price < 0
    <2> DEFINE c == Cost(0 - price, 1)
    <2>1. c \in Int /\ c > 0 BY <1>3 DEF Cost
    <2> HIDE DEF c
    <2>2. budget \div c \in Int /\ (budget > 0 => budget \div c >= 0) BY <2>1
    <2> QED BY <1>3, <2>2 DEF MaxAmtByQuote, c
  <1> QED BY <1>1, <1>2, <1>3

(* The amount of a trade is what both orders still have; a market buy does not trade
   at a negative price. *)
LEMMA TradeAmountOK ==
  ASSUME NEW t, TxOK(t), t.pc = "fill", NEW m \in t.batch, Trades(t, m)
  PROVE  /\ TradeAmount(t, t.view[m]) \in Nat \ {0}
         /\ t.view[m].filled + TradeAmount(t, t.view[m]) <= t.view[m].amount
         /\ ~IsMarketBuy(Taker(t)) =>
              Taker(t).filled + TradeAmount(t, t.view[m]) <= Taker(t).amount
         /\ IsMarketBuy(Taker(t)) => t.view[m].price >= 0
  <1> DEFINE maker == t.view[m]
             left  == maker.amount - maker.filled
             taker == Taker(t)
             own   == IF IsMarketBuy(taker)
                      THEN MaxAmtByQuote(taker.qmax - t.spent, maker.price, left)
                      ELSE taker.amount - taker.filled
  <1>1. /\ m \in Ids /\ OrderOK(maker) /\ maker.type = "limit" /\ ~IsMarketBuy(maker)
        /\ OrderOK(taker) /\ t.spent \in Nat
    BY DEF TxOK, TakerOK, Taker, IsMaker, IsLiveLimit, BookOK, Tx, IsMarketBuy
  <1>2. left \in Nat /\ maker.price \in Int BY <1>1 DEF OrderOK, Order, Prices
  <1>3. own \in Int /\ (IsMarketBuy(taker) /\ maker.price < 0 => own <= 0)
    <2>1. CASE IsMarketBuy(taker)
      <3>1. taker.qmax - t.spent \in Int /\ taker.qmax - t.spent > 0
        BY <1>1, <2>1, ExchangeAssumption DEF OrderOK, Trades, Exhausted
      <3>2. left \in Int BY <1>2
      <3> DEFINE budget == taker.qmax - t.spent
                 price  == maker.price
      <3>3. budget \in Int /\ budget > 0 /\ price \in Int BY <1>2, <3>1
      <3> HIDE DEF left, budget, price
      <3>4. /\ MaxAmtByQuote(budget, price, left) \in Int
            /\ price < 0 => MaxAmtByQuote(budget, price, left) <= 0
        BY <3>2, <3>3, BudgetOK
      <3> QED BY <2>1, <3>4 DEF budget, price
    <2>2. CASE ~IsMarketBuy(taker) BY <1>1, <2>2 DEF OrderOK, Order
    <2> QED BY <2>1, <2>2
  <1>4. TradeAmount(t, maker) = IF own < left THEN own ELSE left
    BY DEF TradeAmount
  <1>5. TradeAmount(t, maker) > 0 BY DEF Trades
  <1>6. maker.amount \in Nat /\ maker.filled \in Nat BY <1>1 DEF OrderOK, Order
  <1>7. ~IsMarketBuy(taker) => /\ taker.amount \in Nat /\ taker.filled \in Nat
                               /\ own = taker.amount - taker.filled
    BY <1>1 DEF OrderOK, Order
  <1> HIDE DEF own
  <1> QED BY <1>2, <1>3, <1>4, <1>5, <1>6, <1>7

(* One trade: neither order is filled beyond its amount. *)
LEMMA FillOK ==
  ASSUME NEW t, TxOK(t), t.pc = "fill", NEW m \in t.batch, Trades(t, m)
  PROVE  TxOK(Fill(t, m))
  <1> DEFINE maker  == t.view[m]
             taker  == Taker(t)
             price  == maker.price
             amount == TradeAmount(t, maker)
             cost   == Cost(price, amount)
             spent  == IF IsMarketBuy(taker) THEN t.spent + cost ELSE t.spent
             bought == IF IsMarketBuy(taker) THEN t.bought + amount ELSE t.bought
             mfill  == maker.filled + amount
             tfill  == taker.filled + amount
             trade  == [maker |-> m, taker |-> t.id, price |-> price, amount |-> amount,
                        quote |-> cost, feeMaker |-> FeeMaker(price, amount),
                        feeTaker |-> FeeTaker(price, amount)]
             maker2 == [maker EXCEPT !.filled = mfill, !.status = MakerStatus(maker, mfill)]
             taker2 == [taker EXCEPT !.filled = tfill, !.status = TakerStatus(taker, tfill, spent)]
             view   == [t.view EXCEPT ![m] = maker2, ![t.id] = taker2]
             funds  == Settle(t.funds, maker, taker, price, amount)
             r      == Fill(t, m)
  <1>1. /\ t \in Tx /\ BookOK(t.view) /\ FundsOK(t.funds)
        /\ t.id \in Ids /\ m \in Ids
        /\ OrderOK(maker) /\ maker # Null /\ OrderOK(taker) /\ taker # Null
        /\ IsMarketBuy(taker) => t.bought = taker.filled
        /\ \A i \in t.batch : i \in Ids /\ IsMaker(t.view, i, taker)
    BY DEF TxOK, TakerOK, Taker, IsMaker, IsLiveLimit, BookOK, Tx, FundsOK
  <1>2. /\ maker.type = "limit" /\ maker.side = Opposite(taker.side)
        /\ taker.type = "market" \/ Accepts(taker.side, taker.price, maker.price)
    BY <1>1 DEF IsMaker, IsLiveLimit
  <1>3. t.id \notin t.batch
    BY <1>1 DEF IsMaker, IsLiveLimit, Taker, Opposite
  <1>4. /\ amount \in Nat \ {0} /\ mfill <= maker.amount
        /\ ~IsMarketBuy(taker) => tfill <= taker.amount
        /\ IsMarketBuy(taker) => price >= 0
    BY TradeAmountOK
  <1>5. price \in Prices /\ maker.user \in Users /\ taker.user \in Users
        /\ maker.filled \in Nat /\ taker.filled \in Nat /\ t.spent \in Nat /\ t.bought \in Nat
    BY <1>1, <1>2 DEF OrderOK, Order, Tx
  <1>6. /\ cost \in Int /\ FeeMaker(price, amount) \in Int /\ FeeTaker(price, amount) \in Int
        /\ IsMarketBuy(taker) => cost \in Nat
    <2>1. price \in Int /\ amount \in Nat BY <1>4, <1>5 DEF Prices
    <2>2. cost \in Int /\ FeeMaker(price, amount) \in Int /\ FeeTaker(price, amount) \in Int
      <3> HIDE DEF price, amount
      <3> QED BY <2>1, CostInt DEF cost
    <2>3. ASSUME IsMarketBuy(taker) PROVE cost \in Nat
      <3>1. price \in Nat BY <1>4, <2>1, <2>3
      <3> HIDE DEF price, amount
      <3> QED BY <2>1, <3>1, CostNat DEF cost
    <2> HIDE DEF cost
    <2> QED BY <2>2, <2>3
  <1>7. FundsOK(funds)
    BY <1>1, <1>2, <1>4, SettleOK
  <1> HIDE DEF cost, amount, funds
  <1>8. spent \in Nat /\ bought \in Nat /\ mfill \in Nat /\ tfill \in Nat
    BY <1>4, <1>5, <1>6
  <1>9. trade \in Trade BY <1>1, <1>4, <1>5, <1>6 DEF Trade
  <1>10. OrderOK(maker2) /\ maker2 # Null
    <2>1. MakerStatus(maker, mfill) \in Statuses BY DEF MakerStatus, Statuses
    <2>2. ~IsMarketBuy(maker) BY <1>2 DEF IsMarketBuy
    <2> QED BY ZenonT(60), <1>1, <1>4, <1>8, <2>1, <2>2, ExchangeAssumption DEF OrderOK, Order, IsMarketBuy
  <1>11. OrderOK(taker2) /\ taker2 # Null
    <2>1. TakerStatus(taker, tfill, spent) \in Statuses BY DEF TakerStatus, Statuses
    <2> QED BY ZenonT(60), <1>1, <1>4, <1>8, <2>1, ExchangeAssumption DEF OrderOK, Order, IsMarketBuy
  <1>12. BookOK(view)
    <2>1. BookOK([t.view EXCEPT ![m] = maker2]) BY <1>1, <1>10, BookUpdate
    <2> QED BY <1>1, <1>11, <2>1, BookUpdate
  <1>13. /\ view[t.id] = taker2 /\ view[m] = maker2
         /\ \A i \in t.batch \ {m} : view[i] = t.view[i]
    BY <1>1, <1>3 DEF BookOK
  <1>14. r = [t EXCEPT !.view = view, !.funds = funds,
                       !.purse = t.purse \cup SettleRows(maker, taker),
                       !.fills = t.fills \cup {trade},
                       !.batch = t.batch \ {m}, !.spent = spent, !.bought = bought]
    BY DEF Fill, cost, amount, funds
  <1>15. SettleRows(maker, taker) \in SUBSET Wallets
    BY <1>5 DEF SettleRows, Wallets
  <1>16. taker2.side = taker.side /\ taker2.type = taker.type /\ taker2.price = taker.price
         /\ taker2.filled = tfill
    BY <1>1 DEF OrderOK, Order
  <1> HIDE DEF view, spent, bought, tfill, mfill, trade, maker2, taker2, r
  <1>17. r \in Tx
    BY <1>1, <1>7, <1>8, <1>9, <1>12, <1>14, <1>15 DEF Tx, BookOK, FundsOK
  <1>18. /\ r.pc = "fill" /\ r.view = view /\ r.funds = funds /\ r.id = t.id
         /\ r.batch = t.batch \ {m} /\ r.bought = bought
    BY <1>1, <1>14 DEF Tx
  <1>19. Taker(r) = taker2 BY <1>13, <1>18 DEF Taker
  <1>20. IsMarketBuy(taker2) => bought = taker2.filled
    BY <1>1, <1>4, <1>5, <1>16 DEF IsMarketBuy, bought, tfill
  <1>21. \A i \in r.batch : IsMaker(r.view, i, taker2)
    BY <1>1, <1>13, <1>16, <1>18 DEF IsMaker, IsLiveLimit
  <1>22. TakerOK(r)
    BY <1>1, <1>11, <1>13, <1>18, <1>19, <1>20, <1>21 DEF TakerOK
  <1> QED BY <1>7, <1>12, <1>17, <1>18, <1>22 DEF TxOK, r

-----------------------------------------------------------------------------
(* What the last step of a transaction commits *)

Committable(t) == t \in Tx /\ BookOK(t.view)

(* A change of status alone keeps a transaction committable. *)
LEMMA StatusOK ==
  ASSUME NEW t, Committable(t), NEW i \in Ids, t.view[i] # Null, NEW status \in Statuses
  PROVE  /\ Committable([t EXCEPT !.view[i].status = status])
         /\ [t EXCEPT !.view[i].status = status].view[i] # Null
  <1> DEFINE o    == [t.view[i] EXCEPT !.status = status]
             view == [t.view EXCEPT ![i] = o]
             r    == [t EXCEPT !.view = view]
  <1>1. t \in Tx /\ BookOK(t.view) /\ OrderOK(t.view[i])
    BY DEF Committable, BookOK
  <1>2. OrderOK(o) BY <1>1 DEF OrderOK, Order, IsMarketBuy
  <1>3. BookOK(view) BY <1>1, <1>2, BookUpdate
  <1>4. r = [t EXCEPT !.view[i].status = status] OBVIOUS
  <1>5. view[i] # Null
    BY <1>1, <1>2, ExchangeAssumption DEF BookOK, OrderOK
  <1> HIDE DEF view
  <1>6. r \in Tx /\ r.view = view /\ r.funds = t.funds
    BY <1>1, <1>3 DEF Tx, BookOK
  <1> QED BY <1>1, <1>3, <1>4, <1>5, <1>6 DEF Committable

(* refundRemaining of an order that is no market buy. *)
LEMMA RefundOK ==
  ASSUME NEW t, Committable(t), t.id \in Ids, Taker(t) # Null, ~IsMarketBuy(Taker(t)),
         NEW remaining \in Nat, NEW status \in Statuses
  PROVE  /\ Committable(RefundRemaining(t, Taker(t), remaining, status))
         /\ RefundRemaining(t, Taker(t), remaining, status).view[t.id] # Null
  <1> DEFINE o      == Taker(t)
             asset  == LockedAsset(o.side)
             refund == RefundAmount(t, o, remaining)
             funds  == UpdateBalances(t.funds, o.user, asset, refund, -refund)
             purse  == t.purse \cup ({<<o.user, asset>>} \cap WalletRows)
             r      == [t EXCEPT !.funds = funds, !.purse = purse]
  <1>1. t \in Tx /\ BookOK(t.view) /\ FundsOK(t.funds) /\ OrderOK(o)
    BY DEF Committable, BookOK, Taker, Tx, FundsOK
  <1>2. o.user \in Users /\ asset \in Assets
    BY <1>1 DEF OrderOK, Order, LockedAsset, Assets
  <1>3. refund \in Int
    <2>1. CASE o.side = "sell" BY <2>1 DEF RefundAmount
    <2>2. CASE o.side = "buy"
      <3>1. o.type = "limit" BY <1>1, <2>2 DEF OrderOK, Order, Types, IsMarketBuy
      <3>2. o.price \in Int BY <1>1, <3>1 DEF OrderOK, Prices
      <3> QED BY <2>2, <3>1, <3>2, CostInt DEF RefundAmount
    <2> QED BY <1>1, <2>1, <2>2 DEF OrderOK, Order, Sides
  <1> HIDE DEF refund, asset
  <1>4. FundsOK(funds) BY <1>1, <1>2, <1>3, UpdateOK
  <1>5. purse \in SUBSET Wallets BY <1>1, ExchangeAssumption DEF Tx
  <1> HIDE DEF funds, purse, o
  <1>6. r \in Tx /\ r.view = t.view /\ r.funds = funds
    BY <1>1, <1>4, <1>5 DEF Tx, FundsOK
  <1>7. Committable(r) BY <1>1, <1>4, <1>6 DEF Committable
  <1>8. r.view[t.id] # Null BY <1>6 DEF Taker
  <1>9. RefundRemaining(t, Taker(t), remaining, status) = [r EXCEPT !.view[t.id].status = status]
    BY DEF RefundRemaining, refund, asset, funds, purse, o
  <1> HIDE DEF r
  <1>10. /\ Committable([r EXCEPT !.view[t.id].status = status])
         /\ [r EXCEPT !.view[t.id].status = status].view[t.id] # Null
    BY <1>7, <1>8, StatusOK
  <1> QED BY <1>9, <1>10

(* What applyTIF leaves can be committed. *)
LEMMA FinishOK ==
  ASSUME NEW t, TxOK(t), t.pc = "finish"
  PROVE  Committable(ApplyTIF(t))
  <1>1. Committable(t) BY DEF TxOK, Committable
  <1>2. /\ t.id \in Ids /\ Taker(t) # Null /\ OrderOK(Taker(t)) /\ t.bought \in Nat
        /\ IsMarketBuy(Taker(t)) => t.bought = Taker(t).filled
    BY DEF TxOK, TakerOK, BookOK, Taker, Tx
  <1>3. CASE IsMarketBuy(Taker(t))
    <2>1. Taker(t).amount = Null BY <1>2, <1>3 DEF OrderOK
    <2>2. TakerAmount(t) = Null \/ TakerAmount(t) - Taker(t).filled = 0
      BY <1>2, <1>3, <2>1 DEF TakerAmount
    <2> QED BY <1>1, <2>2 DEF ApplyTIF
  <1>4. CASE ~IsMarketBuy(Taker(t))
    <2>1. TakerAmount(t) - Taker(t).filled \in Nat
      BY <1>2, <1>4 DEF OrderOK, Order, TakerAmount
    <2>2. FinalStatus(Taker(t)) = Null \/ FinalStatus(Taker(t)) \in Statuses
      BY <1>2 DEF FinalStatus, OrderOK, Order, TIFs, Types, Statuses
    <2> QED BY <1>1, <1>2, <1>4, <2>1, <2>2, RefundOK DEF ApplyTIF
  <1> QED BY <1>3, <1>4

(* What CancelOrder leaves can be committed. *)
LEMMA CancelOK ==
  ASSUME NEW t, TxOK(t), t.pc = "canceling"
  PROVE  Committable([CancelRefund(t) EXCEPT !.view[t.id].status = "canceled"])
  <1>1. Committable(t) BY DEF TxOK, Committable
  <1>2. t.id \in Ids /\ Taker(t) # Null /\ OrderOK(Taker(t))
    BY DEF TxOK, BookOK, Taker
  <1>3. "canceled" \in Statuses BY DEF Statuses
  <1>4. Committable(CancelRefund(t)) /\ CancelRefund(t).view[t.id] # Null
    <2>1. CASE Refunds(t)
      <3>1. ~IsMarketBuy(Taker(t)) BY <1>2, <2>1 DEF Refunds, OrderOK
      <3>2. Taker(t).amount - Taker(t).filled \in Nat BY <1>2, <3>1 DEF OrderOK, Order
      <3> QED BY <1>1, <1>2, <1>3, <2>1, <3>1, <3>2, RefundOK DEF CancelRefund
    <2>2. CASE ~Refunds(t) BY <1>1, <1>2, <2>2 DEF CancelRefund, Taker
    <2> QED BY <2>1, <2>2
  <1> QED BY <1>2, <1>3, <1>4, StatusOK

(* What AmendOrder leaves can be committed: it checked the fill. *)
LEMMA AmendOK ==
  ASSUME NEW t, TxOK(t), t.pc = "amending", CanAmend(t)
  PROVE  Committable(Amended(t))
  <1> DEFINE o     == Taker(t)
             cost  == AmendCost(t)
             asset == LockedAsset(o.side)
             funds == IF AmendDelta(t) = 0 THEN t.funds
                      ELSE UpdateBalances(t.funds, t.user, asset, -cost, cost)
             purse == IF AmendDelta(t) = 0 THEN t.purse ELSE {<<t.user, asset>>}
             new   == [o EXCEPT !.price = NewPrice(t), !.amount = t.req.amount]
             view  == [t.view EXCEPT ![t.id] = new]
             r     == Amended(t)
  <1>1. /\ t \in Tx /\ BookOK(t.view) /\ FundsOK(t.funds) /\ t.id \in Ids /\ t.user \in Users
        /\ o # Null /\ OrderOK(o) /\ t.req \in AmendReqs
    BY DEF TxOK, BookOK, Taker, Tx, FundsOK
  <1>2. /\ o.type = "limit" /\ ~IsMarketBuy(o) /\ o.amount \in Nat /\ o.filled \in Nat
        /\ o.price \in Prices
    BY <1>1 DEF CanAmend, IsMarketBuy, OrderOK, Order
  <1>3. /\ t.req.amount \in Nat /\ t.req.amount >= o.filled
        /\ NewPrice(t) \in Prices
    BY <1>1, <1>2, OrderServiceAssumption DEF CanAmend, NewPrice
  <1>4. AmendDelta(t) \in Int BY <1>2, <1>3 DEF AmendDelta
  <1>5. cost \in Int /\ asset \in Assets
    <2>1. NewPrice(t) * AmendDelta(t) \in Int BY <1>3, <1>4 DEF Prices
    <2> QED BY <1>4, <2>1 DEF AmendCost, LockedAsset, Assets
  <1>6. FundsOK(funds)
    <2> HIDE DEF cost, asset
    <2> QED BY <1>1, <1>5, UpdateOK
  <1>7. purse \in SUBSET Wallets BY <1>1, <1>5 DEF Tx, Wallets
  <1>8. OrderOK(new) BY <1>1, <1>2, <1>3 DEF OrderOK, Order, IsMarketBuy
  <1>9. BookOK(view) BY <1>1, <1>8, BookUpdate
  <1>10. r = [t EXCEPT !.funds = funds, !.purse = purse, !.view = view]
    BY DEF Amended
  <1> HIDE DEF funds, purse, view, r
  <1>11. r \in Tx /\ r.view = view /\ r.funds = funds
    BY <1>1, <1>6, <1>7, <1>9, <1>10 DEF Tx, BookOK, FundsOK
  <1> QED BY <1>6, <1>9, <1>11 DEF Committable, r

-----------------------------------------------------------------------------
(* IInv is inductive *)

(* A session moves to a well formed transaction, and commits nothing. *)
LEMMA BecomeOK ==
  ASSUME IInv, NEW s \in Sessions, NEW t, TxOK(t), Become(s, t),
         UNCHANGED <<orders, wallets, trades>>, nextId' \in 1 .. MaxOrders + 1
  PROVE  IInv'
  <1>1. t \in Tx BY DEF TxOK
  <1>2. tx' = [tx EXCEPT ![s] = t] BY DEF Become
  <1>3. tx' \in [Sessions -> Tx] BY <1>1, <1>2 DEF IInv
  <1>4. \A u \in Sessions : TxOK(tx'[u])
    <2> TAKE u \in Sessions
    <2>1. tx'[u] = IF u = s THEN t ELSE tx[u] BY <1>2 DEF IInv
    <2> QED BY <2>1 DEF IInv
  <1> QED BY <1>3, <1>4 DEF IInv

(* A rollback. *)
LEMMA AbandonOK ==
  ASSUME IInv, NEW s \in Sessions, Abandon(s)
  PROVE  IInv'
  BY IdleOK, BecomeOK DEF Abandon, IInv

(* A commit installs only what the transaction had well formed. *)
LEMMA CommitOK ==
  ASSUME IInv, NEW s \in Sessions, NEW t, Committable(t), Commit(s, t)
  PROVE  IInv'
  <1>1. BookOK(orders)' BY DEF IInv, Committable, Commit, BookOK
  <1>2. (wallets \in [Wallets -> Wallet])' BY DEF IInv, Committable, Commit, Tx
  <1>3. (trades \subseteq Trade)' BY DEF IInv, Committable, Commit, Tx
  <1>4. tx' = [tx EXCEPT ![s] = IdleTx] BY DEF Commit, Become
  <1>5. IdleTx \in Tx /\ TxOK(IdleTx) BY IdleOK DEF TxOK
  <1>6. tx' \in [Sessions -> Tx] BY <1>4, <1>5 DEF IInv
  <1>7. \A u \in Sessions : TxOK(tx'[u])
    <2> TAKE u \in Sessions
    <2>1. tx'[u] = IF u = s THEN IdleTx ELSE tx[u] BY <1>4 DEF IInv
    <2> QED BY <1>5, <2>1 DEF IInv
  <1>8. nextId' = nextId BY DEF Commit
  <1> QED BY <1>1, <1>2, <1>3, <1>6, <1>7, <1>8 DEF IInv

(* A transaction that has just begun. *)
LEMMA BeginOK ==
  ASSUME IInv, NEW pc \in {"place", "cancel", "amend"}, NEW user \in Users,
         NEW id \in Ids, NEW req,
         pc = "place" => ReqOK(req),
         pc = "cancel" => req = Null,
         pc = "amend" => req \in AmendReqs
  PROVE  TxOK([IdleTx EXCEPT !.pc = pc, !.user = user, !.req = req, !.id = id,
                             !.view = orders, !.funds = wallets])
  <1> DEFINE r == [IdleTx EXCEPT !.pc = pc, !.user = user, !.req = req, !.id = id,
                                 !.view = orders, !.funds = wallets]
  <1>1. BookOK(orders) /\ FundsOK(wallets) BY DEF IInv, FundsOK
  <1>2. IdleTx \in Tx /\ IdleTx.batch = {} /\ IdleTx.bought = 0 BY IdleOK DEF TxOK, IdleTx
  <1>3. req \in PlaceReqs \cup AmendReqs \cup {Null} BY DEF ReqOK
  <1>4. r \in Tx BY <1>1, <1>2, <1>3 DEF Tx, PCs, BookOK, FundsOK
  <1>5. /\ r.pc = pc /\ r.user = user /\ r.req = req /\ r.id = id
        /\ r.view = orders /\ r.funds = wallets /\ r.batch = {} /\ r.bought = 0
    BY <1>2 DEF Tx
  <1> HIDE DEF r
  <1>6. TxOK(r) BY <1>1, <1>4, <1>5 DEF TxOK
  <1> QED BY <1>6 DEF r

(* IInv holds at the start. *)
LEMMA InitOK == Init => IInv
  <1> SUFFICES ASSUME Init PROVE IInv OBVIOUS
  <1>1. BookOK(orders) BY DEF Init, BookOK, NoOrders
  <1>2. FundsOK(wallets)
    BY OrderServiceAssumption DEF Init, FundsOK, OpeningFunds, Wallet
  <1>3. tx \in [Sessions -> Tx] /\ \A s \in Sessions : TxOK(tx[s])
    BY IdleOK DEF Init, TxOK
  <1>4. trades \subseteq Trade /\ nextId \in 1 .. MaxOrders + 1
    BY ExchangeAssumption DEF Init
  <1> QED BY <1>1, <1>2, <1>3, <1>4 DEF IInv, FundsOK

(* A request arrives. *)
LEMMA ArriveOK ==
  ASSUME IInv, NEW s \in Sessions, Arrive(s)
  PROVE  IInv'
  <1>1. ASSUME NEW u \in Users, NEW r \in PlaceReqs, PlaceBegin(s, u, r)
        PROVE  IInv'
    <2>1. ReqOK(r) BY <1>1, ValidReq DEF PlaceBegin
    <2>2. nextId \in Ids /\ nextId' \in 1 .. MaxOrders + 1
      BY <1>1, ExchangeAssumption DEF PlaceBegin, IInv, Ids
    <2> QED BY <1>1, <2>1, <2>2, BeginOK, BecomeOK DEF PlaceBegin, Begin
  <1>2. ASSUME NEW u \in Users, NEW i \in ChangeIds, CancelBegin(s, u, i)
        PROVE  IInv'
    BY <1>2, OrderServiceAssumption, BeginOK, BecomeOK DEF CancelBegin, Begin, IInv
  <1>3. ASSUME NEW u \in Users, NEW i \in ChangeIds, NEW r \in AmendReqs, AmendBegin(s, u, i, r)
        PROVE  IInv'
    BY <1>3, OrderServiceAssumption, BeginOK, BecomeOK DEF AmendBegin, Begin, IInv
  <1> QED BY <1>1, <1>2, <1>3 DEF Arrive

(* A step of PlaceOrder. *)
LEMMA PlaceStepOK ==
  ASSUME IInv, NEW s \in Sessions,
         PlaceLock(s) \/ PlaceRefuse(s) \/ MatchSelect(s) \/ MatchFill(s) \/ MatchNext(s)
         \/ PlaceFinish(s)
  PROVE  IInv'
  <1> DEFINE t == tx[s]
  <1>1. TxOK(t) /\ t \in Tx /\ nextId \in 1 .. MaxOrders + 1 BY DEF IInv
  <1>2. CASE PlaceLock(s)
    BY <1>1, <1>2, LockAndInsertOK, BecomeOK DEF PlaceLock
  <1>3. CASE PlaceRefuse(s) BY <1>3, AbandonOK DEF PlaceRefuse
  <1>4. CASE MatchSelect(s)
    <2> DEFINE batch == IF Exhausted(t) THEN {} ELSE SelectMakers(s)
               pc    == IF batch = {} THEN "finish" ELSE "fill"
    <2>1. batch \in SUBSET Ids /\ \A m \in batch : IsMaker(t.view, m, Taker(t))
      BY SelectedAreMakers
    <2>2. t.pc = "match" /\ pc \in {"finish", "fill"} BY <1>4 DEF MatchSelect
    <2>3. Become(s, [t EXCEPT !.pc = pc, !.batch = batch, !.rows = @ \cup batch])
          /\ UNCHANGED <<orders, wallets, trades, nextId>>
      BY <1>4 DEF MatchSelect
    <2> HIDE DEF batch, pc
    <2>4. TxOK([t EXCEPT !.pc = pc, !.batch = batch, !.rows = @ \cup batch])
      BY <1>1, <2>1, <2>2, SelectOK
    <2> QED BY <1>1, <2>3, <2>4, BecomeOK
  <1>5. CASE MatchFill(s)
    BY <1>1, <1>5, FillOK, BecomeOK DEF MatchFill
  <1>6. CASE MatchNext(s)
    BY <1>1, <1>6, NextOK, BecomeOK DEF MatchNext
  <1>7. CASE PlaceFinish(s)
    BY <1>1, <1>7, FinishOK, CommitOK DEF PlaceFinish
  <1> QED BY <1>2, <1>3, <1>4, <1>5, <1>6, <1>7

(* GetByIDForUpdate keeps what the request is about. *)
LEMMA LockOrderOK ==
  ASSUME IInv, NEW s \in Sessions,
         CancelLock(s) \/ AmendLock(s)
  PROVE  IInv'
  <1> DEFINE t == tx[s]
  <1>1. TxOK(t) /\ t \in Tx /\ nextId \in 1 .. MaxOrders + 1 BY DEF IInv
  <1>2. PICK from \in {"cancel", "amend"}, to \in {"canceling", "amending"} :
           /\ LockOrder(s, from, to)
           /\ from = "amend" <=> to = "amending"
    BY DEF CancelLock, AmendLock
  <1>3. CASE t.id \notin Found(t) BY <1>2, <1>3, AbandonOK DEF LockOrder
  <1>4. CASE t.id \in Found(t)
    <2> DEFINE r == [t EXCEPT !.pc = to, !.rows = {t.id}]
    <2>1. t.pc = from /\ Become(s, r) /\ UNCHANGED <<orders, wallets, trades, nextId>>
      BY <1>2, <1>4 DEF LockOrder
    <2>2. t.id \in Ids /\ t.view[t.id] # Null BY <1>4 DEF Found
    <2>3. r \in Tx BY <1>1, <2>2 DEF Tx, PCs
    <2>4. /\ r.pc = to /\ r.user = t.user /\ r.req = t.req /\ r.id = t.id
          /\ r.view = t.view /\ r.funds = t.funds
      BY <1>1 DEF Tx
    <2> HIDE DEF r
    <2>5. TxOK(r) BY <1>1, <1>2, <2>1, <2>2, <2>3, <2>4 DEF TxOK
    <2> QED BY <1>1, <2>1, <2>5, BecomeOK
  <1> QED BY <1>3, <1>4

(* The last step of CancelOrder or of AmendOrder. *)
LEMMA ChangeStepOK ==
  ASSUME IInv, NEW s \in Sessions, CancelFinish(s) \/ AmendFinish(s)
  PROVE  IInv'
  <1> DEFINE t == tx[s]
  <1>1. TxOK(t) BY DEF IInv
  <1>2. CASE CancelFinish(s)
    BY <1>1, <1>2, CancelOK, CommitOK, AbandonOK DEF CancelFinish
  <1>3. CASE AmendFinish(s)
    BY <1>1, <1>3, AmendOK, CommitOK, AbandonOK DEF AmendFinish
  <1> QED BY <1>2, <1>3

(* Every step keeps IInv. *)
LEMMA NextKeepsIInv == IInv /\ [Next]_vars => IInv'
  <1> SUFFICES ASSUME IInv, [Next]_vars PROVE IInv' OBVIOUS
  <1>1. CASE UNCHANGED vars BY <1>1 DEF vars, IInv
  <1>2. ASSUME NEW s \in Sessions, Arrive(s) PROVE IInv' BY <1>2, ArriveOK
  <1>3. ASSUME NEW s \in Sessions, Rollback(s) PROVE IInv'
    BY <1>3, AbandonOK DEF Rollback
  <1>4. ASSUME NEW s \in Sessions, Step(s) PROVE IInv'
    BY <1>4, PlaceStepOK, LockOrderOK, ChangeStepOK, AbandonOK DEF Step, Fail
  <1> QED BY <1>1, <1>2, <1>3, <1>4 DEF Next

(* IInv holds in every state of every execution. *)
THEOREM Invariance == Spec => []IInv
  BY InitOK, NextKeepsIInv, PTL DEF Spec

(* Rows and transactions keep their types, whatever is requested. *)
THEOREM TypeCorrect == Spec => []TypeOK
  <1>1. IInv => TypeOK BY DEF IInv, TypeOK, BookOK, FundsOK
  <1> QED BY <1>1, Invariance, PTL

(* No committed order is filled beyond its amount. *)
THEOREM NoOverfill == Spec => []FilledWithinAmount
  <1>1. IInv => FilledWithinAmount
    BY DEF IInv, BookOK, OrderOK, FilledWithinAmount, Placed
  <1> QED BY <1>1, Invariance, PTL

-----------------------------------------------------------------------------
(* Locked rows and trades not committed yet: LInv, conjunct by conjunct *)

Matching(t) == t.pc \in {"match", "fill", "finish"}
Placing(t)  == t.pc = "place" \/ Matching(t)

PostOnly(o) == o.type = "limit" /\ o.tif = "POST_ONLY"

(* A locked maker is as it was committed, or the taker has filled it. *)
RowOK(t, i, b) ==
  /\ b[i] # Null /\ t.view[i] # Null
  /\ \/ t.view[i] = b[i]
     \/ Taker(t).filled > 0 /\ Lifecycle!FilledBy(Taker(t), b[i], t.view[i])

(* A trade that is not committed yet: with a committed live maker, at its price. *)
TradeOK(t, x, b) ==
  /\ x.taker = t.id /\ x.maker \in t.rows
  /\ IsLiveLimit(b, x.maker, Opposite(Taker(t).side))
  /\ x.price = b[x.maker].price
  /\ Taker(t).type = "limit" => Accepts(Taker(t).side, Taker(t).price, x.price)

(* The new order: matched as far as its status says, and not at all if it is POST_ONLY. *)
ArrivingOK(t) ==
  /\ Lifecycle!Arrives(Taker(t))
  /\ Taker(t).status \in {"open", "partially_filled", "filled"}
  /\ ~ IsMarketBuy(Taker(t)) /\ Taker(t).status \in Live => Taker(t).filled < Taker(t).amount
  /\ PostOnly(Taker(t)) => t.fills = {} /\ \A i \in Ids : ~ IsMaker(t.view, i, Taker(t))

MatchingOK(t, b) ==
  /\ t.id \in t.rows
  /\ t.batch \subseteq t.rows \ {t.id}
  /\ \A i \in t.rows \ {t.id} : RowOK(t, i, b)
  /\ \A x \in t.fills : TradeOK(t, x, b)
  /\ ArrivingOK(t)

(* What the validation has left for the insert. *)
RequestOK(t) ==
  /\ ~ (t.req.type = "market" /\ t.req.side = "buy") => t.req.amount > 0
  /\ PostOnly(t.req) => ~ WillMatchImmediately(t.view, t.req)

(* Whatever row a snapshot shows is still there. *)
SnapshotOK(t, b) ==
  \A i \in Ids : t.view[i] # Null => b[i] # Null \/ (Matching(t) /\ i = t.id)

(* What a transaction knows when b are the committed orders and n is the next id. *)
ProgressOK(t, b, n) ==
  /\ SnapshotOK(t, b)
  /\ Placing(t) => b[t.id] = Null /\ t.id < n
  /\ t.pc = "place" => RequestOK(t)
  /\ Matching(t) => MatchingOK(t, b)
  /\ t.pc \in {"canceling", "amending"} => t.rows = {t.id} /\ t.view[t.id] = b[t.id]
  /\ t.pc \in {"idle", "place", "cancel", "amend"} => t.rows = {}
  /\ ~ Matching(t) => t.fills = {}

(* Two sessions lock no row together and insert no row together. *)
ApartOK(t, u) ==
  /\ t.rows \cap u.rows = {}
  /\ Placing(t) /\ Placing(u) => t.id # u.id

(* A committed order that may be live: the others are ended by the code that places them. *)
Settled(o) ==
  o.status \in Live
    => IsMarketBuy(o) \/ (o.type = "limit" /\ o.tif = "GTC")

IssuedOK == \A i \in Ids : orders[i] # Null => i < nextId /\ Settled(orders[i])

TakersOK == \A x \in trades : orders[x.taker] # Null /\ ~ PostOnly(orders[x.taker])

LInv ==
  /\ IInv
  /\ \A s \in Sessions : ProgressOK(tx[s], orders, nextId)
  /\ \A s, u \in Sessions : s # u => ApartOK(tx[s], tx[u])
  /\ IssuedOK
  /\ TakersOK

-----------------------------------------------------------------------------
(* What one step leaves alone *)

(* Rows that a transaction holds are committed ones, but for the one it inserts. *)
LEMMA HeldRows ==
  ASSUME NEW t, NEW b, NEW n, TxOK(t), ProgressOK(t, b, n), NEW i \in t.rows
  PROVE  i \in Ids /\ (b[i] # Null \/ (Matching(t) /\ i = t.id))
  <1>1. t \in Tx /\ t.pc \in PCs /\ t.rows \subseteq Ids BY DEF TxOK, Tx
  <1>2. CASE Matching(t) BY <1>1, <1>2 DEF ProgressOK, MatchingOK, RowOK
  <1>3. CASE t.pc \in {"canceling", "amending"} BY <1>1, <1>3 DEF ProgressOK, TxOK
  <1>4. CASE t.pc \in {"idle", "place", "cancel", "amend"} BY <1>4 DEF ProgressOK
  <1> QED BY <1>1, <1>2, <1>3, <1>4 DEF PCs, Matching

(* A commit of rows that a transaction does not hold tells it nothing new. *)
LEMMA OthersKeep ==
  ASSUME NEW t, NEW b, NEW n \in Int, NEW b2, NEW n2 \in Int,
         TxOK(t), ProgressOK(t, b, n), n <= n2,
         Placing(t) => t.id \in Int /\ b2[t.id] = Null,
         \A i \in t.rows : b2[i] = b[i],
         \A i \in Ids : b[i] # Null => b2[i] # Null
  PROVE  ProgressOK(t, b2, n2)
  <1>1. SnapshotOK(t, b2) BY DEF ProgressOK, SnapshotOK
  <1>2. ASSUME Matching(t) PROVE MatchingOK(t, b2)
    <2>1. \A i \in t.rows \ {t.id} : RowOK(t, i, b2)
      BY <1>2 DEF ProgressOK, MatchingOK, RowOK
    <2>2. \A x \in t.fills : TradeOK(t, x, b2)
      BY <1>2 DEF ProgressOK, MatchingOK, TradeOK, IsLiveLimit
    <2> QED BY <1>2, <2>1, <2>2 DEF ProgressOK, MatchingOK
  <1>3. t.pc \in {"canceling", "amending"} => t.rows = {t.id} /\ t.view[t.id] = b2[t.id]
    BY DEF ProgressOK
  <1> QED BY <1>1, <1>2, <1>3 DEF ProgressOK

(* A session goes on and commits nothing. *)
LEMMA MoveOK ==
  ASSUME LInv, IInv', NEW s \in Sessions, NEW t, Become(s, t),
         UNCHANGED <<orders, wallets, trades>>, nextId <= nextId',
         ProgressOK(t, orders, nextId'),
         \A u \in Sessions \ {s} : ApartOK(t, tx[u])
  PROVE  LInv'
  <1>1. tx' = [tx EXCEPT ![s] = t] /\ tx \in [Sessions -> Tx] BY DEF Become, LInv, IInv
  <1>2. tx'[s] = t /\ \A u \in Sessions \ {s} : tx'[u] = tx[u] BY <1>1
  <1>3. nextId \in Int /\ nextId' \in Int BY ExchangeAssumption DEF LInv, IInv
  <1>4. \A u \in Sessions : ProgressOK(tx'[u], orders', nextId')
    <2> TAKE u \in Sessions
    <2>1. CASE u = s BY <1>2, <2>1
    <2>2. CASE u # s
      <3>1. TxOK(tx[u]) /\ ProgressOK(tx[u], orders, nextId) BY DEF LInv, IInv
      <3>2. Placing(tx[u]) => tx[u].id \in Int /\ orders[tx[u].id] = Null
        BY <3>1 DEF TxOK, TakerOK, Placing, Matching, ProgressOK, Ids
      <3>3. ProgressOK(tx[u], orders, nextId') BY <1>3, <3>1, <3>2, OthersKeep
      <3> QED BY <1>2, <2>2, <3>3
    <2> QED BY <2>1, <2>2
  <1>5. \A v, u \in Sessions : v # u => ApartOK(tx'[v], tx'[u])
    <2> TAKE v, u \in Sessions
    <2>1. v # s /\ u # s /\ v # u => ApartOK(tx'[v], tx'[u]) BY <1>2 DEF LInv
    <2>2. v = s /\ u # s => ApartOK(tx'[v], tx'[u]) BY <1>2
    <2>3. u = s /\ v # s => ApartOK(tx'[v], tx'[u]) BY <1>2 DEF ApartOK
    <2> QED BY <2>1, <2>2, <2>3
  <1>6. IssuedOK' /\ TakersOK'
    <2>1. \A i \in Ids : i < nextId => i < nextId' BY <1>3 DEF Ids
    <2> QED BY <2>1 DEF LInv, IssuedOK, TakersOK
  <1> QED BY <1>4, <1>5, <1>6 DEF LInv

(* What a commit of transaction t in the form r does to the committed orders b. *)
CommitsWell(t, r, b) ==
  /\ r.rows = t.rows
  /\ \A i \in t.rows :
       /\ r.view[i] # Null /\ Settled(r.view[i])
       /\ b[i] # Null => r.view[i].type = b[i].type /\ r.view[i].tif = b[i].tif
  /\ \A x \in r.fills : x.taker \in t.rows /\ ~ PostOnly(r.view[x.taker])

(* A session commits. *)
LEMMA InstallOK ==
  ASSUME LInv, IInv', NEW s \in Sessions, NEW r, Commit(s, r), CommitsWell(tx[s], r, orders)
  PROVE  LInv'
  <1> DEFINE t == tx[s]
  <1>1. TxOK(t) /\ ProgressOK(t, orders, nextId) BY DEF LInv, IInv
  <1>2. /\ \A i \in t.rows : orders'[i] = r.view[i]
        /\ \A i \in Ids \ t.rows : orders'[i] = orders[i]
        /\ trades' = trades \cup r.fills /\ nextId' = nextId
    <2>1. r.rows = t.rows BY DEF CommitsWell
    <2>2. t.rows \subseteq Ids BY <1>1, HeldRows
    <2> QED BY <2>1, <2>2 DEF Commit
  <1>3. \A i \in Ids : orders[i] # Null =>
          /\ orders'[i] # Null
          /\ orders'[i].type = orders[i].type /\ orders'[i].tif = orders[i].tif
    BY <1>2 DEF CommitsWell
  <1>4. tx' = [tx EXCEPT ![s] = IdleTx] /\ tx \in [Sessions -> Tx]
    BY DEF Commit, Become, LInv, IInv
  <1>5. tx'[s] = IdleTx /\ \A u \in Sessions \ {s} : tx'[u] = tx[u] BY <1>4
  <1>6. nextId \in Int BY ExchangeAssumption DEF LInv, IInv
  <1>7. ASSUME NEW u \in Sessions \ {s} PROVE ProgressOK(tx[u], orders', nextId)
    <2>1. TxOK(tx[u]) /\ ProgressOK(tx[u], orders, nextId) /\ ApartOK(t, tx[u])
      BY DEF LInv, IInv
    <2>2. tx[u].rows \subseteq Ids BY <2>1, HeldRows
    <2>3. \A i \in tx[u].rows : orders'[i] = orders[i]
      BY <1>2, <2>1, <2>2 DEF ApartOK
    <2>4. Placing(tx[u]) => tx[u].id \in Ids /\ orders[tx[u].id] = Null
      BY <2>1 DEF TxOK, TakerOK, Placing, Matching, ProgressOK
    <2>5. Placing(tx[u]) => tx[u].id \notin t.rows
      <3>1. \A i \in t.rows : orders[i] # Null \/ (Matching(t) /\ i = t.id)
        BY <1>1, HeldRows
      <3>2. Placing(tx[u]) /\ Matching(t) => t.id # tx[u].id
        BY <2>1 DEF ApartOK, Placing
      <3> QED BY <2>4, <3>1, <3>2
    <2>6. Placing(tx[u]) => tx[u].id \in Int /\ orders'[tx[u].id] = Null
      BY <1>2, <2>4, <2>5 DEF Ids
    <2> QED BY <1>3, <1>6, <2>1, <2>3, <2>6, OthersKeep
  <1>8. ProgressOK(IdleTx, orders', nextId)
    BY DEF ProgressOK, IdleTx, NoOrders, SnapshotOK, Placing, Matching
  <1>9. \A u \in Sessions : ProgressOK(tx'[u], orders', nextId')
    BY <1>2, <1>5, <1>7, <1>8
  <1>10. \A v, u \in Sessions : v # u => ApartOK(tx'[v], tx'[u])
    <2> TAKE v, u \in Sessions
    <2>1. v # s /\ u # s /\ v # u => ApartOK(tx'[v], tx'[u]) BY <1>5 DEF LInv
    <2>2. IdleTx.rows = {} /\ ~ Placing(IdleTx) BY DEF IdleTx, Placing, Matching
    <2>3. (v = s \/ u = s) => ApartOK(tx'[v], tx'[u]) BY <1>5, <2>2 DEF ApartOK
    <2> QED BY <2>1, <2>3
  <1>11. IssuedOK'
    <2>1. ASSUME NEW i \in Ids, orders'[i] # Null
          PROVE  i < nextId /\ Settled(orders'[i])
      <3>1. CASE i \in t.rows
        <4>1. orders[i] # Null \/ (Matching(t) /\ i = t.id) BY <1>1, <3>1, HeldRows
        <4>2. i < nextId BY <1>1, <4>1 DEF LInv, IssuedOK, ProgressOK, Placing
        <4> QED BY <1>2, <3>1, <4>2 DEF CommitsWell
      <3>2. CASE i \notin t.rows BY <1>2, <2>1, <3>2 DEF LInv, IssuedOK
      <3> QED BY <3>1, <3>2
    <2> QED BY <1>2, <2>1 DEF IssuedOK
  <1>12. TakersOK'
    <2>1. \A x \in trades : orders'[x.taker] # Null /\ ~ PostOnly(orders'[x.taker])
      <3>1. \A x \in trades : x.taker \in Ids BY DEF LInv, IInv, Trade
      <3> QED BY <1>3, <3>1 DEF LInv, TakersOK, PostOnly
    <2>2. \A x \in r.fills : orders'[x.taker] # Null /\ ~ PostOnly(orders'[x.taker])
      BY <1>2 DEF CommitsWell
    <2> QED BY <1>2, <2>1, <2>2 DEF TakersOK
  <1> QED BY <1>9, <1>10, <1>11, <1>12 DEF LInv

(* A transaction that is given up holds nothing. *)
LEMMA GiveUpOK ==
  ASSUME LInv, IInv', NEW s \in Sessions, Abandon(s)
  PROVE  LInv'
  <1>1. ProgressOK(IdleTx, orders, nextId')
    BY DEF ProgressOK, IdleTx, NoOrders, SnapshotOK, Placing, Matching
  <1>2. \A u \in Sessions : ApartOK(IdleTx, tx[u])
    BY DEF ApartOK, IdleTx, Placing, Matching
  <1>3. nextId' = nextId /\ nextId \in Int BY ExchangeAssumption DEF Abandon, LInv, IInv
  <1> QED BY <1>1, <1>2, <1>3, MoveOK DEF Abandon

-----------------------------------------------------------------------------
(* A request arrives *)

(* A request that begins has locked nothing and sees what is committed. *)
LEMMA ArrivalOK ==
  ASSUME LInv, IInv', NEW s \in Sessions, Arrive(s)
  PROVE  LInv'
  <1> DEFINE Begun(pc, user, req, id) ==
               [IdleTx EXCEPT !.pc = pc, !.user = user, !.req = req, !.id = id,
                              !.view = orders, !.funds = wallets]
  <1>1. nextId \in Int /\ nextId \in 1 .. MaxOrders + 1 /\ IdleTx.rows = {} /\ IdleTx.fills = {}
    BY ExchangeAssumption DEF LInv, IInv, IdleTx
  <1>2. ASSUME NEW pc \in {"place", "cancel", "amend"}, NEW user, NEW req, NEW id
        PROVE  LET t == Begun(pc, user, req, id)
               IN  /\ t.pc = pc /\ t.req = req /\ t.id = id /\ t.view = orders
                   /\ t.rows = {} /\ t.fills = {}
    BY DEF IdleTx
  <1> HIDE DEF Begun
  <1>3. ASSUME NEW u \in Users, NEW r \in PlaceReqs, PlaceBegin(s, u, r)
        PROVE  LInv'
    <2> DEFINE t == Begun("place", u, r, nextId)
    <2>1. /\ Become(s, t) /\ UNCHANGED <<orders, wallets, trades>>
          /\ nextId' = nextId + 1 /\ Validates(orders, r) /\ nextId \in Ids
      BY <1>1, <1>3, ExchangeAssumption DEF PlaceBegin, Begin, Begun, Ids
    <2>2. /\ t.pc = "place" /\ t.req = r /\ t.id = nextId /\ t.view = orders
          /\ t.rows = {} /\ t.fills = {}
      BY <1>2
    <2> HIDE DEF t
    <2>3. orders[nextId] = Null BY <1>1, <2>1 DEF LInv, IssuedOK
    <2>4. RequestOK(t) BY <2>1, <2>2 DEF RequestOK, PostOnly, Validates
    <2>5. ProgressOK(t, orders, nextId')
      BY <1>1, <2>1, <2>2, <2>3, <2>4 DEF ProgressOK, SnapshotOK, Placing, Matching
    <2>6. ASSUME NEW v \in Sessions \ {s} PROVE ApartOK(t, tx[v])
      <3>1. ProgressOK(tx[v], orders, nextId) BY DEF LInv
      <3> QED BY <1>1, <2>2, <3>1 DEF ApartOK, ProgressOK
    <2> QED BY <1>1, <2>1, <2>5, <2>6, MoveOK
  <1>4. ASSUME NEW pc \in {"cancel", "amend"}, NEW u, NEW req, NEW i,
               Begin(s, pc, u, req, i), nextId' = nextId
        PROVE  LInv'
    <2> DEFINE t == Begun(pc, u, req, i)
    <2>1. Become(s, t) /\ UNCHANGED <<orders, wallets, trades>>
      BY <1>4 DEF Begin, Begun
    <2>2. t.pc = pc /\ t.view = orders /\ t.rows = {} /\ t.fills = {} BY <1>2
    <2> HIDE DEF t
    <2>3. ProgressOK(t, orders, nextId')
      BY <1>4, <2>2 DEF ProgressOK, SnapshotOK, Placing, Matching
    <2>4. \A v \in Sessions : ApartOK(t, tx[v]) BY <2>2 DEF ApartOK, Placing, Matching
    <2> QED BY <1>1, <1>4, <2>1, <2>3, <2>4, MoveOK
  <1> QED BY <1>3, <1>4 DEF Arrive, CancelBegin, AmendBegin

-----------------------------------------------------------------------------
(* PlaceOrder *)

(* A new order is nobody's maker yet; POST_ONLY ones have no maker on the other side. *)
LEMMA InsertArrives ==
  ASSUME NEW t, TxOK(t), t.pc = "place", RequestOK(t), NEW r,
         r.view = [t.view EXCEPT ![t.id] = NewOrder(t.user, t.req)],
         r.id = t.id, r.fills = {}
  PROVE  ArrivingOK(r)
  <1> DEFINE o == NewOrder(t.user, t.req)
  <1>1. t.id \in Ids /\ BookOK(t.view) /\ ReqOK(t.req) /\ t.user \in Users BY DEF TxOK
  <1>2. OrderOK(o) BY <1>1, NewOrderOK
  <1>3. Taker(r) = o /\ \A i \in Ids \ {t.id} : r.view[i] = t.view[i]
    BY <1>1 DEF Taker, BookOK
  <1>4. /\ o.filled = 0 /\ o.status = "open" /\ o.side = t.req.side /\ o.type = t.req.type
        /\ o.tif = t.req.tif /\ o.price = t.req.price
        /\ ~ IsMarketBuy(o) => o.amount = t.req.amount /\ t.req.amount > 0
    BY DEF NewOrder, RequestOK, IsMarketBuy
  <1>5. IsMarketBuy(o) => o.amount = Null BY DEF NewOrder, IsMarketBuy
  <1>6. Lifecycle!Arrives(o)
    BY <1>2, <1>4, <1>5 DEF Lifecycle!Arrives, Lifecycle!Within, OrderOK, Order
  <1>7. ASSUME PostOnly(o), NEW i \in Ids PROVE ~ IsMaker(r.view, i, o)
    <2>1. CASE i = t.id BY <1>3, <2>1 DEF IsMaker, IsLiveLimit, Opposite, Taker
    <2>2. CASE i # t.id
      <3>1. ~ WillMatchImmediately(t.view, t.req) /\ t.req.type = "limit"
        BY <1>4, <1>7 DEF RequestOK, PostOnly
      <3> QED BY <1>3, <1>4, <2>2, <3>1 DEF WillMatchImmediately, IsMaker, IsLiveLimit
    <2> QED BY <2>1, <2>2
  <1> HIDE DEF o
  <1> QED BY <1>3, <1>4, <1>6, <1>7 DEF ArrivingOK

(* A row that is not committed yet is locked by nobody else. *)
LEMMA OthersDoNotHold ==
  ASSUME NEW t, NEW u, NEW b, NEW n, TxOK(u), ProgressOK(u, b, n), ApartOK(t, u),
         Placing(t), b[t.id] = Null
  PROVE  t.id \notin u.rows
  BY HeldRows DEF ApartOK, Placing

(* The new order is inserted: it arrives unmatched and nobody else has its id. *)
LEMMA PlaceLockOK ==
  ASSUME LInv, IInv', NEW s \in Sessions, PlaceLock(s)
  PROVE  LInv'
  <1> DEFINE t == tx[s]
             r == LockAndInsert(t)
  <1>1. TxOK(t) /\ t \in Tx /\ ProgressOK(t, orders, nextId) /\ t.pc = "place"
    BY DEF LInv, IInv, PlaceLock
  <1>2. /\ t.id \in Ids /\ t.batch = {} /\ BookOK(t.view) /\ RequestOK(t)
        /\ orders[t.id] = Null /\ t.id < nextId /\ SnapshotOK(t, orders)
        /\ t.rows = {} /\ t.fills = {}
    BY <1>1 DEF TxOK, ProgressOK, Placing, Matching
  <1>3. /\ r.pc = "match" /\ r.view = [t.view EXCEPT ![t.id] = NewOrder(t.user, t.req)]
        /\ r.id = t.id /\ r.rows = {t.id} /\ r.fills = {} /\ r.batch = {}
    BY <1>1, <1>2 DEF LockAndInsert, Tx
  <1> HIDE DEF r
  <1>4. Become(s, r) /\ UNCHANGED <<orders, wallets, trades, nextId>>
    BY DEF PlaceLock, r
  <1>5. ArrivingOK(r) BY <1>1, <1>2, <1>3, InsertArrives
  <1>6. SnapshotOK(r, orders)
    BY <1>2, <1>3 DEF SnapshotOK, BookOK, Matching
  <1>7. ProgressOK(r, orders, nextId')
    BY <1>2, <1>3, <1>4, <1>5, <1>6 DEF ProgressOK, Placing, Matching, MatchingOK
  <1>8. ASSUME NEW u \in Sessions \ {s} PROVE ApartOK(r, tx[u])
    <2>1. TxOK(tx[u]) /\ ProgressOK(tx[u], orders, nextId) /\ ApartOK(t, tx[u])
      BY DEF LInv, IInv
    <2>2. t.id \notin tx[u].rows
      BY <1>1, <1>2, <2>1, OthersDoNotHold DEF Placing
    <2> QED BY <1>1, <1>3, <2>1, <2>2 DEF ApartOK, Placing
  <1>9. nextId <= nextId' BY <1>4, ExchangeAssumption DEF LInv, IInv
  <1> QED BY <1>4, <1>7, <1>8, <1>9, MoveOK

(* A maker is selected only as it was committed, and only if nobody else holds it. *)
LEMMA SelectedAreFree ==
  ASSUME LInv, NEW s \in Sessions, MatchSelect(s), ~ Exhausted(tx[s]),
         NEW m \in SelectMakers(s)
  PROVE  /\ m \in Ids \ {tx[s].id} /\ IsMaker(tx[s].view, m, Taker(tx[s]))
         /\ m \in tx[s].rows \/ tx[s].view[m] = orders[m]
         /\ \A u \in Sessions \ {s} : m \notin tx[u].rows
  <1>1. m \in Ids /\ IsMaker(tx[s].view, m, Taker(tx[s])) BY SelectedAreMakers
  <1>2. m # tx[s].id BY <1>1 DEF IsMaker, IsLiveLimit, Opposite, Taker
  <1>3. \A u \in Sessions \ {s} : m \notin tx[u].rows
    BY DEF SelectMakers, FirstOf, OrderLocked
  <1>4. m \in OrdersNeeded(s) BY DEF OrdersNeeded, MatchSelect
  <1>5. ~ OrderStale(s, m) BY <1>4 DEF MatchSelect, Ready, Conflicts
  <1> QED BY <1>1, <1>2, <1>3, <1>5 DEF OrderStale

(* The makers that are selected are locked by nobody else and as they were committed. *)
LEMMA MatchSelectOK ==
  ASSUME LInv, IInv', NEW s \in Sessions, MatchSelect(s)
  PROVE  LInv'
  <1> DEFINE t     == tx[s]
             batch == IF Exhausted(t) THEN {} ELSE SelectMakers(s)
             pc    == IF batch = {} THEN "finish" ELSE "fill"
             r     == [t EXCEPT !.pc = pc, !.batch = batch, !.rows = @ \cup batch]
  <1>1. TxOK(t) /\ t \in Tx /\ ProgressOK(t, orders, nextId) /\ t.pc = "match"
    BY DEF LInv, IInv, MatchSelect
  <1>2. Become(s, r) /\ UNCHANGED <<orders, wallets, trades, nextId>> BY DEF MatchSelect
  <1>3. \A m \in batch :
          /\ m \in Ids \ {t.id} /\ IsMaker(t.view, m, Taker(t))
          /\ m \in t.rows \/ t.view[m] = orders[m]
          /\ \A u \in Sessions \ {s} : m \notin tx[u].rows
    BY SelectedAreFree
  <1>4. pc \in {"finish", "fill"} OBVIOUS
  <1> HIDE DEF batch, pc
  <1>5. /\ r.pc = pc /\ r.batch = batch /\ r.rows = t.rows \cup batch /\ r.view = t.view
        /\ r.id = t.id /\ r.fills = t.fills
    BY <1>1 DEF Tx
  <1> HIDE DEF r
  <1>6. Matching(t) /\ MatchingOK(t, orders) /\ Placing(t) /\ SnapshotOK(t, orders)
        /\ orders[t.id] = Null /\ t.id < nextId
    BY <1>1 DEF ProgressOK, Placing, Matching
  <1>7. Matching(r) /\ Placing(r) /\ Taker(r) = Taker(t)
    BY <1>4, <1>5 DEF Matching, Placing, Taker
  <1>8. MatchingOK(r, orders)
    <2>1. ASSUME NEW i \in r.rows \ {r.id} PROVE RowOK(r, i, orders)
      <3>1. CASE i \in t.rows BY <1>5, <1>6, <1>7, <2>1, <3>1 DEF MatchingOK, RowOK
      <3>2. CASE i \notin t.rows
        <4>1. t.view[i] = orders[i] /\ t.view[i] # Null
          BY <1>3, <1>5, <2>1, <3>2 DEF IsMaker, IsLiveLimit
        <4> QED BY <1>5, <4>1 DEF RowOK
      <3> QED BY <3>1, <3>2
    <2>2. \A x \in r.fills : TradeOK(r, x, orders)
      BY <1>5, <1>6, <1>7 DEF MatchingOK, TradeOK
    <2>3. ArrivingOK(r) BY <1>5, <1>6, <1>7 DEF MatchingOK, ArrivingOK
    <2>4. r.id \in r.rows /\ r.batch \subseteq r.rows \ {r.id}
      BY <1>3, <1>5, <1>6 DEF MatchingOK
    <2> QED BY <2>1, <2>2, <2>3, <2>4 DEF MatchingOK
  <1>9. SnapshotOK(r, orders) BY <1>5, <1>6, <1>7 DEF SnapshotOK
  <1>10. ProgressOK(r, orders, nextId')
    BY <1>2, <1>5, <1>6, <1>7, <1>8, <1>9 DEF ProgressOK, Matching
  <1>11. ASSUME NEW u \in Sessions \ {s} PROVE ApartOK(r, tx[u])
    <2>1. ApartOK(t, tx[u]) BY DEF LInv
    <2> QED BY <1>3, <1>5, <1>6, <2>1 DEF ApartOK
  <1>12. nextId <= nextId' BY <1>2, ExchangeAssumption DEF LInv, IInv
  <1> QED BY <1>2, <1>10, <1>11, <1>12, MoveOK

(* The end of a batch leaves the taker and its fills as they are. *)
LEMMA MatchNextOK ==
  ASSUME LInv, IInv', NEW s \in Sessions, MatchNext(s)
  PROVE  LInv'
  <1> DEFINE t == tx[s]
             r == [t EXCEPT !.pc = "match", !.batch = {}]
  <1>1. TxOK(t) /\ t \in Tx /\ ProgressOK(t, orders, nextId) /\ t.pc = "fill"
    BY DEF LInv, IInv, MatchNext
  <1>2. Become(s, r) /\ UNCHANGED <<orders, wallets, trades, nextId>> BY DEF MatchNext
  <1>3. /\ r.pc = "match" /\ r.batch = {} /\ r.rows = t.rows /\ r.view = t.view
        /\ r.id = t.id /\ r.fills = t.fills
    BY <1>1 DEF Tx
  <1> HIDE DEF r
  <1>4. Matching(t) /\ MatchingOK(t, orders) /\ Placing(t) /\ SnapshotOK(t, orders)
        /\ orders[t.id] = Null /\ t.id < nextId
    BY <1>1 DEF ProgressOK, Placing, Matching
  <1>5. Matching(r) /\ Placing(r) /\ Taker(r) = Taker(t)
    BY <1>3 DEF Matching, Placing, Taker
  <1>6. MatchingOK(r, orders)
    BY <1>3, <1>4, <1>5 DEF MatchingOK, RowOK, TradeOK, ArrivingOK
  <1>7. SnapshotOK(r, orders) BY <1>3, <1>4, <1>5 DEF SnapshotOK
  <1>8. ProgressOK(r, orders, nextId')
    BY <1>2, <1>3, <1>4, <1>5, <1>6, <1>7 DEF ProgressOK, Matching
  <1>9. ASSUME NEW u \in Sessions \ {s} PROVE ApartOK(r, tx[u])
    <2>1. ApartOK(t, tx[u]) BY DEF LInv
    <2> QED BY <1>3, <1>4, <2>1 DEF ApartOK
  <1>10. nextId <= nextId' BY <1>2, ExchangeAssumption DEF LInv, IInv
  <1> QED BY <1>2, <1>8, <1>9, <1>10, MoveOK

(* The row of a maker after one more trade. *)
MakerAfter(old, amount) ==
  [old EXCEPT !.filled = old.filled + amount,
              !.status = MakerStatus(old, old.filled + amount)]

(* A maker that is filled once more is the committed row, filled. *)
LEMMA FilledMore ==
  ASSUME NEW t, NEW m, NEW b, RowOK(t, m, b), IsMaker(t.view, m, Taker(t)),
         OrderOK(t.view[m]), OrderOK(b[m]),
         NEW amount \in Nat \ {0}, t.view[m].filled + amount <= t.view[m].amount,
         NEW taker, taker.side = Taker(t).side, taker.filled \in Nat, Taker(t).side \in Sides
  PROVE  Lifecycle!FilledBy(taker, b[m], MakerAfter(t.view[m], amount))
  <1> DEFINE old   == t.view[m]
             mfill == old.filled + amount
             new   == [old EXCEPT !.filled = mfill, !.status = MakerStatus(old, mfill)]
  <1>1. /\ old # Null /\ old.type = "limit" /\ old.status \in Live
        /\ old.side = Opposite(Taker(t).side) /\ b[m] # Null
        /\ old \in Order /\ b[m] \in Order
    BY DEF IsMaker, IsLiveLimit, OrderOK, RowOK
  <1>2. old.side # taker.side BY <1>1 DEF Opposite, Sides
  <1>3. old.amount \in Nat /\ old.filled \in Nat /\ b[m].filled \in Nat /\ mfill > old.filled
    BY <1>1 DEF OrderOK, IsMarketBuy, Order
  <1>4. /\ Lifecycle!IsLive(b[m]) /\ b[m].type = "limit" /\ b[m].side # taker.side
        /\ mfill > b[m].filled
        /\ old = [b[m] EXCEPT !.filled = old.filled, !.status = old.status]
    <2>1. CASE old = b[m] BY <1>1, <1>2, <1>3, <2>1 DEF Lifecycle!IsLive, Live, Order
    <2>2. CASE old # b[m] BY <1>2, <1>3, <2>2 DEF RowOK, Lifecycle!FilledBy
    <2> QED BY <2>1, <2>2
  <1>5. new = [b[m] EXCEPT !.filled = new.filled, !.status = new.status]
    BY <1>1, <1>4 DEF Order
  <1>6. /\ new.filled = mfill /\ new.amount = old.amount
        /\ new.status \in {"partially_filled", "filled"}
    BY <1>1 DEF Order, MakerStatus
  <1> HIDE DEF new
  <1>7. Lifecycle!FilledBy(taker, b[m], new)
    BY <1>3, <1>4, <1>5, <1>6 DEF Lifecycle!FilledBy, Lifecycle!Within
  <1> QED BY <1>7 DEF new, MakerAfter

(* What the trade of t with m leaves in the transaction, which is then r. *)
Traded(t, m, r, amount) ==
  /\ m \in Ids \ {t.id} /\ t.id \in Ids /\ t.view[m] # Null
  /\ IsMaker(t.view, m, Taker(t))
  /\ OrderOK(t.view[m]) /\ OrderOK(Taker(t)) /\ OrderOK(Taker(r))
  /\ amount \in Nat \ {0} /\ t.view[m].filled + amount <= t.view[m].amount
  /\ r.pc = "fill" /\ r.id = t.id /\ r.rows = t.rows /\ r.batch = t.batch \ {m}
  /\ \A x \in r.fills :
       \/ x \in t.fills
       \/ x.maker = m /\ x.taker = t.id /\ x.price = t.view[m].price
  /\ r.view[m] = MakerAfter(t.view[m], amount)
  /\ Taker(r) = [Taker(t) EXCEPT !.filled = Taker(t).filled + amount,
       !.status = TakerStatus(Taker(t), Taker(t).filled + amount, r.spent)]
  /\ \A i \in Ids \ {m, t.id} : r.view[i] = t.view[i]

(* A trade writes the two rows, taker and maker, and nothing else of the order book. *)
LEMMA FillWrites ==
  ASSUME NEW t, TxOK(t), t.pc = "fill", NEW m \in t.batch, Trades(t, m)
  PROVE  Traded(t, m, Fill(t, m), TradeAmount(t, t.view[m]))
  <1> DEFINE maker  == t.view[m]
             taker  == Taker(t)
             amount == TradeAmount(t, maker)
             mfill  == maker.filled + amount
             tfill  == taker.filled + amount
             r      == Fill(t, m)
             maker2 == [maker EXCEPT !.filled = mfill, !.status = MakerStatus(maker, mfill)]
             taker2 == [taker EXCEPT !.filled = tfill, !.status = TakerStatus(taker, tfill, r.spent)]
             view   == [t.view EXCEPT ![m] = maker2, ![t.id] = taker2]
  <1>1. /\ t \in Tx /\ BookOK(t.view) /\ t.id \in Ids /\ m \in Ids
        /\ OrderOK(maker) /\ maker # Null /\ OrderOK(taker) /\ taker # Null
        /\ IsMaker(t.view, m, taker)
    BY DEF TxOK, TakerOK, Taker, IsMaker, IsLiveLimit, BookOK, Tx
  <1>2. m # t.id BY <1>1 DEF IsMaker, IsLiveLimit, Taker, Opposite
  <1>3. amount \in Nat \ {0} /\ mfill <= maker.amount BY TradeAmountOK
  <1>4. TxOK(r) BY FillOK
  <1>5. /\ r.pc = t.pc /\ r.id = t.id /\ r.rows = t.rows /\ r.batch = t.batch \ {m}
        /\ r.view = view
        /\ \A x \in r.fills :
             \/ x \in t.fills
             \/ x.maker = m /\ x.taker = t.id /\ x.price = maker.price
    <2> DEFINE cost   == Cost(maker.price, amount)
               spent  == IF IsMarketBuy(taker) THEN t.spent + cost ELSE t.spent
               bought == IF IsMarketBuy(taker) THEN t.bought + amount ELSE t.bought
               status == TakerStatus(taker, tfill, spent)
               taker3 == [taker EXCEPT !.filled = tfill, !.status = status]
               view1  == [t.view EXCEPT ![m] = maker2, ![t.id] = taker3]
               funds  == Settle(t.funds, maker, taker, maker.price, amount)
               trade  == [maker |-> m, taker |-> t.id, price |-> maker.price, amount |-> amount,
                          quote |-> cost, feeMaker |-> FeeMaker(maker.price, amount),
                          feeTaker |-> FeeTaker(maker.price, amount)]
    <2>1. r = [t EXCEPT !.view = view1, !.funds = funds,
                        !.purse = t.purse \cup SettleRows(maker, taker),
                        !.fills = t.fills \cup {trade}, !.batch = t.batch \ {m},
                        !.spent = spent, !.bought = bought]
      BY DEF Fill
    <2>2. trade.maker = m /\ trade.taker = t.id /\ trade.price = maker.price OBVIOUS
    <2> HIDE DEF r, view1, funds, trade, spent, bought
    <2>3. /\ r.pc = t.pc /\ r.id = t.id /\ r.rows = t.rows /\ r.batch = t.batch \ {m}
          /\ r.view = view1 /\ r.spent = spent /\ r.fills = t.fills \cup {trade}
      BY <1>1, <2>1 DEF Tx
    <2>4. status = TakerStatus(taker, tfill, r.spent) BY <2>3, Zenon
    <2> HIDE DEF status
    <2>5. taker3 = taker2 BY <2>4
    <2> HIDE DEF taker3, taker2, maker2
    <2>6. view1 = view BY <2>5 DEF view1
    <2> QED BY <2>2, <2>3, <2>6
  <1> HIDE DEF r
  <1>6. view[m] = maker2 /\ view[t.id] = taker2 /\ \A i \in Ids \ {m, t.id} : view[i] = t.view[i]
    BY <1>1, <1>2 DEF BookOK
  <1>7. Taker(r) = taker2 BY <1>5, <1>6 DEF Taker
  <1>8. OrderOK(Taker(r))
    BY <1>1, <1>4, <1>5, <1>7, ExchangeAssumption DEF TxOK, TakerOK, BookOK, Taker, Matching
  <1> QED BY <1>1, <1>2, <1>3, <1>5, <1>6, <1>7, <1>8 DEF r, Traded, MakerAfter

(* A trade: the taker has filled the maker, at the maker's price. *)
LEMMA MatchFillOK ==
  ASSUME LInv, IInv', NEW s \in Sessions, MatchFill(s)
  PROVE  LInv'
  <1> DEFINE t == tx[s]
  <1>1. TxOK(t) /\ t \in Tx /\ ProgressOK(t, orders, nextId) /\ t.pc = "fill" /\ BookOK(orders)
    BY DEF LInv, IInv, MatchFill
  <1>2. PICK m \in t.batch : Trades(t, m) /\ Become(s, Fill(t, m))
    BY DEF MatchFill
  <1> DEFINE r      == Fill(t, m)
             amount == TradeAmount(t, t.view[m])
  <1>3. Traded(t, m, r, amount) BY <1>1, <1>2, FillWrites
  <1>4. Become(s, r) /\ UNCHANGED <<orders, wallets, trades, nextId>>
    BY <1>2 DEF MatchFill
  <1> HIDE DEF r, amount
  <1>5. Matching(t) /\ MatchingOK(t, orders) /\ Placing(t) /\ SnapshotOK(t, orders)
        /\ orders[t.id] = Null /\ t.id < nextId
    BY <1>1 DEF ProgressOK, Placing, Matching
  <1>6. Matching(r) /\ Placing(r) BY <1>3 DEF Traded, Matching, Placing
  <1>7. /\ Taker(r).side = Taker(t).side /\ Taker(r).type = Taker(t).type
        /\ Taker(r).price = Taker(t).price /\ Taker(r).tif = Taker(t).tif
        /\ Taker(r).amount = Taker(t).amount
        /\ Taker(r).filled = Taker(t).filled + amount
        /\ Taker(r).status = TakerStatus(Taker(t), Taker(t).filled + amount, r.spent)
        /\ Taker(t).filled \in Nat /\ Taker(t).side \in Sides
    <2>1. Taker(t) \in Order BY <1>3 DEF Traded, OrderOK
    <2> QED BY <1>3, <2>1 DEF Traded, Order
  <1>8. m \in t.rows /\ RowOK(t, m, orders) /\ t.rows \subseteq Ids
    BY <1>1, <1>3, <1>5 DEF Traded, MatchingOK, Tx
  <1>9. OrderOK(orders[m]) BY <1>1, <1>3, <1>8 DEF Traded, BookOK, RowOK
  <1>10. Taker(r).filled \in Nat /\ Taker(r).filled > 0 BY <1>3, <1>7 DEF Traded
  <1>11. Lifecycle!FilledBy(Taker(r), orders[m], r.view[m])
    <2>1. /\ IsMaker(t.view, m, Taker(t)) /\ OrderOK(t.view[m]) /\ amount \in Nat \ {0}
          /\ t.view[m].filled + amount <= t.view[m].amount
          /\ r.view[m] = MakerAfter(t.view[m], amount)
      BY <1>3 DEF Traded
    <2>2. Lifecycle!FilledBy(Taker(r), orders[m], MakerAfter(t.view[m], amount))
      BY <1>7, <1>8, <1>9, <1>10, <2>1, FilledMore
    <2> QED BY <2>1, <2>2
  <1>12. \A i \in r.rows \ {r.id} : RowOK(r, i, orders)
    <2> TAKE i \in r.rows \ {r.id}
    <2>1. CASE i = m
      <3>1. r.view[m] = MakerAfter(t.view[m], amount) /\ amount \in Nat /\ OrderOK(t.view[m])
        BY <1>3 DEF Traded
      <3>2. /\ MakerStatus(t.view[m], t.view[m].filled + amount) \in Statuses
            /\ t.view[m] \in Order /\ t.view[m].filled + amount \in Nat
        BY <3>1 DEF MakerStatus, OrderOK, Order, Statuses
      <3>3. MakerAfter(t.view[m], amount) \in Order BY <3>2 DEF MakerAfter, Order
      <3>4. r.view[m] # Null BY <3>1, <3>3, ExchangeAssumption
      <3> QED BY <1>8, <1>10, <1>11, <2>1, <3>4 DEF RowOK
    <2>2. CASE i # m
      <3>1. RowOK(t, i, orders) /\ r.view[i] = t.view[i]
        BY <1>3, <1>5, <1>8, <2>2 DEF Traded, MatchingOK
      <3> QED BY <1>7, <1>10, <3>1 DEF RowOK, Lifecycle!FilledBy
    <2> QED BY <2>1, <2>2
  <1>13. \A x \in r.fills : TradeOK(r, x, orders)
    <2> TAKE x \in r.fills
    <2>1. CASE x \in t.fills
      <3>1. TradeOK(t, x, orders) BY <1>5, <2>1 DEF MatchingOK
      <3> QED BY <1>3, <1>7, <3>1 DEF Traded, TradeOK
    <2>2. CASE x \notin t.fills
      <3>1. x.maker = m /\ x.taker = t.id /\ x.price = t.view[m].price BY <1>3, <2>2 DEF Traded
      <3>2. /\ IsLiveLimit(t.view, m, Opposite(Taker(t).side))
            /\ Taker(t).type = "limit" => Accepts(Taker(t).side, Taker(t).price, t.view[m].price)
        BY <1>3 DEF Traded, IsMaker
      <3>3. /\ orders[m].price = t.view[m].price
            /\ IsLiveLimit(orders, m, Opposite(Taker(t).side))
        <4>1. CASE t.view[m] = orders[m] BY <3>2, <4>1 DEF IsLiveLimit
        <4>2. CASE t.view[m] # orders[m]
          <5>1. /\ Lifecycle!IsLive(orders[m])
                /\ t.view[m] = [orders[m] EXCEPT !.filled = t.view[m].filled,
                                                 !.status = t.view[m].status]
            BY <1>8, <4>2 DEF RowOK, Lifecycle!FilledBy
          <5>2. /\ t.view[m].price = orders[m].price /\ t.view[m].type = orders[m].type
                /\ t.view[m].side = orders[m].side
            BY <1>9, <5>1 DEF OrderOK, Order
          <5> QED BY <1>8, <3>2, <5>1, <5>2 DEF IsLiveLimit, Lifecycle!IsLive, Live, RowOK
        <4> QED BY <4>1, <4>2
      <3> QED BY <1>3, <1>7, <1>8, <3>1, <3>2, <3>3 DEF Traded, TradeOK
    <2> QED BY <2>1, <2>2
  <1>14. ArrivingOK(r)
    <2>1. ~ PostOnly(Taker(r))
      BY <1>3, <1>5, <1>7 DEF Traded, MatchingOK, ArrivingOK, PostOnly
    <2>2. Taker(r).status \in {"partially_filled", "filled"} BY <1>7 DEF TakerStatus
    <2>3. Lifecycle!Arrives(Taker(r))
      BY <1>3, <1>10, <2>2 DEF Traded, Lifecycle!Arrives, Lifecycle!Within, OrderOK
    <2>4. ~ IsMarketBuy(Taker(r)) /\ Taker(r).status \in Live
            => Taker(r).filled < Taker(r).amount
      <3>1. ~ IsMarketBuy(Taker(r)) => Taker(r).amount \in Nat /\ ~ IsMarketBuy(Taker(t))
        BY <1>3, <1>7 DEF Traded, OrderOK, IsMarketBuy
      <3> QED BY <1>7, <1>10, <3>1 DEF TakerStatus, Live
    <2> QED BY <2>1, <2>2, <2>3, <2>4 DEF ArrivingOK
  <1>15. MatchingOK(r, orders)
    <2>1. r.id \in r.rows /\ r.batch \subseteq r.rows \ {r.id}
      BY <1>3, <1>5 DEF Traded, MatchingOK
    <2> QED BY <1>12, <1>13, <1>14, <2>1 DEF MatchingOK
  <1>16. SnapshotOK(r, orders)
    <2> SUFFICES ASSUME NEW i \in Ids, r.view[i] # Null
                 PROVE  orders[i] # Null \/ (Matching(r) /\ i = r.id)
      BY DEF SnapshotOK
    <2>1. CASE i = m BY <1>8, <2>1 DEF RowOK
    <2>2. CASE i = t.id BY <1>3, <1>6, <2>2 DEF Traded
    <2>3. CASE i \notin {m, t.id} BY <1>3, <1>5, <2>3 DEF Traded, SnapshotOK
    <2> QED BY <2>1, <2>2, <2>3
  <1>17. ProgressOK(r, orders, nextId')
    BY <1>3, <1>4, <1>5, <1>6, <1>15, <1>16 DEF Traded, ProgressOK, Matching
  <1>18. ASSUME NEW u \in Sessions \ {s} PROVE ApartOK(r, tx[u])
    <2>1. ApartOK(t, tx[u]) BY DEF LInv
    <2> QED BY <1>3, <1>5, <2>1 DEF Traded, ApartOK
  <1>19. nextId <= nextId' BY <1>4, ExchangeAssumption DEF LInv, IInv
  <1> QED BY <1>4, <1>17, <1>18, <1>19, MoveOK

-----------------------------------------------------------------------------
(* CancelOrder and AmendOrder *)

(* GetByIDForUpdate locks the row as it is committed, when nobody else holds it. *)
LEMMA RowLockOK ==
  ASSUME LInv, IInv', NEW s \in Sessions, CancelLock(s) \/ AmendLock(s)
  PROVE  LInv'
  <1> DEFINE t == tx[s]
  <1>1. TxOK(t) /\ t \in Tx /\ ProgressOK(t, orders, nextId) BY DEF LInv, IInv
  <1>2. PICK from \in {"cancel", "amend"}, to \in {"canceling", "amending"} :
           LockOrder(s, from, to)
    BY DEF CancelLock, AmendLock
  <1>3. CASE t.id \notin Found(t) BY <1>2, <1>3, GiveUpOK DEF LockOrder
  <1>4. CASE t.id \in Found(t)
    <2> DEFINE r == [t EXCEPT !.pc = to, !.rows = {t.id}]
    <2>1. t.pc = from /\ Ready(s) /\ Become(s, r) /\ UNCHANGED <<orders, wallets, trades, nextId>>
      BY <1>2, <1>4 DEF LockOrder
    <2>2. t.id \in Ids /\ t.view[t.id] # Null /\ OrdersNeeded(s) = {t.id}
      BY <1>4, <2>1 DEF Found, OrdersNeeded
    <2>3. /\ r.pc = to /\ r.id = t.id /\ r.view = t.view /\ r.rows = {t.id} /\ r.fills = t.fills
      BY <1>1 DEF Tx
    <2> HIDE DEF r
    <2>4. t.rows = {} /\ t.fills = {} /\ SnapshotOK(t, orders)
      BY <1>1, <1>2, <2>1 DEF ProgressOK, Matching
    <2>5. t.view[t.id] = orders[t.id]
      BY <2>1, <2>2, <2>4 DEF Ready, Conflicts, OrderStale
    <2>6. ~ Matching(t) /\ ~ Matching(r) /\ ~ Placing(r)
      BY <2>1, <2>3 DEF Matching, Placing
    <2>7. ProgressOK(r, orders, nextId')
      BY <2>1, <2>3, <2>4, <2>5, <2>6 DEF ProgressOK, SnapshotOK
    <2>8. ASSUME NEW u \in Sessions \ {s} PROVE ApartOK(r, tx[u])
      <3>1. tx[u].rows \cap {t.id} = {} BY <2>1, <2>2 DEF Ready, Waiting, Blocks
      <3> QED BY <2>3, <2>6, <3>1 DEF ApartOK
    <2>9. nextId <= nextId' BY <2>1, ExchangeAssumption DEF LInv, IInv
    <2> QED BY <2>1, <2>7, <2>8, <2>9, MoveOK
  <1> QED BY <1>3, <1>4

-----------------------------------------------------------------------------
(* What the commits install *)

(* A refund writes the status of the order and no other row. *)
LEMMA RefundWrites ==
  ASSUME NEW t, t \in Tx, t.id \in Ids, NEW remaining, NEW status
  PROVE  LET r == RefundRemaining(t, Taker(t), remaining, status)
         IN  /\ r.rows = t.rows /\ r.fills = t.fills /\ r.id = t.id
             /\ r.view = [t.view EXCEPT ![t.id] = [Taker(t) EXCEPT !.status = status]]
  BY DEF RefundRemaining, Tx, Taker

(* applyTIF leaves the new order as match left it, or ends it; what stays live may rest. *)
LEMMA EndsWrites ==
  ASSUME NEW t, TxOK(t), t.pc = "finish", ArrivingOK(t), NEW r, r = ApplyTIF(t)
  PROVE  /\ r.rows = t.rows /\ r.fills = t.fills
         /\ \A i \in Ids \ {t.id} : r.view[i] = t.view[i]
         /\ \E status \in {Taker(t).status, "canceled", "rejected"} :
              r.view[t.id] = [Taker(t) EXCEPT !.status = status]
         /\ Settled(r.view[t.id])
  <1> DEFINE o == Taker(t)
             remaining == TakerAmount(t) - o.filled
             status == FinalStatus(o)
  <1>1. t \in Tx /\ t.id \in Ids /\ o # Null /\ OrderOK(o) /\ o \in Order
    BY DEF TxOK, TakerOK, BookOK, Taker, OrderOK
  <1>2. CASE r = t
    <2>1. r.view[t.id] = [o EXCEPT !.status = o.status] BY <1>1, <1>2 DEF Taker, Order
    <2>2. Settled(o)
      <3> SUFFICES ASSUME o.status \in Live, ~ IsMarketBuy(o)
                   PROVE  o.type = "limit" /\ o.tif = "GTC"
        BY DEF Settled
      <3>1. o.filled < o.amount /\ o.amount \in Nat /\ o.filled \in Nat
        BY <1>1 DEF ArrivingOK, OrderOK, Order
      <3>2. TakerAmount(t) = o.amount BY DEF TakerAmount
      <3>3. ~ (remaining <= 0) /\ TakerAmount(t) # Null BY <3>1, <3>2, ExchangeAssumption
      <3>4. o.status \notin {"canceled", "rejected"} BY DEF Live
      <3>5. CASE status = Null
        BY <1>1, <3>5, ExchangeAssumption DEF FinalStatus, Order, TIFs, Types, Statuses
      <3>6. CASE status # Null
        <4>1. r = RefundRemaining(t, o, remaining, status) BY <3>3, <3>6, Zenon DEF ApplyTIF
        <4>2. status \in {"canceled", "rejected"}
          BY <1>1, <3>6 DEF FinalStatus, Order, TIFs, Types
        <4> HIDE DEF status, remaining, o
        <4>3. r.view = [t.view EXCEPT ![t.id] = [o EXCEPT !.status = status]]
          BY <1>1, <4>1, RefundWrites DEF o
        <4>4. r.view[t.id] = [o EXCEPT !.status = status] BY <1>1, <4>3 DEF Tx
        <4>5. r.view[t.id].status = status BY <1>1, <4>4 DEF Order
        <4> QED BY <1>2, <3>4, <4>2, <4>5 DEF Taker, o
      <3> QED BY <3>5, <3>6
    <2> QED BY <1>2, <2>1, <2>2 DEF Taker
  <1>3. CASE r # t
    <2>1. r = RefundRemaining(t, o, remaining, status) /\ status # Null
      BY <1>3 DEF ApplyTIF
    <2>2. status \in {"canceled", "rejected"}
      BY <1>1, <2>1 DEF FinalStatus, Order, TIFs, Types
    <2> HIDE DEF status, remaining, o
    <2>3. r.view = [t.view EXCEPT ![t.id] = [o EXCEPT !.status = status]]
          /\ r.rows = t.rows /\ r.fills = t.fills
      BY <1>1, <2>1, RefundWrites DEF o
    <2>4. r.view[t.id] = [o EXCEPT !.status = status]
      BY <1>1, <2>3 DEF Tx
    <2>5. Settled(r.view[t.id])
      <3>1. r.view[t.id].status = status BY <1>1, <2>4 DEF Order
      <3> QED BY <2>2, <3>1 DEF Settled, Live
    <2>6. \A i \in Ids \ {t.id} : r.view[i] = t.view[i] BY <1>1, <2>3 DEF Tx
    <2> QED BY <2>2, <2>3, <2>4, <2>5, <2>6 DEF o
  <1> QED BY <1>2, <1>3

(* Each committed trade is at the price of a live maker that the taker accepts. *)
NewTradesWithinLimits ==
  \A x \in trades' \ trades :
    LET taker == orders'[x.taker]
    IN  /\ IsLiveLimit(orders, x.maker, Opposite(taker.side))
        /\ x.price = orders[x.maker].price
        /\ taker.type = "limit" => Accepts(taker.side, taker.price, x.price)

(* The commit of PlaceOrder is one placement. *)
LEMMA PlaceCommits ==
  ASSUME LInv, NEW s \in Sessions, PlaceFinish(s)
  PROVE  /\ CommitsWell(tx[s], ApplyTIF(tx[s]), orders)
         /\ Lifecycle!Place(tx[s].id)
         /\ NewTradesWithinLimits
  <1> DEFINE t == tx[s]
             r == ApplyTIF(t)
  <1>1. TxOK(t) /\ ProgressOK(t, orders, nextId) /\ t.pc = "finish" /\ BookOK(orders)
    BY DEF LInv, IInv, PlaceFinish
  <1>2. /\ MatchingOK(t, orders) /\ ArrivingOK(t) /\ orders[t.id] = Null
        /\ t.id \in Ids /\ t.id \in t.rows /\ t.rows \subseteq Ids /\ Matching(t)
        /\ Taker(t) # Null /\ OrderOK(Taker(t)) /\ Taker(t) \in Order /\ BookOK(t.view)
    BY <1>1 DEF ProgressOK, Matching, Placing, MatchingOK, TxOK, TakerOK, BookOK, Taker, Tx, OrderOK
  <1>3. /\ r.rows = t.rows /\ r.fills = t.fills
        /\ \A i \in Ids \ {t.id} : r.view[i] = t.view[i]
        /\ \E status \in {Taker(t).status, "canceled", "rejected"} :
             r.view[t.id] = [Taker(t) EXCEPT !.status = status]
        /\ Settled(r.view[t.id])
    BY <1>1, <1>2, EndsWrites
  <1>4. /\ orders' = [i \in Ids |-> IF i \in r.rows THEN r.view[i] ELSE orders[i]]
        /\ trades' = trades \cup r.fills
    BY DEF PlaceFinish, Commit
  <1> HIDE DEF r
  <1> DEFINE o == r.view[t.id]
  <1>5. /\ o.type = Taker(t).type /\ o.tif = Taker(t).tif /\ o.side = Taker(t).side
        /\ o.price = Taker(t).price /\ o.filled = Taker(t).filled /\ o.amount = Taker(t).amount
        /\ o.status \in {Taker(t).status, "canceled", "rejected"} /\ o \in Order /\ o # Null
    <2>1. PICK status \in {Taker(t).status, "canceled", "rejected"} :
            o = [Taker(t) EXCEPT !.status = status]
      BY <1>3
    <2>2. status \in Statuses BY <1>2 DEF Order, Statuses
    <2>3. o \in Order BY <1>2, <2>1, <2>2 DEF Order
    <2> QED BY <1>2, <2>1, <2>3, ExchangeAssumption DEF Order
  <1> HIDE DEF o
  <1>6. ASSUME NEW i \in t.rows \ {t.id}
        PROVE  /\ r.view[i] = t.view[i] /\ orders[i] # Null /\ OrderOK(orders[i])
               /\ \/ t.view[i] = orders[i]
                  \/ o.filled > 0 /\ Lifecycle!FilledBy(o, orders[i], r.view[i])
    <2>1. RowOK(t, i, orders) /\ r.view[i] = t.view[i] BY <1>2, <1>3 DEF MatchingOK
    <2>2. OrderOK(orders[i]) BY <1>1, <1>2, <2>1 DEF RowOK, BookOK
    <2> QED BY <1>5, <2>1, <2>2 DEF RowOK, Lifecycle!FilledBy
  <1>7. CommitsWell(t, r, orders)
    <2>1. ASSUME NEW i \in t.rows
          PROVE  /\ r.view[i] # Null /\ Settled(r.view[i])
                 /\ orders[i] # Null => r.view[i].type = orders[i].type /\ r.view[i].tif = orders[i].tif
      <3>1. CASE i = t.id BY <1>2, <1>3, <1>5, <3>1 DEF o
      <3>2. CASE i # t.id /\ t.view[i] = orders[i]
        BY <1>2, <1>6, <3>2 DEF LInv, IssuedOK
      <3>3. CASE i # t.id /\ t.view[i] # orders[i]
        <4>1. Lifecycle!FilledBy(o, orders[i], r.view[i]) /\ orders[i] \in Order
          BY <1>6, <3>3 DEF OrderOK
        <4>2. /\ r.view[i] = [orders[i] EXCEPT !.filled = r.view[i].filled,
                                              !.status = r.view[i].status]
              /\ Lifecycle!IsLive(orders[i])
          BY <4>1 DEF Lifecycle!FilledBy
        <4>3. /\ r.view[i].type = orders[i].type /\ r.view[i].tif = orders[i].tif
              /\ r.view[i].side = orders[i].side
          BY <4>1, <4>2 DEF Order
        <4>4. Settled(orders[i]) /\ orders[i].status \in Live
          BY <1>2, <1>6, <3>3, <4>2 DEF LInv, IssuedOK, Lifecycle!IsLive, Live
        <4>5. Settled(r.view[i]) BY <4>3, <4>4 DEF Settled, IsMarketBuy
        <4>6. r.view[i] # Null BY <1>2, <1>6, <3>3 DEF MatchingOK, RowOK
        <4> QED BY <4>3, <4>5, <4>6
      <3> QED BY <3>1, <3>2, <3>3
    <2>2. \A x \in r.fills : x.taker \in t.rows /\ ~ PostOnly(r.view[x.taker])
      <3>1. \A x \in t.fills : x.taker = t.id BY <1>2 DEF MatchingOK, TradeOK
      <3>2. PostOnly(o) => t.fills = {} BY <1>2, <1>5 DEF ArrivingOK, PostOnly
      <3> QED BY <1>2, <1>3, <3>1, <3>2 DEF o
    <2> QED BY <1>3, <2>1, <2>2 DEF CommitsWell
  <1>8. orders'[t.id] = o BY <1>2, <1>3, <1>4 DEF o
  <1>9. Lifecycle!Place(t.id)
    <2>1. Lifecycle!Arrives(o)
      BY <1>2, <1>5 DEF ArrivingOK, Lifecycle!Arrives, Lifecycle!Within
    <2>2. ASSUME NEW j \in Ids \ {t.id}, orders'[j] # orders[j]
          PROVE  o.filled > 0 /\ Lifecycle!FilledBy(o, orders[j], orders'[j])
      <3>1. j \in t.rows /\ orders'[j] = r.view[j] BY <1>3, <1>4, <2>2
      <3> QED BY <1>6, <2>2, <3>1
    <2> QED BY <1>2, <1>5, <1>8, <2>1, <2>2 DEF Lifecycle!Place
  <1>10. NewTradesWithinLimits
    <2>1. ASSUME NEW x \in t.fills
          PROVE  /\ x.taker = t.id
                 /\ IsLiveLimit(orders, x.maker, Opposite(o.side))
                 /\ x.price = orders[x.maker].price
                 /\ o.type = "limit" => Accepts(o.side, o.price, x.price)
      <3>1. TradeOK(t, x, orders) BY <1>2 DEF MatchingOK
      <3> QED BY <1>5, <3>1 DEF TradeOK
    <2> QED BY <1>3, <1>4, <1>8, <2>1 DEF NewTradesWithinLimits
  <1> QED BY <1>7, <1>9, <1>10 DEF r

(* A refund keeps a cancelling transaction well typed. *)
LEMMA CancelRefundTyped ==
  ASSUME NEW t, TxOK(t), t.pc = "canceling"
  PROVE  CancelRefund(t) \in Tx
  <1>1. Committable(t) /\ t.id \in Ids /\ Taker(t) # Null /\ OrderOK(Taker(t))
    BY DEF TxOK, BookOK, Taker, Committable
  <1>2. CASE Refunds(t)
    <2>1. ~ IsMarketBuy(Taker(t)) /\ Taker(t).amount - Taker(t).filled \in Nat
      BY <1>1, <1>2 DEF Refunds, OrderOK, Order
    <2>2. "canceled" \in Statuses BY DEF Statuses
    <2> QED BY <1>1, <1>2, <2>1, <2>2, RefundOK DEF CancelRefund, Committable
  <1>3. CASE ~ Refunds(t) BY <1>1, <1>3 DEF CancelRefund, Committable
  <1> QED BY <1>2, <1>3

(* A row that a cancel or an amend is about to write: as committed, and live. *)
LEMMA ChangedRow ==
  ASSUME LInv, NEW s \in Sessions, tx[s].pc \in {"canceling", "amending"}, OwnerMay(tx[s])
  PROVE  LET t == tx[s]
         IN  /\ t \in Tx /\ TxOK(t) /\ t.id \in Ids /\ t.rows = {t.id} /\ t.fills = {}
             /\ Taker(t) = orders[t.id] /\ Taker(t) # Null
             /\ OrderOK(Taker(t)) /\ Taker(t) \in Order /\ Lifecycle!IsLive(orders[t.id])
             /\ Settled(orders[t.id]) /\ orders \in [Ids -> Order \cup {Null}]
  BY DEF LInv, IInv, TxOK, ProgressOK, Matching, BookOK, OrderOK, Taker, OwnerMay,
         Lifecycle!IsLive, Live, IssuedOK

(* The commit of CancelOrder is one cancel. *)
LEMMA CancelCommits ==
  ASSUME LInv, NEW s \in Sessions, tx[s].pc = "canceling", OwnerMay(tx[s]), NEW r,
         r = [CancelRefund(tx[s]) EXCEPT !.view[tx[s].id].status = "canceled"], Commit(s, r)
  PROVE  /\ CommitsWell(tx[s], r, orders)
         /\ Lifecycle!Cancel(tx[s].id)
         /\ trades' = trades
  <1> DEFINE t == tx[s]
             o == orders[t.id]
             c == CancelRefund(t)
  <1>1. /\ t \in Tx /\ t.id \in Ids /\ t.rows = {t.id} /\ t.fills = {}
        /\ Taker(t) = o /\ o # Null /\ o \in Order /\ Lifecycle!IsLive(o)
        /\ orders \in [Ids -> Order \cup {Null}]
    BY ChangedRow
  <1>2. /\ c.rows = t.rows /\ c.fills = t.fills
        /\ c.view = t.view \/ c.view = [t.view EXCEPT ![t.id] = [o EXCEPT !.status = "canceled"]]
    <2>1. CASE Refunds(t)
      <3> DEFINE remaining == Taker(t).amount - Taker(t).filled
      <3>1. c = RefundRemaining(t, Taker(t), remaining, "canceled") BY <2>1 DEF CancelRefund
      <3> HIDE DEF c, remaining, o
      <3> QED BY <1>1, <3>1, RefundWrites
    <2>2. CASE ~ Refunds(t) BY <2>2 DEF CancelRefund
    <2> QED BY <2>1, <2>2
  <1>3. c \in Tx /\ r = [c EXCEPT !.view[t.id].status = "canceled"]
    BY CancelRefundTyped DEF LInv, IInv
  <1> HIDE DEF c
  <1>4. r.rows = t.rows /\ r.fills = {} /\ r.view = [c.view EXCEPT ![t.id].status = "canceled"]
    BY <1>1, <1>2, <1>3 DEF Tx
  <1>5. c.view[t.id] = o \/ c.view[t.id] = [o EXCEPT !.status = "canceled"]
    BY <1>1, <1>2 DEF Tx, Taker
  <1>6. r.view[t.id] = [o EXCEPT !.status = "canceled"]
    <2>1. r.view[t.id] = [c.view[t.id] EXCEPT !.status = "canceled"]
      BY <1>1, <1>3, <1>4 DEF Tx
    <2> QED BY <1>1, <1>5, <2>1 DEF Order
  <1>7. /\ r.view[t.id].status = "canceled" /\ r.view[t.id].type = o.type
        /\ r.view[t.id].tif = o.tif /\ r.view[t.id] # Null
    BY <1>1, <1>6, ExchangeAssumption DEF Order, Statuses
  <1>8. CommitsWell(t, r, orders)
    BY <1>1, <1>4, <1>7 DEF CommitsWell, Settled, Live
  <1>9. /\ orders' = [i \in Ids |-> IF i \in r.rows THEN r.view[i] ELSE orders[i]]
        /\ trades' = trades \cup r.fills
    BY DEF Commit
  <1>10. orders' = [orders EXCEPT ![t.id].status = "canceled"]
    BY <1>1, <1>4, <1>6, <1>9
  <1> QED BY <1>1, <1>4, <1>8, <1>9, <1>10 DEF Lifecycle!Cancel

(* The commit of AmendOrder is one amend. *)
LEMMA AmendCommits ==
  ASSUME LInv, NEW s \in Sessions, tx[s].pc = "amending", CanAmend(tx[s]), Commit(s, Amended(tx[s]))
  PROVE  /\ CommitsWell(tx[s], Amended(tx[s]), orders)
         /\ Lifecycle!Amend(tx[s].id)
         /\ trades' = trades
  <1> DEFINE t   == tx[s]
             o   == orders[t.id]
             r   == Amended(t)
             new == [o EXCEPT !.price = NewPrice(t), !.amount = t.req.amount]
  <1>1. /\ t \in Tx /\ TxOK(t) /\ t.id \in Ids /\ t.rows = {t.id} /\ t.fills = {}
        /\ Taker(t) = o /\ o # Null /\ OrderOK(o) /\ o \in Order /\ Lifecycle!IsLive(o)
        /\ Settled(o) /\ orders \in [Ids -> Order \cup {Null}]
    BY ChangedRow DEF CanAmend
  <1>2. /\ t.req \in AmendReqs /\ o.type = "limit" /\ t.req.amount >= o.filled
    BY <1>1 DEF TxOK, CanAmend
  <1>3. /\ t.req.amount \in Nat /\ NewPrice(t) \in Prices
    BY <1>1, <1>2, OrderServiceAssumption DEF NewPrice, OrderOK
  <1>4. r.rows = t.rows /\ r.fills = t.fills /\ r.view = [t.view EXCEPT ![t.id] = new]
    BY <1>1 DEF Amended, Tx
  <1> HIDE DEF r
  <1>5. r.view[t.id] = new BY <1>1, <1>4 DEF Tx
  <1>6. /\ new.type = o.type /\ new.tif = o.tif /\ new.side = o.side /\ new.status = o.status
        /\ new.price = NewPrice(t) /\ new.amount = t.req.amount /\ new.filled = o.filled
        /\ new \in Order /\ new # Null
    <2>1. new \in Order BY <1>1, <1>3 DEF Order
    <2> QED BY <1>1, <2>1, ExchangeAssumption DEF Order
  <1> HIDE DEF new
  <1>7. CommitsWell(t, r, orders)
    BY <1>1, <1>4, <1>5, <1>6 DEF CommitsWell, Settled, IsMarketBuy
  <1>8. /\ orders' = [i \in Ids |-> IF i \in r.rows THEN r.view[i] ELSE orders[i]]
        /\ trades' = trades \cup r.fills
    BY DEF Commit, r
  <1>9. orders'[t.id] = new BY <1>1, <1>4, <1>5, <1>8
  <1>10. new = [o EXCEPT !.price = new.price, !.amount = new.amount]
    BY <1>6, Zenon DEF new
  <1>11. orders' = [orders EXCEPT ![t.id] = new]
    BY <1>1, <1>4, <1>5, <1>8
  <1>12. orders' = [orders EXCEPT ![t.id].price = orders'[t.id].price,
                                  ![t.id].amount = orders'[t.id].amount]
    BY <1>1, <1>9, <1>10, <1>11
  <1>13. Lifecycle!Within(orders'[t.id])
    BY <1>2, <1>6, <1>9 DEF Lifecycle!Within
  <1> QED BY <1>1, <1>2, <1>4, <1>7, <1>8, <1>12, <1>13 DEF Lifecycle!Amend, r

-----------------------------------------------------------------------------
(* LInv is inductive, and every step is one of the lifecycle's *)

(* A step of a session commits one change of the lifecycle or leaves orders and
   trades alone, and keeps the invariant. *)
LEMMA SessionStep ==
  ASSUME LInv, IInv', NEW s \in Sessions, Arrive(s) \/ Step(s) \/ Rollback(s)
  PROVE  /\ LInv'
         /\ Lifecycle!Next \/ orders' = orders
         /\ NewTradesWithinLimits
  <1> DEFINE t == tx[s]
  <1>1. t.pc \in {"finish", "canceling", "amending"} => t.id \in Ids
    BY DEF LInv, IInv, TxOK, TakerOK
  <1>2. ASSUME UNCHANGED <<orders, trades>>
        PROVE  (Lifecycle!Next \/ orders' = orders) /\ NewTradesWithinLimits
    BY <1>2 DEF NewTradesWithinLimits
  <1>3. ASSUME Abandon(s)
        PROVE  LInv' /\ (Lifecycle!Next \/ orders' = orders) /\ NewTradesWithinLimits
    <2>1. LInv' BY <1>3, GiveUpOK
    <2> QED BY <1>2, <1>3, <2>1 DEF Abandon
  <1>4. CASE Arrive(s)
    <2>1. LInv' BY <1>4, ArrivalOK
    <2>2. UNCHANGED <<orders, trades>>
      BY <1>4 DEF Arrive, PlaceBegin, CancelBegin, AmendBegin, Begin
    <2> QED BY <1>2, <2>1, <2>2
  <1>5. CASE Rollback(s) \/ Fail(s) \/ PlaceRefuse(s)
    BY <1>3, <1>5 DEF Rollback, Fail, PlaceRefuse
  <1>6. CASE PlaceLock(s) \/ MatchSelect(s) \/ MatchFill(s) \/ MatchNext(s)
    <2>1. LInv' BY <1>6, PlaceLockOK, MatchSelectOK, MatchFillOK, MatchNextOK
    <2>2. UNCHANGED <<orders, trades>>
      BY <1>6 DEF PlaceLock, MatchSelect, MatchFill, MatchNext
    <2> QED BY <1>2, <2>1, <2>2
  <1>7. CASE CancelLock(s) \/ AmendLock(s)
    <2>1. LInv' BY <1>7, RowLockOK
    <2>2. UNCHANGED <<orders, trades>>
      BY <1>7 DEF CancelLock, AmendLock, LockOrder, Abandon
    <2> QED BY <1>2, <2>1, <2>2
  <1>8. CASE PlaceFinish(s)
    <2>1. /\ CommitsWell(t, ApplyTIF(t), orders) /\ Lifecycle!Place(t.id)
          /\ NewTradesWithinLimits /\ t.pc = "finish" /\ Commit(s, ApplyTIF(t))
      BY <1>8, PlaceCommits DEF PlaceFinish
    <2>2. LInv' BY <2>1, InstallOK
    <2> QED BY <1>1, <2>1, <2>2 DEF Lifecycle!Next
  <1>9. CASE CancelFinish(s)
    <2> DEFINE r == [CancelRefund(t) EXCEPT !.view[t.id].status = "canceled"]
    <2>1. CASE OwnerMay(t)
      <3>1. t.pc = "canceling" /\ Commit(s, r) BY <1>9, <2>1 DEF CancelFinish
      <3>2. CommitsWell(t, r, orders) /\ Lifecycle!Cancel(t.id) /\ trades' = trades
        BY <2>1, <3>1, CancelCommits
      <3> HIDE DEF r
      <3>3. LInv' BY <3>1, <3>2, InstallOK
      <3> QED BY <1>1, <3>1, <3>2, <3>3 DEF Lifecycle!Next, NewTradesWithinLimits
    <2>2. CASE ~ OwnerMay(t) BY <1>3, <1>9, <2>2 DEF CancelFinish
    <2> QED BY <2>1, <2>2
  <1>10. CASE AmendFinish(s)
    <2>1. CASE CanAmend(t) /\ AmendCovered(t)
      <3>1. t.pc = "amending" /\ Commit(s, Amended(t)) BY <1>10, <2>1 DEF AmendFinish
      <3>2. CommitsWell(t, Amended(t), orders) /\ Lifecycle!Amend(t.id) /\ trades' = trades
        BY <2>1, <3>1, AmendCommits
      <3>3. LInv' BY <3>1, <3>2, InstallOK
      <3> QED BY <1>1, <3>1, <3>2, <3>3 DEF Lifecycle!Next, NewTradesWithinLimits
    <2>2. CASE ~ (CanAmend(t) /\ AmendCovered(t)) BY <1>3, <1>10, <2>2 DEF AmendFinish
    <2> QED BY <2>1, <2>2
  <1> QED BY <1>4, <1>5, <1>6, <1>7, <1>8, <1>9, <1>10 DEF Step

(* LInv holds at the start. *)
LEMMA StartsWell == Init => LInv
  <1> SUFFICES ASSUME Init PROVE LInv OBVIOUS
  <1>1. IInv BY InitOK
  <1>2. \A s \in Sessions : ProgressOK(tx[s], orders, nextId)
    BY DEF Init, ProgressOK, IdleTx, NoOrders, SnapshotOK, Placing, Matching
  <1>3. \A s, u \in Sessions : ApartOK(tx[s], tx[u])
    BY DEF Init, ApartOK, IdleTx, Placing, Matching
  <1>4. IssuedOK /\ TakersOK BY DEF Init, IssuedOK, TakersOK, NoOrders
  <1> QED BY <1>1, <1>2, <1>3, <1>4 DEF LInv

(* Every step keeps LInv and is a step of the lifecycle. *)
LEMMA NextSteps ==
  LInv /\ [Next]_vars => LInv' /\ [Lifecycle!Next]_orders /\ NewTradesWithinLimits
  <1> SUFFICES ASSUME LInv, [Next]_vars
               PROVE  LInv' /\ [Lifecycle!Next]_orders /\ NewTradesWithinLimits
    OBVIOUS
  <1>1. IInv' BY NextKeepsIInv DEF LInv
  <1>2. CASE UNCHANGED vars
    <2>1. \A s \in Sessions : ProgressOK(tx'[s], orders', nextId')
      BY <1>2 DEF vars, LInv
    <2>2. \A s, u \in Sessions : s # u => ApartOK(tx'[s], tx'[u])
      BY <1>2 DEF vars, LInv
    <2>3. IssuedOK' /\ TakersOK' BY <1>2 DEF vars, LInv, IssuedOK, TakersOK
    <2>4. NewTradesWithinLimits BY <1>2 DEF vars, NewTradesWithinLimits
    <2> QED BY <1>1, <1>2, <2>1, <2>2, <2>3, <2>4 DEF vars, LInv
  <1>3. ASSUME NEW s \in Sessions, Arrive(s) \/ Step(s) \/ Rollback(s)
        PROVE  LInv' /\ [Lifecycle!Next]_orders /\ NewTradesWithinLimits
    BY <1>1, <1>3, SessionStep
  <1> QED BY <1>2, <1>3 DEF Next

(* LInv holds in every state of every execution. *)
THEOREM LifecycleInvariance == Spec => []LInv
  BY StartsWell, NextSteps, PTL DEF Spec

(* OrderService implements OrderLifecycle: each commit is one placement, one cancel
   or one amend of the committed rows, whatever the sessions interleave. *)
THEOREM ServiceImplementsLifecycle == Spec => ImplementsLifecycle
  <1>1. Init => Lifecycle!Init BY DEF Init, Lifecycle!Init, NoOrders
  <1> QED BY <1>1, StartsWell, NextSteps, PTL DEF Spec, ImplementsLifecycle, Lifecycle!Spec

(* Every trade is committed at its maker's price, on a live row, within the taker's
   limit. *)
THEOREM TradesWithinLimits == Spec => ExecutesWithinLimits
  <1>1. LInv /\ [Next]_vars =>
          [\A x \in trades' \ trades :
             LET taker == orders'[x.taker]
             IN  /\ IsLiveLimit(orders, x.maker, Opposite(taker.side))
                 /\ x.price = orders[x.maker].price
                 /\ taker.type = "limit" => Accepts(taker.side, taker.price, x.price)]_vars
    BY NextSteps DEF NewTradesWithinLimits
  <1> QED BY <1>1, StartsWell, NextSteps, PTL DEF Spec, ExecutesWithinLimits

(* POST_ONLY limit orders never take liquidity. *)
THEOREM PostOnlyOnlyMakes == Spec => []PostOnlyNeverTakes
  <1>1. LInv => PostOnlyNeverTakes
    BY DEF LInv, TakersOK, PostOnly, PostOnlyNeverTakes
  <1> QED BY <1>1, LifecycleInvariance, PTL

(* IOC and FOK orders and market sells never rest. *)
THEOREM ImmediateOrdersEnd == Spec => []ImmediateOrdersNeverRest
  <1>1. LInv => ImmediateOrdersNeverRest
    BY DEF LInv, IssuedOK, Settled, Placed, ImmediateOrdersNeverRest
  <1> QED BY <1>1, LifecycleInvariance, PTL

-----------------------------------------------------------------------------
(* One request at a time: price-time priority *)

(* No two requests are in flight at once. *)
Alone == \A s, u \in Sessions : s = u

(* The makers of the trades that a transaction has made so far. *)
Made(t) == {x.maker : x \in t.fills}

(* What remains to be matched is behind what has been: a maker that the taker still
   accepts precedes none that it has traded with, and of those in the batch it
   precedes only some that it is in the batch with.  b are the committed orders. *)
BehindOK(t, b) ==
  \A k \in Ids : IsMaker(t.view, k, Taker(t)) =>
    /\ \A m \in Made(t) : ~ Precedes(b, k, m)
    /\ \A m \in t.batch : Precedes(b, k, m) => k \in t.batch

(* When matching has ended, a taker that still wants something accepts no maker. *)
EndedOK(t) ==
  t.pc = "finish" /\ ~ IsMarketBuy(Taker(t)) /\ Taker(t).status \in Live
    => \A k \in Ids : ~ IsMaker(t.view, k, Taker(t))

(* A transaction that runs alone reads what is committed, but for its own writes. *)
CurrentOK(t, b) ==
  t.pc # "idle" =>
    \A k \in Ids : \/ Matching(t) /\ k = t.id
                   \/ t.view[k] = b[k] \/ k \in Made(t)

QueueOK(t, b) ==
  /\ CurrentOK(t, b)
  /\ \A k \in Made(t) : t.view[k].status = "filled"
  /\ Matching(t) => BehindOK(t, b) /\ EndedOK(t)

QInv == LInv /\ \A s \in Sessions : QueueOK(tx[s], orders)

(* The order of the makers of one side is a strict one. *)
LEMMA PrecedesIsStrict ==
  ASSUME NEW b, BookOK(b), NEW side, NEW cand \in SUBSET Ids,
         \A i \in cand : IsLiveLimit(b, i, side)
  PROVE  /\ \A i, j \in cand : Precedes(b, i, j) => ~ Precedes(b, j, i)
         /\ \A i, j, k \in cand : Precedes(b, i, j) /\ Precedes(b, j, k) => Precedes(b, i, k)
  <1>1. \A i \in cand : i \in Int /\ b[i].side = side /\ b[i].price \in Int
    BY DEF Ids, BookOK, IsLiveLimit, OrderOK, Prices
  <1> QED BY <1>1 DEF Precedes

(* The first n of the candidates are some, and nobody left out is before them. *)
LEMMA FirstOfIsAhead ==
  ASSUME NEW b, BookOK(b), NEW side, NEW cand \in SUBSET Ids,
         \A i \in cand : IsLiveLimit(b, i, side), NEW n \in Nat \ {0}
  PROVE  /\ \A m \in FirstOf(b, cand, n), k \in cand :
              Precedes(b, k, m) => k \in FirstOf(b, cand, n)
         /\ cand # {} => FirstOf(b, cand, n) # {}
  <1> DEFINE Ahead(i) == {j \in cand : Precedes(b, j, i)}
  <1>1. IsFiniteSet(cand)
    <2>1. IsFiniteSet(Ids) BY ExchangeAssumption, FS_Interval DEF Ids
    <2> QED BY <2>1, FS_Subset
  <1>2. \A i \in cand : Ahead(i) \in SUBSET cand /\ IsFiniteSet(Ahead(i))
    BY <1>1, FS_Subset
  <1>3. /\ \A i, j \in cand : Precedes(b, i, j) => ~ Precedes(b, j, i)
        /\ \A i, j, k \in cand : Precedes(b, i, j) /\ Precedes(b, j, k) => Precedes(b, i, k)
    BY PrecedesIsStrict
  <1>4. \A i, j \in cand : Precedes(b, i, j) => Ahead(i) \subseteq Ahead(j) /\ i \notin Ahead(i)
    BY <1>3
  <1>5. FirstOf(b, cand, n) = {i \in cand : Cardinality(Ahead(i)) < n} BY DEF FirstOf
  <1> HIDE DEF Ahead
  <1>6. ASSUME NEW m \in FirstOf(b, cand, n), NEW k \in cand, Precedes(b, k, m)
        PROVE  k \in FirstOf(b, cand, n)
    <2>1. m \in cand /\ Cardinality(Ahead(m)) < n BY <1>5
    <2>2. Ahead(k) \in SUBSET Ahead(m) BY <1>4, <1>6, <2>1
    <2>3. Cardinality(Ahead(k)) <= Cardinality(Ahead(m)) BY <1>2, <2>1, <2>2, FS_Subset
    <2>4. Cardinality(Ahead(k)) \in Nat /\ Cardinality(Ahead(m)) \in Nat
      BY <1>2, <2>1, FS_CardinalityType
    <2> QED BY <1>5, <2>1, <2>3, <2>4
  <1>7. ASSUME cand # {} PROVE FirstOf(b, cand, n) # {}
    <2> DEFINE C == {Ahead(i) : i \in cand}
    <2>1. C \subseteq SUBSET cand /\ C # {} BY <1>2, <1>7
    <2> HIDE DEF C
    <2>2. PICK T \in C : \A U \in C : U \subseteq T => U = T
      BY <1>1, <2>1, Smallest
    <2>3. PICK i \in cand : T = Ahead(i) BY DEF C
    <2>4. T = {}
      <3> SUFFICES ASSUME NEW j \in Ahead(i) PROVE FALSE BY <2>3
      <3>1. j \in cand /\ Precedes(b, j, i) BY DEF Ahead
      <3>2. Ahead(j) \in C /\ Ahead(j) \subseteq T BY <1>4, <2>3, <3>1 DEF C
      <3>3. j \in Ahead(j) BY <2>2, <2>3, <3>2
      <3> QED BY <1>4, <3>1, <3>3
    <2>5. Cardinality(Ahead(i)) = 0 BY <2>3, <2>4, FS_EmptySet
    <2>6. i \in FirstOf(b, cand, n) BY <1>5, <2>5
    <2> QED BY <2>6
  <1> QED BY <1>6, <1>7

(* What a transaction takes for a maker is one, when it runs alone. *)
LEMMA MakersAreCurrent ==
  ASSUME NEW t, NEW b, QueueOK(t, b), Matching(t), NEW k \in Ids, IsMaker(t.view, k, Taker(t))
  PROVE  t.view[k] = b[k] /\ k \notin Made(t) /\ k # t.id
  <1>1. k # t.id BY DEF IsMaker, IsLiveLimit, Opposite, Taker
  <1>2. k \notin Made(t) BY DEF QueueOK, IsMaker, IsLiveLimit, Live
  <1> QED BY <1>1, <1>2 DEF QueueOK, CurrentOK, Matching

(* A batch is what is first among the makers, or matching ends. *)
LEMMA SelectKeepsQueue ==
  ASSUME QInv, Alone, NEW s \in Sessions, MatchSelect(s)
  PROVE  QueueOK(tx'[s], orders)
  <1> DEFINE t     == tx[s]
             cand  == {i \in Ids : IsMaker(t.view, i, Taker(t)) /\ ~ OrderLocked(s, i)}
             batch == IF Exhausted(t) THEN {} ELSE SelectMakers(s)
             pc    == IF batch = {} THEN "finish" ELSE "fill"
             r     == [t EXCEPT !.pc = pc, !.batch = batch, !.rows = @ \cup batch]
  <1>1. /\ TxOK(t) /\ t \in Tx /\ ProgressOK(t, orders, nextId) /\ t.pc = "match"
        /\ QueueOK(t, orders) /\ Matching(t) /\ BookOK(t.view)
    BY DEF QInv, LInv, IInv, MatchSelect, Matching, TxOK
  <1>2. tx'[s] = r BY <1>1 DEF MatchSelect, Become, QInv, LInv, IInv
  <1>3. cand = {i \in Ids : IsMaker(t.view, i, Taker(t))} BY DEF Alone, OrderLocked
  <1>4. SelectMakers(s) = FirstOf(t.view, cand, BatchLimit) BY DEF SelectMakers
  <1> HIDE DEF cand
  <1>5. /\ \A m \in SelectMakers(s), k \in cand :
             Precedes(t.view, k, m) => k \in SelectMakers(s)
        /\ cand # {} => SelectMakers(s) # {}
        /\ SelectMakers(s) \subseteq cand
    <2>1. \A i \in cand : IsLiveLimit(t.view, i, Opposite(Taker(t).side))
      BY <1>3 DEF IsMaker
    <2>2. cand \in SUBSET Ids BY <1>3
    <2>3. SelectMakers(s) \subseteq cand BY <1>4 DEF FirstOf
    <2> QED BY <1>1, <1>4, <2>1, <2>2, <2>3, ExchangeAssumption, FirstOfIsAhead
  <1>6. \A i \in cand : t.view[i] = orders[i] BY <1>1, <1>3, MakersAreCurrent
  <1>7. batch = {} => \/ Exhausted(t)
                      \/ \A k \in Ids : ~ IsMaker(t.view, k, Taker(t))
    BY <1>3, <1>5
  <1>8. \A m \in batch, k \in cand : Precedes(orders, k, m) => k \in batch
    BY <1>5, <1>6 DEF Precedes
  <1>9. pc \in {"finish", "fill"} /\ (pc = "finish" => batch = {}) OBVIOUS
  <1> HIDE DEF batch, pc
  <1>10. /\ r.pc = pc /\ r.batch = batch /\ r.view = t.view /\ r.id = t.id /\ r.fills = t.fills
    BY <1>1 DEF Tx
  <1> HIDE DEF r
  <1>11. Matching(r) /\ Taker(r) = Taker(t) /\ Made(r) = Made(t)
    BY <1>9, <1>10 DEF Matching, Taker, Made
  <1>12. EndedOK(r)
    <2> SUFFICES ASSUME batch = {}, ~ IsMarketBuy(Taker(t)), Taker(t).status \in Live
                 PROVE  \A k \in Ids : ~ IsMaker(t.view, k, Taker(t))
      BY <1>9, <1>10, <1>11 DEF EndedOK
    <2>1. Taker(t).filled < Taker(t).amount
      BY <1>1 DEF ProgressOK, MatchingOK, ArrivingOK
    <2>2. OrderOK(Taker(t)) /\ Taker(t).amount \in Nat /\ Taker(t).filled \in Nat
      BY <1>1 DEF TxOK, TakerOK, BookOK, Taker, OrderOK, Order
    <2>3. ~ Exhausted(t) BY <2>1, <2>2, ExchangeAssumption DEF Exhausted
    <2> QED BY <1>7, <2>3
  <1>13. BehindOK(r, orders)
    BY <1>1, <1>3, <1>8, <1>10, <1>11 DEF BehindOK, QueueOK
  <1>14. CurrentOK(r, orders)
    BY <1>1, <1>9, <1>10, <1>11 DEF CurrentOK, QueueOK
  <1>15. \A k \in Made(r) : r.view[k].status = "filled"
    BY <1>1, <1>10, <1>11 DEF QueueOK
  <1> QED BY <1>2, <1>12, <1>13, <1>14, <1>15 DEF QueueOK

(* The next trade is with the first of the batch, which it fills. *)
LEMMA FillKeepsQueue ==
  ASSUME QInv, NEW s \in Sessions, MatchFill(s)
  PROVE  QueueOK(tx'[s], orders)
  <1> DEFINE t == tx[s]
  <1>1. /\ TxOK(t) /\ t \in Tx /\ ProgressOK(t, orders, nextId) /\ t.pc = "fill"
        /\ QueueOK(t, orders) /\ Matching(t) /\ BookOK(t.view)
    BY DEF QInv, LInv, IInv, MatchFill, Matching, TxOK
  <1>2. PICK m \in t.batch : Trades(t, m) /\ Become(s, Fill(t, m))
    BY DEF MatchFill
  <1> DEFINE r      == Fill(t, m)
             amount == TradeAmount(t, t.view[m])
  <1>3. Traded(t, m, r, amount) BY <1>1, <1>2, FillWrites
  <1>4. tx'[s] = r BY <1>2 DEF Become, QInv, LInv, IInv
  <1>5. m \in Made(r) /\ \A k \in Made(r) : k = m \/ k \in Made(t)
    <2>1. \E x \in r.fills : x.maker = m
      <3> DEFINE trade == [maker |-> m, taker |-> t.id, price |-> t.view[m].price,
                           amount |-> amount, quote |-> Cost(t.view[m].price, amount),
                           feeMaker |-> FeeMaker(t.view[m].price, amount),
                           feeTaker |-> FeeTaker(t.view[m].price, amount)]
      <3>1. r.fills = t.fills \cup {trade} BY <1>1 DEF Fill, Tx
      <3>2. trade \in r.fills /\ trade.maker = m BY <3>1
      <3> QED BY <3>2
    <2>2. \A x \in r.fills : x \in t.fills \/ x.maker = m BY <1>3 DEF Traded
    <2> QED BY <2>1, <2>2 DEF Made
  <1>6. \A k \in Made(t) : k \in Made(r)
    <2>1. t.fills \subseteq r.fills BY <1>1 DEF Fill, Tx
    <2> QED BY <2>1 DEF Made
  <1> HIDE DEF r, amount
  <1>7. /\ Taker(r).side = Taker(t).side /\ Taker(r).type = Taker(t).type
        /\ Taker(r).price = Taker(t).price
    <2>1. Taker(t) \in Order BY <1>3 DEF Traded, OrderOK
    <2> QED BY <1>3, <2>1 DEF Traded, Order
  <1>8. r.view[m].status = "filled" /\ m \in Ids \ {t.id} /\ r.id = t.id /\ r.pc = "fill"
    <2>1. OrderOK(t.view[m]) /\ t.view[m].filled + amount <= t.view[m].amount
          /\ r.view[m] = MakerAfter(t.view[m], amount)
      BY <1>3 DEF Traded
    <2>2. MakerStatus(t.view[m], t.view[m].filled + amount) = "filled"
      BY <2>1 DEF MakerStatus
    <2> QED BY <1>3, <2>1, <2>2 DEF Traded, MakerAfter, OrderOK, Order
  <1>9. \A k \in Ids \ {m, t.id} : r.view[k] = t.view[k] BY <1>3 DEF Traded
  <1>10. ASSUME NEW k \in Ids, IsMaker(r.view, k, Taker(r))
         PROVE  k # m /\ k # t.id /\ IsMaker(t.view, k, Taker(t)) /\ t.view[k] = orders[k]
    <2>1. k # m BY <1>8, <1>10 DEF IsMaker, IsLiveLimit, Live
    <2>2. k # t.id BY <1>8, <1>10 DEF IsMaker, IsLiveLimit, Opposite, Taker
    <2>3. IsMaker(t.view, k, Taker(t))
      BY <1>7, <1>9, <1>10, <2>1, <2>2 DEF IsMaker, IsLiveLimit
    <2> QED BY <1>1, <2>1, <2>2, <2>3, MakersAreCurrent
  <1>11. BehindOK(r, orders)
    <2> SUFFICES ASSUME NEW k \in Ids, IsMaker(r.view, k, Taker(r))
                 PROVE  /\ \A i \in Made(r) : ~ Precedes(orders, k, i)
                        /\ \A i \in r.batch : Precedes(orders, k, i) => k \in r.batch
      BY DEF BehindOK
    <2>1. /\ k # m /\ k \in Ids /\ IsMaker(t.view, k, Taker(t)) /\ t.view[k] = orders[k]
          /\ IsMaker(t.view, m, Taker(t)) /\ m \in Ids
      BY <1>3, <1>10 DEF Traded
    <2>2. /\ \A i \in Made(t) : ~ Precedes(orders, k, i)
          /\ \A i \in t.batch : Precedes(orders, k, i) => k \in t.batch
      BY <1>1, <2>1 DEF QueueOK, BehindOK
    <2>3. ~ Precedes(orders, k, m)
      <3> SUFFICES ASSUME Precedes(orders, k, m) PROVE FALSE OBVIOUS
      <3>1. k \in t.batch BY <2>2
      <3>2. Precedes(t.view, m, k) BY <1>2, <2>1, <3>1 DEF Trades
      <3>3. t.view[m] = orders[m] BY <1>1, <2>1, MakersAreCurrent
      <3>4. Precedes(t.view, k, m) BY <2>1, <3>3 DEF Precedes
      <3> DEFINE cand == {k, m}
                 side == Opposite(Taker(t).side)
      <3>5. cand \in SUBSET Ids /\ \A i \in cand : IsLiveLimit(t.view, i, side)
        BY <2>1 DEF IsMaker
      <3>6. \A i, j \in cand : Precedes(t.view, i, j) => ~ Precedes(t.view, j, i)
        <4> HIDE DEF cand, side
        <4> QED BY <1>1, <3>5, PrecedesIsStrict
      <3> QED BY <3>2, <3>4, <3>6
    <2>4. r.batch = t.batch \ {m} BY <1>3 DEF Traded
    <2> QED BY <1>5, <2>1, <2>2, <2>3, <2>4
  <1>12. CurrentOK(r, orders)
    BY <1>1, <1>5, <1>6, <1>8, <1>9 DEF CurrentOK, QueueOK, Matching
  <1>13. \A k \in Made(r) : r.view[k].status = "filled"
    <2> TAKE k \in Made(r)
    <2>1. CASE k = m BY <1>8, <2>1
    <2>2. CASE k # m
      <3>1. k \in Made(t) /\ t.view[k].status = "filled" BY <1>1, <1>5, <2>2 DEF QueueOK
      <3>2. k \in Ids \ {t.id}
        <4>1. PICK x \in t.fills : x.maker = k BY <3>1 DEF Made
        <4>2. TradeOK(t, x, orders) /\ t.rows \subseteq Ids /\ orders[t.id] = Null
          BY <1>1 DEF ProgressOK, MatchingOK, Placing, Tx
        <4> QED BY <4>1, <4>2 DEF TradeOK, IsLiveLimit
      <3> QED BY <1>9, <2>2, <3>1, <3>2
    <2> QED BY <2>1, <2>2
  <1>14. EndedOK(r) BY <1>8 DEF EndedOK
  <1> QED BY <1>4, <1>11, <1>12, <1>13, <1>14 DEF QueueOK

(* An idle session has nothing to keep in order. *)
LEMMA IdleQueue == ASSUME NEW b PROVE QueueOK(IdleTx, b)
  BY DEF QueueOK, CurrentOK, IdleTx, Made, Matching

(* A request begins with what is committed. *)
LEMMA ArrivalKeepsQueue ==
  ASSUME QInv, NEW s \in Sessions, Arrive(s)
  PROVE  QueueOK(tx'[s], orders')
  <1>1. ASSUME NEW pc \in {"place", "cancel", "amend"}, NEW user, NEW req, NEW id,
               Begin(s, pc, user, req, id)
        PROVE  QueueOK(tx'[s], orders')
    <2> DEFINE r == [IdleTx EXCEPT !.pc = pc, !.user = user, !.req = req, !.id = id,
                                   !.view = orders, !.funds = wallets]
    <2>1. tx'[s] = r /\ orders' = orders BY <1>1 DEF Begin, Become, QInv, LInv, IInv
    <2>2. r.pc = pc /\ r.view = orders /\ r.fills = {} BY DEF IdleTx
    <2> HIDE DEF r
    <2> QED BY <2>1, <2>2 DEF QueueOK, CurrentOK, Made, Matching
  <1> QED BY <1>1 DEF Arrive, PlaceBegin, CancelBegin, AmendBegin

(* The order is inserted, nothing is matched yet. *)
LEMMA InsertKeepsQueue ==
  ASSUME QInv, NEW s \in Sessions, PlaceLock(s)
  PROVE  QueueOK(tx'[s], orders)
  <1> DEFINE t == tx[s]
             r == LockAndInsert(t)
  <1>1. /\ TxOK(t) /\ t \in Tx /\ ProgressOK(t, orders, nextId) /\ t.pc = "place"
        /\ QueueOK(t, orders) /\ t.fills = {} /\ t.batch = {} /\ t.id \in Ids
    BY DEF QInv, LInv, IInv, PlaceLock, ProgressOK, TxOK, Matching
  <1>2. tx'[s] = r BY DEF PlaceLock, Become, QInv, LInv, IInv
  <1>3. /\ r.pc = "match" /\ r.id = t.id /\ r.fills = {} /\ r.batch = {}
        /\ r.view = [t.view EXCEPT ![t.id] = NewOrder(t.user, t.req)]
    BY <1>1 DEF LockAndInsert, Tx
  <1> HIDE DEF r
  <1>4. \A k \in Ids \ {t.id} : r.view[k] = orders[k]
    <2>1. \A k \in Ids : t.view[k] = orders[k]
      BY <1>1 DEF QueueOK, CurrentOK, Matching, Made
    <2> QED BY <1>1, <1>3, <2>1 DEF Tx
  <1>5. Made(r) = {} BY <1>3 DEF Made
  <1> QED BY <1>2, <1>3, <1>4, <1>5 DEF QueueOK, CurrentOK, BehindOK, EndedOK, Matching

(* A batch has been looked through. *)
LEMMA NextKeepsQueue ==
  ASSUME QInv, NEW s \in Sessions, MatchNext(s)
  PROVE  QueueOK(tx'[s], orders)
  <1> DEFINE t == tx[s]
             r == [t EXCEPT !.pc = "match", !.batch = {}]
  <1>1. t \in Tx /\ QueueOK(t, orders) /\ Matching(t)
    BY DEF QInv, LInv, IInv, MatchNext, Matching
  <1>2. tx'[s] = r BY <1>1 DEF MatchNext, Become, QInv, LInv, IInv
  <1>3. /\ r.pc = "match" /\ r.id = t.id /\ r.fills = t.fills /\ r.batch = {}
        /\ r.view = t.view
    BY <1>1 DEF Tx
  <1> HIDE DEF r
  <1>4. Made(r) = Made(t) /\ Taker(r) = Taker(t) /\ Matching(r)
    BY <1>3 DEF Made, Taker, Matching
  <1> QED BY <1>1, <1>2, <1>3, <1>4 DEF QueueOK, CurrentOK, BehindOK, EndedOK, Matching

(* A row is locked, or the session gives up. *)
LEMMA RowLockKeepsQueue ==
  ASSUME QInv, NEW s \in Sessions, CancelLock(s) \/ AmendLock(s)
  PROVE  QueueOK(tx'[s], orders')
  <1> DEFINE t == tx[s]
  <1>1. t \in Tx /\ QueueOK(t, orders) /\ t.pc \in {"cancel", "amend"}
    BY DEF QInv, LInv, IInv, CancelLock, AmendLock, LockOrder
  <1>2. CASE Abandon(s)
    <2>1. tx'[s] = IdleTx BY <1>2 DEF Abandon, Become, QInv, LInv, IInv
    <2> QED BY <2>1, IdleQueue
  <1>3. CASE ~ Abandon(s)
    <2>1. PICK pc \in {"canceling", "amending"} :
            Become(s, [t EXCEPT !.pc = pc, !.rows = {t.id}]) /\ orders' = orders
      BY <1>3 DEF CancelLock, AmendLock, LockOrder
    <2> DEFINE r == [t EXCEPT !.pc = pc, !.rows = {t.id}]
    <2>2. tx'[s] = r BY <2>1 DEF Become, QInv, LInv, IInv
    <2>3. r.pc = pc /\ r.view = t.view /\ r.fills = t.fills BY <1>1 DEF Tx
    <2> HIDE DEF r
    <2> QED BY <1>1, <2>1, <2>2, <2>3 DEF QueueOK, CurrentOK, Matching, Made
  <1> QED BY <1>2, <1>3

(* Every step of the one request in flight keeps QInv. *)
LEMMA NextKeepsQInv == ASSUME Alone PROVE QInv /\ [Next]_vars => QInv'
  <1> SUFFICES ASSUME QInv, [Next]_vars PROVE QInv' OBVIOUS
  <1>1. LInv' BY NextSteps DEF QInv
  <1>2. CASE UNCHANGED vars
    <2>1. tx' = tx /\ orders' = orders BY <1>2 DEF vars
    <2> QED BY <1>1, <2>1 DEF QInv
  <1>3. ASSUME NEW s \in Sessions, Arrive(s) \/ Step(s) \/ Rollback(s)
        PROVE  QueueOK(tx'[s], orders')
    <2>1. ASSUME Become(s, IdleTx) PROVE QueueOK(tx'[s], orders')
      <3>1. tx'[s] = IdleTx BY <2>1 DEF Become, QInv, LInv, IInv
      <3> QED BY <3>1, IdleQueue
    <2>2. CASE Arrive(s) BY <2>2, ArrivalKeepsQueue
    <2>3. CASE Rollback(s) \/ Fail(s) \/ PlaceRefuse(s)
      BY <2>1, <2>3 DEF Rollback, Fail, PlaceRefuse, Abandon
    <2>4. CASE PlaceLock(s)
      <3>1. orders' = orders BY <2>4 DEF PlaceLock
      <3> QED BY <2>4, <3>1, InsertKeepsQueue
    <2>5. CASE MatchSelect(s)
      <3>1. orders' = orders BY <2>5 DEF MatchSelect
      <3> QED BY <2>5, <3>1, SelectKeepsQueue
    <2>6. CASE MatchFill(s)
      <3>1. orders' = orders BY <2>6 DEF MatchFill
      <3> QED BY <2>6, <3>1, FillKeepsQueue
    <2>7. CASE MatchNext(s)
      <3>1. orders' = orders BY <2>7 DEF MatchNext
      <3> QED BY <2>7, <3>1, NextKeepsQueue
    <2>8. CASE CancelLock(s) \/ AmendLock(s) BY <2>8, RowLockKeepsQueue
    <2>9. CASE PlaceFinish(s) \/ CancelFinish(s) \/ AmendFinish(s)
      BY <2>1, <2>9 DEF PlaceFinish, CancelFinish, AmendFinish, Commit, Abandon
    <2> QED BY <1>3, <2>2, <2>3, <2>4, <2>5, <2>6, <2>7, <2>8, <2>9 DEF Step
  <1>4. ASSUME NEW s \in Sessions, Arrive(s) \/ Step(s) \/ Rollback(s), NEW u \in Sessions
        PROVE  QueueOK(tx'[u], orders')
    <2>1. u = s BY DEF Alone
    <2> QED BY <1>3, <1>4, <2>1
  <1> QED BY <1>1, <1>2, <1>4 DEF Next, QInv

(* Among the committed trades of a step, those of a maker that was before another and
   that the taker accepted. *)
TradesInOrder ==
  \A x \in trades' \ trades, k \in Ids :
    /\ IsMaker(orders, k, orders'[x.taker])
    /\ Precedes(orders, k, x.maker)
    => \E y \in trades' \ trades : y.maker = k

(* Orders that cross after a step did before it, or have been amended. *)
CrossesByAmend ==
  \A i, j \in Ids : Crosses(orders', i, j) =>
    \/ Crosses(orders, i, j)
    \/ \E k \in {i, j} : orders[k] # Null /\ orders[k].price # orders'[k].price

(* What a placing transaction installs, when it has run alone. *)
LEMMA PlacedAlone ==
  ASSUME QInv, NEW s \in Sessions, PlaceFinish(s)
  PROVE  LET t == tx[s]
             o == orders'[t.id]
         IN  /\ Matching(t) /\ QueueOK(t, orders) /\ t.pc = "finish" /\ t.id \in Ids
             /\ orders[t.id] = Null /\ trades' = trades \cup t.fills
             /\ \A x \in t.fills : x.taker = t.id /\ x \notin trades
             /\ o # Null /\ o.side = Taker(t).side /\ o.type = Taker(t).type
             /\ o.price = Taker(t).price
             /\ o.status \in Live => o.status = Taker(t).status
             /\ \A k \in Ids \ {t.id} : orders'[k] = t.view[k] \/ orders'[k] = orders[k]
             /\ \A k \in Made(t) : orders'[k] = t.view[k]
  <1> DEFINE t == tx[s]
             r == ApplyTIF(t)
             o == orders'[t.id]
  <1>1. /\ TxOK(t) /\ ProgressOK(t, orders, nextId) /\ t.pc = "finish" /\ Matching(t)
        /\ QueueOK(t, orders)
    BY DEF QInv, LInv, IInv, PlaceFinish, Matching
  <1>2. /\ MatchingOK(t, orders) /\ ArrivingOK(t) /\ orders[t.id] = Null
        /\ t.id \in Ids /\ t.id \in t.rows /\ t.rows \subseteq Ids
        /\ Taker(t) \in Order
    BY <1>1 DEF ProgressOK, Placing, MatchingOK, TxOK, TakerOK, BookOK, Taker, Tx, OrderOK
  <1>3. /\ r.rows = t.rows /\ r.fills = t.fills
        /\ \A i \in Ids \ {t.id} : r.view[i] = t.view[i]
        /\ \E status \in {Taker(t).status, "canceled", "rejected"} :
             r.view[t.id] = [Taker(t) EXCEPT !.status = status]
    BY <1>1, <1>2, EndsWrites
  <1>4. /\ orders' = [i \in Ids |-> IF i \in r.rows THEN r.view[i] ELSE orders[i]]
        /\ trades' = trades \cup r.fills
    BY DEF PlaceFinish, Commit
  <1> HIDE DEF r
  <1>5. PICK status \in {Taker(t).status, "canceled", "rejected"} :
          o = [Taker(t) EXCEPT !.status = status]
    BY <1>2, <1>3, <1>4
  <1>6. status \in Statuses BY <1>2 DEF Order, Statuses
  <1>7. o \in Order BY <1>2, <1>5, <1>6 DEF Order
  <1>8. /\ o # Null /\ o.side = Taker(t).side /\ o.type = Taker(t).type
        /\ o.price = Taker(t).price /\ o.status = status
    BY <1>2, <1>5, <1>7, ExchangeAssumption DEF Order
  <1>9. o.status \in Live => o.status = Taker(t).status BY <1>8 DEF Live
  <1>10. \A x \in t.fills : x.taker = t.id /\ x \notin trades
    <2>1. \A x \in t.fills : x.taker = t.id BY <1>2 DEF MatchingOK, TradeOK
    <2>2. \A x \in trades : orders[x.taker] # Null BY DEF QInv, LInv, TakersOK
    <2> QED BY <1>2, <2>1, <2>2
  <1>11. \A k \in Ids \ {t.id} : orders'[k] = t.view[k] \/ orders'[k] = orders[k]
    BY <1>3, <1>4
  <1> HIDE DEF o
  <1>12. trades' = trades \cup t.fills BY <1>3, <1>4
  <1>13. ASSUME NEW k \in Made(t) PROVE orders'[k] = t.view[k]
    <2>1. PICK x \in t.fills : x.maker = k BY DEF Made
    <2>2. TradeOK(t, x, orders) BY <1>2 DEF MatchingOK
    <2>3. k \in t.rows /\ k # t.id BY <1>2, <2>1, <2>2 DEF TradeOK, IsLiveLimit
    <2> QED BY <1>2, <1>3, <1>4, <2>3
  <1> QED BY <1>1, <1>2, <1>8, <1>9, <1>10, <1>11, <1>12, <1>13 DEF o

(* A taker trades with all that it accepts before it trades with what comes next, and
   comes to rest only when it accepts none of what is left. *)
LEMMA PlaceInOrder ==
  ASSUME QInv, NEW s \in Sessions, PlaceFinish(s)
  PROVE  TradesInOrder /\ CrossesByAmend
  <1> DEFINE t == tx[s]
             o == orders'[t.id]
  <1>1. /\ Matching(t) /\ QueueOK(t, orders) /\ t.pc = "finish" /\ t.id \in Ids
        /\ orders[t.id] = Null /\ trades' = trades \cup t.fills
        /\ \A x \in t.fills : x.taker = t.id /\ x \notin trades
        /\ o # Null /\ o.side = Taker(t).side /\ o.type = Taker(t).type
        /\ o.price = Taker(t).price
        /\ o.status \in Live => o.status = Taker(t).status
        /\ \A k \in Ids \ {t.id} : orders'[k] = t.view[k] \/ orders'[k] = orders[k]
        /\ \A k \in Made(t) : orders'[k] = t.view[k]
    BY PlacedAlone
  <1> HIDE DEF o
  <1>2. \A k \in Ids \ {t.id} : t.view[k] = orders[k] \/ k \in Made(t)
    BY <1>1 DEF QueueOK, CurrentOK
  <1>3. TradesInOrder
    <2> SUFFICES ASSUME NEW x \in trades' \ trades, NEW k \in Ids,
                        IsMaker(orders, k, orders'[x.taker]), Precedes(orders, k, x.maker)
                 PROVE  \E y \in trades' \ trades : y.maker = k
      BY DEF TradesInOrder
    <2>1. x \in t.fills /\ x.taker = t.id /\ x.maker \in Made(t) BY <1>1 DEF Made
    <2>2. IsMaker(orders, k, Taker(t)) BY <1>1, <2>1 DEF IsMaker, o
    <2>3. k # t.id BY <1>1, <2>2 DEF IsMaker, IsLiveLimit
    <2>4. k \in Made(t)
      <3> SUFFICES ASSUME k \notin Made(t) PROVE FALSE OBVIOUS
      <3>1. t.view[k] = orders[k] BY <1>2, <2>3
      <3>2. IsMaker(t.view, k, Taker(t)) BY <2>2, <3>1 DEF IsMaker, IsLiveLimit
      <3> QED BY <1>1, <2>1, <3>2 DEF QueueOK, BehindOK
    <2>5. PICK y \in t.fills : y.maker = k BY <2>4 DEF Made
    <2> QED BY <1>1, <2>5
  <1>4. CrossesByAmend
    <2>1. ASSUME NEW k \in Ids \ {t.id}, NEW side, IsLiveLimit(orders', k, side)
          PROVE  orders'[k] = orders[k] /\ t.view[k] = orders[k]
      <3>1. orders'[k].status \in Live BY <2>1 DEF IsLiveLimit
      <3>2. k \in Made(t) => t.view[k].status = "filled" /\ orders'[k] = t.view[k]
        BY <1>1 DEF QueueOK
      <3>3. k \notin Made(t) BY <3>1, <3>2 DEF Live
      <3> QED BY <1>1, <1>2, <3>3
    <2>2. ASSUME o.type = "limit", o.status \in Live
          PROVE  \A k \in Ids : ~ IsMaker(t.view, k, Taker(t))
      BY <1>1, <2>2 DEF QueueOK, EndedOK, IsMarketBuy
    <2> SUFFICES ASSUME NEW i \in Ids, NEW j \in Ids, Crosses(orders', i, j)
                 PROVE  Crosses(orders, i, j)
      BY DEF CrossesByAmend
    <2>3. /\ IsLiveLimit(orders', i, "sell") /\ IsLiveLimit(orders', j, "buy")
          /\ orders'[i].price <= orders'[j].price
      BY DEF Crosses
    <2>4. i # j BY <2>3 DEF IsLiveLimit
    <2>5. CASE i = t.id
      <3>1. t.view[j] = orders'[j] BY <2>1, <2>3, <2>4, <2>5
      <3>2. o.type = "limit" /\ o.status \in Live /\ o.side = "sell"
        BY <2>3, <2>5 DEF IsLiveLimit, o
      <3>3. orders'[j].price >= o.price
        <4>1. /\ orders'[j].price \in Int /\ o.price \in Int
          <5>1. IInv' BY PlaceStepOK DEF QInv, LInv
          <5>2. OrderOK(orders'[i]) /\ OrderOK(orders'[j])
            BY <2>3, <5>1 DEF IInv, BookOK, IsLiveLimit
          <5> QED BY <2>3, <2>5, <5>2 DEF OrderOK, IsLiveLimit, Prices, o
        <4> QED BY <2>3, <2>5, <4>1 DEF o
      <3>4. IsMaker(t.view, j, Taker(t))
        BY <1>1, <2>3, <3>1, <3>2, <3>3 DEF IsMaker, IsLiveLimit, Opposite, Accepts
      <3> QED BY <2>2, <3>2, <3>4
    <2>6. CASE j = t.id
      <3>1. t.view[i] = orders'[i] BY <2>1, <2>3, <2>4, <2>6
      <3>2. o.type = "limit" /\ o.status \in Live /\ o.side = "buy"
        BY <2>3, <2>6 DEF IsLiveLimit, o
      <3>3. IsMaker(t.view, i, Taker(t))
        BY <1>1, <2>3, <2>6, <3>1, <3>2 DEF IsMaker, IsLiveLimit, Opposite, Accepts, o
      <3> QED BY <2>2, <3>2, <3>3
    <2>7. CASE i # t.id /\ j # t.id
      <3>1. orders'[i] = orders[i] /\ orders'[j] = orders[j] BY <2>1, <2>3, <2>7
      <3> QED BY <2>3, <3>1 DEF Crosses, IsLiveLimit
    <2> QED BY <2>5, <2>6, <2>7
  <1> QED BY <1>3, <1>4

(* A cancel or an amend makes no trade, and what it makes cross it has amended. *)
LEMMA ChangeInOrder ==
  ASSUME LInv, NEW s \in Sessions, CancelFinish(s) \/ AmendFinish(s)
  PROVE  TradesInOrder /\ CrossesByAmend
  <1> DEFINE t == tx[s]
  <1>1. orders \in [Ids -> Order \cup {Null}] BY DEF LInv, IInv, BookOK
  <1>2. ASSUME UNCHANGED <<orders, trades>> PROVE TradesInOrder /\ CrossesByAmend
    BY <1>2 DEF TradesInOrder, CrossesByAmend, Crosses, IsLiveLimit
  <1>3. t.pc \in {"canceling", "amending"} => t.id \in Ids BY DEF LInv, IInv, TxOK
  <1>4. CASE CancelFinish(s)
    <2> DEFINE r == [CancelRefund(t) EXCEPT !.view[t.id].status = "canceled"]
    <2>1. CASE ~ OwnerMay(t) BY <1>2, <1>4, <2>1 DEF CancelFinish, Abandon
    <2>2. CASE OwnerMay(t)
      <3>1. t.pc = "canceling" /\ Commit(s, r) BY <1>4, <2>2 DEF CancelFinish
      <3>2. Lifecycle!Cancel(t.id) /\ trades' = trades
        BY <2>2, <3>1, CancelCommits
      <3> HIDE DEF r
      <3>3. TradesInOrder BY <3>2 DEF TradesInOrder
      <3>4. orders[t.id] # Null /\ orders' = [orders EXCEPT ![t.id].status = "canceled"]
        BY <3>2 DEF Lifecycle!Cancel, Lifecycle!IsLive
      <3>5. orders'[t.id].status = "canceled" /\ \A k \in Ids \ {t.id} : orders'[k] = orders[k]
        BY <1>1, <1>3, <3>1, <3>4 DEF Order
      <3>6. CrossesByAmend
        <4> SUFFICES ASSUME NEW i \in Ids, NEW j \in Ids, Crosses(orders', i, j)
                     PROVE  Crosses(orders, i, j)
          BY DEF CrossesByAmend
        <4>1. i # t.id /\ j # t.id BY <3>5 DEF Crosses, IsLiveLimit, Live
        <4> QED BY <3>5, <4>1 DEF Crosses, IsLiveLimit
      <3> QED BY <3>3, <3>6
    <2> QED BY <2>1, <2>2
  <1>5. CASE AmendFinish(s)
    <2>1. CASE ~ (CanAmend(t) /\ AmendCovered(t)) BY <1>2, <1>5, <2>1 DEF AmendFinish, Abandon
    <2>2. CASE CanAmend(t) /\ AmendCovered(t)
      <3>1. t.pc = "amending" /\ Commit(s, Amended(t)) BY <1>5, <2>2 DEF AmendFinish
      <3>2. Lifecycle!Amend(t.id) /\ trades' = trades BY <2>2, <3>1, AmendCommits
      <3>3. TradesInOrder BY <3>2 DEF TradesInOrder
      <3> DEFINE p == orders'[t.id].price
                 a == orders'[t.id].amount
      <3>4. /\ orders[t.id] # Null /\ orders[t.id] \in Order
            /\ orders' = [orders EXCEPT ![t.id].price = p, ![t.id].amount = a]
        BY <1>1, <1>3, <3>1, <3>2 DEF Lifecycle!Amend, Lifecycle!IsLive
      <3> HIDE DEF p, a
      <3>5. orders'[t.id] = [orders[t.id] EXCEPT !.price = p, !.amount = a]
        BY <1>1, <1>3, <3>1, <3>4
      <3>6. /\ orders'[t.id].side = orders[t.id].side /\ orders'[t.id].type = orders[t.id].type
            /\ orders'[t.id].status = orders[t.id].status
        <4>1. orders[t.id] \in Order BY <3>4
        <4> QED BY <3>5, <4>1 DEF Order
      <3>7. \A k \in Ids \ {t.id} : orders'[k] = orders[k] BY <1>1, <3>4
      <3>8. t.id \in Ids /\ orders[t.id] # Null BY <1>3, <3>1, <3>4
      <3>9. \A k \in Ids, side \in Sides :
              IsLiveLimit(orders', k, side) => IsLiveLimit(orders, k, side)
        BY <3>6, <3>7, <3>8 DEF IsLiveLimit
      <3>10. ASSUME NEW i \in Ids, NEW j \in Ids, Crosses(orders', i, j)
             PROVE  \/ Crosses(orders, i, j)
                    \/ \E k \in {i, j} : orders[k] # Null /\ orders[k].price # orders'[k].price
        <4>1. CASE t.id \in {i, j} /\ orders[t.id].price # orders'[t.id].price
          BY <3>8, <4>1
        <4>2. CASE t.id \notin {i, j} \/ orders[t.id].price = orders'[t.id].price
          <5>1. orders'[i].price = orders[i].price /\ orders'[j].price = orders[j].price
            BY <3>7, <4>2
          <5> QED BY <3>9, <3>10, <5>1 DEF Crosses, Sides
        <4> QED BY <4>1, <4>2
      <3> QED BY <3>3, <3>10 DEF CrossesByAmend
    <2> QED BY <2>1, <2>2
  <1> QED BY <1>4, <1>5

(* Every commit of the one request in flight keeps the order of price and time. *)
LEMMA StepsInOrder ==
  ASSUME QInv, [Next]_vars PROVE TradesInOrder /\ CrossesByAmend
  <1>1. ASSUME UNCHANGED <<orders, trades>> PROVE TradesInOrder /\ CrossesByAmend
    BY <1>1 DEF TradesInOrder, CrossesByAmend, Crosses, IsLiveLimit
  <1>2. CASE UNCHANGED vars BY <1>1, <1>2 DEF vars
  <1>3. ASSUME NEW s \in Sessions, Arrive(s) \/ Step(s) \/ Rollback(s)
        PROVE  TradesInOrder /\ CrossesByAmend
    <2>1. CASE PlaceFinish(s) BY <2>1, PlaceInOrder
    <2>2. CASE CancelFinish(s) \/ AmendFinish(s) BY <2>2, ChangeInOrder DEF QInv
    <2>3. CASE Arrive(s)
      BY <1>1, <2>3 DEF Arrive, PlaceBegin, CancelBegin, AmendBegin, Begin
    <2>4. CASE Rollback(s) \/ Fail(s) \/ PlaceRefuse(s)
      BY <1>1, <2>4 DEF Rollback, Fail, PlaceRefuse, Abandon
    <2>5. CASE PlaceLock(s) \/ MatchSelect(s) \/ MatchFill(s) \/ MatchNext(s)
      BY <1>1, <2>5 DEF PlaceLock, MatchSelect, MatchFill, MatchNext
    <2>6. CASE CancelLock(s) \/ AmendLock(s)
      BY <1>1, <2>6 DEF CancelLock, AmendLock, LockOrder, Abandon
    <2> QED BY <1>3, <2>1, <2>2, <2>3, <2>4, <2>5, <2>6 DEF Step
  <1> QED BY <1>2, <1>3 DEF Next

(* QInv holds in every state of every execution that takes one request at a time. *)
THEOREM QueueInvariance == ASSUME Alone PROVE Spec => []QInv
  <1>1. Init => QInv
    <2> SUFFICES ASSUME Init PROVE QInv OBVIOUS
    <2>1. \A s \in Sessions : tx[s] = IdleTx BY DEF Init
    <2> QED BY <2>1, StartsWell, IdleQueue DEF QInv
  <1>2. QInv /\ [Next]_vars => QInv' BY NextKeepsQInv
  <1> QED BY <1>1, <1>2, PTL DEF Spec

(* One request at a time: a taker trades with every maker it accepts that was before
   one it has traded with. *)
THEOREM PriorityIsKept == ASSUME Alone PROVE Spec => PriceTimePriority
  <1>1. QInv /\ [Next]_vars =>
          [\A x \in trades' \ trades, k \in Ids :
             /\ IsMaker(orders, k, orders'[x.taker])
             /\ Precedes(orders, k, x.maker)
             => \E y \in trades' \ trades : y.maker = k]_vars
    BY StepsInOrder DEF TradesInOrder
  <1> QED BY <1>1, QueueInvariance, PTL DEF Spec, PriceTimePriority

(* One request at a time: resting orders come to cross only by an amend of a price. *)
THEOREM TheBookIsUncrossed == ASSUME Alone PROVE Spec => OnlyAmendsCrossTheBook
  <1>1. QInv /\ [Next]_vars =>
          [\A i, j \in Ids : Crosses(orders', i, j) =>
             \/ Crosses(orders, i, j)
             \/ \E k \in {i, j} : orders[k] # Null /\ orders[k].price # orders'[k].price]_vars
    BY StepsInOrder DEF CrossesByAmend
  <1> QED BY <1>1, QueueInvariance, PTL DEF Spec, OnlyAmendsCrossTheBook
=============================================================================
