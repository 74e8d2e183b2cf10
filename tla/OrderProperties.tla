-------------------------- MODULE OrderProperties --------------------------
(***************************************************************************)
(* What OrderService must keep true of orders, wallets and trades.         *)
(***************************************************************************)
EXTENDS TradeHistory

(* Every variable has its type: committed rows, and the transaction of every
   session. *)
TypeOK ==
  /\ orders \in [Ids -> Order \cup {Null}]
  /\ wallets \in [Wallets -> Wallet]
  /\ trades \subseteq Trade
  /\ nextId \in 1 .. MaxOrders + 1
  /\ tx \in [Sessions -> Tx]

-----------------------------------------------------------------------------
(* The inductive invariant, conjunct by conjunct *)

(* An order row that the code can have written. *)
OrderOK(o) ==
  /\ o \in Order
  /\ o.type = "limit" => o.price \in Prices
  /\ IsMarketBuy(o) => o.qmax \in Nat /\ o.amount = Null
  /\ ~IsMarketBuy(o) => o.amount \in Nat /\ o.filled <= o.amount

BookOK(b) == b \in [Ids -> Order \cup {Null}] /\ \A i \in Ids : b[i] # Null => OrderOK(b[i])

(* A request that has passed PlaceOrder's validation. *)
ReqOK(r) ==
  /\ r \in PlaceReqs
  /\ r.type = "limit" => r.price \in Prices
  /\ IF r.type = "market" /\ r.side = "buy" THEN r.qmax \in Nat ELSE r.amount \in Nat

(* A transaction is well formed, and at each of its program points it knows
   what the next step relies on. *)
TakerOK(t) ==
  /\ t.id \in Ids /\ t.view[t.id] # Null
  /\ IsMarketBuy(Taker(t)) => t.bought = Taker(t).filled
  /\ \A m \in t.batch : IsMaker(t.view, m, Taker(t))

TxOK(t) ==
  /\ t \in Tx
  /\ BookOK(t.view)
  /\ t.pc \in {"place", "cancel", "canceling", "amend", "amending"}
       => t.id \in Ids /\ t.user \in Users
  /\ t.pc = "place" => ReqOK(t.req) /\ t.batch = {} /\ t.bought = 0
  /\ t.pc \in {"match", "fill", "finish"} => TakerOK(t)
  /\ t.pc = "match" => t.batch = {}
  /\ t.pc \in {"canceling", "amending"} => t.view[t.id] # Null
  /\ t.pc \in {"amend", "amending"} => t.req \in AmendReqs

(* Committed rows and every transaction are well formed; what a transaction still
   has to write therefore keeps fills within the amount. *)
IInv ==
  /\ BookOK(orders)
  /\ wallets \in [Wallets -> Wallet]
  /\ trades \subseteq Trade
  /\ nextId \in 1 .. MaxOrders + 1
  /\ tx \in [Sessions -> Tx]
  /\ \A s \in Sessions : TxOK(tx[s])

-----------------------------------------------------------------------------
(* Wallets *)

(* The sum of f over S. *)
SumOver(S, f(_)) == SumFunctionOnSet([x \in S |-> f(x)], S)

Placed == {i \in Ids : orders[i] # Null}

(* A commit in which u sells at a negative price, and one that cancels a buy of u's at
   such a price. *)
SellsBelowZero(u) ==
  \E x \in trades' \ trades :
    x.price < 0 /\ \E i \in {x.maker, x.taker} : orders'[i].user = u /\ orders'[i].side = "sell"

CancelsBelowZero(u) ==
  \E i \in Placed : /\ orders[i].user = u /\ orders[i].side = "buy" /\ orders[i].type = "limit"
                    /\ orders[i].status \in Live /\ orders'[i].status = "canceled"
                    /\ orders[i].price < 0

(* lockFunds and AmendOrder check the balance; settle and refundRemaining do not.  No
   sequence of placing, trading, amending and canceling, in whatever order the sessions
   take their steps, takes a wallet below zero, or further below, but for two debits that
   nobody checks: a seller pays the price when it is negative, and a buy at a negative
   price, which was credited when it was placed, is debited when it is canceled.  Base
   is never overdrawn. *)
OnlyNegativePricesOverdraw ==
  [][\A u \in Users, a \in Assets :
       wallets'[<<u, a>>].balance < 0 =>
         \/ wallets'[<<u, a>>].balance >= wallets[<<u, a>>].balance
         \/ a = "quote" /\ (SellsBelowZero(u) \/ CancelsBelowZero(u))]_vars

(* Every order row accounts for the funds locked for it: what it has not filled,
   until a cancel or a TIF refund returns them.  A market buy, of which ts are all
   trades, is never refunded. *)
LockedFor(ts, i, o) ==
  CASE IsMarketBuy(o)                             -> o.qmax - QuoteSpent(ts, i)
    [] ~IsMarketBuy(o) /\ o.status \in {"canceled", "rejected"} -> 0
    [] ~IsMarketBuy(o) /\ o.status \notin {"canceled", "rejected"} ->
         IF o.side = "sell" THEN o.amount - o.filled
                            ELSE Cost(o.price, o.amount - o.filled)

LocksOf(u, a) == {i \in Placed : orders[i].user = u /\ LockedAsset(orders[i].side) = a}

BackedBy(u, a) == SumOver(LocksOf(u, a), LAMBDA i : LockedFor(trades, i, orders[i]))

(* What an amend of a buy's price leaves behind: the remainder that it had stays
   locked at the old price, while its row has the new one from now on. *)
Repricing(i) ==
  IF orders[i].type = "limit" /\ orders[i].side = "buy"
  THEN Cost(orders[i].price - orders'[i].price, orders[i].amount - orders[i].filled)
  ELSE 0

committed == <<orders, wallets, trades>>

(* Every commit changes in_orders of a wallet by exactly as much as what its user's
   order rows account for, whatever lockFunds, settle, refundRemaining and the amend
   move; but an amend of a buy's price does not re-price what was locked before, and
   that is the only way in which wallets and orders come apart. *)
LockedFundsFollowOrders ==
  [][committed' # committed => \A u \in Users, a \in Assets :
       wallets'[<<u, a>>].inOrders - wallets[<<u, a>>].inOrders
         = BackedBy(u, a)' - BackedBy(u, a) + SumOver(LocksOf(u, a), Repricing)]_vars

(* What is locked of this asset is what the order rows account for, and no more. *)
LockedIsBacked(a) ==
  \A u \in Users : <<u, a>> \in WalletRows => wallets[<<u, a>>].inOrders = BackedBy(u, a)

(* An amend leaves nothing of a sell behind: whatever is placed, matched, canceled and
   amended in whatever order, the base that is locked is exactly what the sells that no
   cancel and no TIF has ended have not filled.  (A maker that is marked filled with a
   remainder is one of them: nothing returns its funds any more.) *)
SellersFundsAreBacked == LockedIsBacked("base")

(* What an entry of the history says that the trade changed of this asset.  The fee
   listed for a buy is not charged. *)
Worth(row, a) ==
  CASE row.side = "buy"  /\ a = "base"  -> row.trade.amount
    [] row.side = "buy"  /\ a = "quote" -> 0 - row.trade.quote
    [] row.side = "sell" /\ a = "base"  -> 0 - row.trade.amount
    [] row.side = "sell" /\ a = "quote" -> row.trade.quote - row.fee

(* The trades of a user with themself, and the fee that one of them has cost. *)
SelfTrades(u) == {x \in trades : {x.maker, x.taker} \subseteq OrdersOf(u)}

FeePaid(x) == IF orders[x.taker].side = "sell" THEN x.feeTaker ELSE x.feeMaker

(* The history accounts for the wallets: a list that is shorter than its limit explains,
   entry by entry, by what available and in orders together differ from what the user
   began with, so that trading makes and loses nothing but the sellers' fees; except that
   the four entries of a trade with oneself show its fee once too often.  This is of the
   wallets that have a row. *)
HistoryExplainsBalances ==
  \A u \in Users, limit \in HistoryLimits : \A list \in GetByUserId(u, limit) :
    Cardinality(DOMAIN list) < RowLimit(limit) =>
      \A a \in Assets : <<u, a>> \in WalletRows =>
        GetUserBalance(u)[a].balance + GetUserBalance(u)[a].inOrders
          = OpeningFunds[<<u, a>>].balance
              + SumOver(DOMAIN list, LAMBDA j : Worth(list[j], a))
              + (IF a = "quote" THEN SumOver(SelfTrades(u), FeePaid) ELSE 0)

-----------------------------------------------------------------------------
(* Orders *)

(* What order i has been filled by these trades, as maker and as taker. *)
AmountOf(ts, i) == SumOver({x \in ts : i \in {x.maker, x.taker}}, LAMBDA x : x.amount)

(* An order's filled_amount is the sum of its trades, as maker and as taker: no
   fill is lost to a concurrent transaction and none is recorded twice. *)
FillsMatchTrades == \A i \in Placed : orders[i].filled = AmountOf(trades, i)

(* No order is filled beyond its amount, however the amends and the fills of
   different sessions interleave. *)
FilledWithinAmount ==
  \A i \in Placed : orders[i].amount # Null => orders[i].filled <= orders[i].amount

Crosses(book, i, j) ==
  /\ IsLiveLimit(book, i, "sell") /\ IsLiveLimit(book, j, "buy")
  /\ book[i].price <= book[j].price

(* Match takes every maker that a new order crosses, so that a sell and a buy at
   crossing prices come to rest side by side only when an amend moves the price of one
   of them: AmendOrder does not match. *)
OnlyAmendsCrossTheBook ==
  [][\A i, j \in Ids : Crosses(orders', i, j) =>
       \/ Crosses(orders, i, j)
       \/ \E k \in {i, j} : orders[k] # Null /\ orders[k].price # orders'[k].price]_vars

(* POST_ONLY limit orders are never the taker of a trade, whatever is placed and
   committed between the precheck and the matching: both read the same snapshot.  (They
   do not rest either: applyTIF cancels what it finds unfilled.) *)
PostOnlyNeverTakes ==
  \A x \in trades : ~(orders[x.taker].type = "limit" /\ orders[x.taker].tif = "POST_ONLY")

(* Once committed, a market sell and a limit order that is IOC, FOK or POST_ONLY are
   never live: applyTIF ends what match leaves. *)
ImmediateOrdersNeverRest ==
  \A i \in Placed : orders[i].status \in Live
    => IsMarketBuy(orders[i]) \/ (orders[i].type = "limit" /\ orders[i].tif = "GTC")

(* A commit that trades with a maker also trades with every maker that was before
   it in price-time order and that the taker accepted. *)
PriceTimePriority ==
  [][\A x \in trades' \ trades, k \in Ids :
       /\ IsMaker(orders, k, orders'[x.taker])
       /\ Precedes(orders, k, x.maker)
       => \E y \in trades' \ trades : y.maker = k]_vars

(* Each trade is at the price its maker had asked when the commit came, on a row
   that was still live, and never worse than the taker's limit: what was selected
   is what is committed. *)
ExecutesWithinLimits ==
  [][\A x \in trades' \ trades :
       LET taker == orders'[x.taker]
       IN  /\ IsLiveLimit(orders, x.maker, Opposite(taker.side))
           /\ x.price = orders[x.maker].price
           /\ taker.type = "limit" => Accepts(taker.side, taker.price, x.price)]_vars

(* OrderService implements OrderLifecycle: whatever the sessions interleave, each
   commit is one placement, one cancel or one amend of the rows that were
   committed before it, and ended orders stay as they ended. *)
Lifecycle == INSTANCE OrderLifecycle WITH book <- orders

ImplementsLifecycle == Lifecycle!Spec

-----------------------------------------------------------------------------
(* What the code's comments and documents promise and the code does not do *)

(* order_service.go:61, of market orders: "they must execute immediately or
   cancel".  No committed market order is live. *)
MarketOrdersNeverRest ==
  \A i \in Placed : orders[i].type = "market" => orders[i].status \notin Live

(* README.md:44: the engine matches buy and sell orders by itself, so a limit order
   leaves the book as filled only when all of it has been filled. *)
FilledMeansAll ==
  \A i \in Placed : orders[i].type = "limit" /\ orders[i].status = "filled"
                      => orders[i].filled = orders[i].amount

-----------------------------------------------------------------------------
(* Progress *)

(* Every request that has begun is answered: matching ends, lock waits end, and
   sessions that wait for each other are failed. *)
RequestsEnd == \A s \in Sessions : tx[s].pc # "idle" ~> tx[s].pc = "idle"

=============================================================================
