---------------------------- MODULE OrderService ----------------------------
(***************************************************************************)
(* PlaceOrder, CancelOrder and AmendOrder of OrderService as concurrent    *)
(* database transactions.                                                  *)
(*                                                                         *)
(* A session runs one request at a time.  It reads a snapshot taken when   *)
(* it begins, locks order rows (t.rows) and wallet rows (t.purse), writes  *)
(* them in its own view and installs them when it commits.  A statement    *)
(* that needs a row locked by another session waits; one that needs a row  *)
(* changed since the snapshot fails ("could not serialize access"), as do  *)
(* sessions that wait for each other.  SERIALIZABLE forbids more than      *)
(* this: the transactions it aborts beyond these are among the behaviours  *)
(* of Rollback, so every execution of the code is one of this model.       *)
(***************************************************************************)
EXTENDS Exchange

CONSTANTS
  Sessions,      \* requests in flight at once
  InitialFunds,  \* balance of every wallet at the start
  PlaceReqs,     \* bodies of POST /orders
  ChangeIds,     \* bound: the order ids that cancel and amend requests name
  AmendReqs      \* bodies of PUT /orders/:id

ASSUME OrderServiceAssumption ==
  /\ InitialFunds \in [Wallets -> Nat]
  /\ PlaceReqs \subseteq [side : Sides, type : Types, tif : TIFs, amount : Int,
                          price : Prices \cup {Null}, qmax : Int \cup {Null}]
  /\ ChangeIds \subseteq Ids
  /\ AmendReqs \subseteq [amount : Nat \ {0}, price : Prices \cup {Null}]

VARIABLES
  orders,   \* committed rows of "orders", Null where there is none
  wallets,  \* committed rows of "wallets"
  trades,   \* committed rows of "trades"
  nextId,   \* the next order id
  tx        \* the transaction of every session

vars == <<orders, wallets, trades, nextId, tx>>

PCs == {"idle", "place", "match", "fill", "finish",
        "cancel", "canceling", "amend", "amending"}

Tx == [pc    : PCs,
       user  : Users \cup {Null},
       req   : PlaceReqs \cup AmendReqs \cup {Null},
       id    : Ids \cup {Null},             \* the taker, or the order to change
       view  : [Ids -> Order \cup {Null}],  \* orders as this session reads them
       funds : [Wallets -> Wallet],         \* wallets as this session reads them
       rows  : SUBSET Ids,                  \* order rows it has locked
       purse : SUBSET Wallets,              \* wallet rows it has locked
       fills : SUBSET Trade,                \* trades it has inserted
       batch : SUBSET Ids,                  \* makers selected, not yet visited
       spent : Nat, bought : Nat]           \* totalQuoteSpent, totalBaseBought

NoOrders == [i \in Ids |-> Null]
OpeningFunds == [w \in Wallets |-> [balance |-> InitialFunds[w], inOrders |-> 0]]

IdleTx == [pc |-> "idle", user |-> Null, req |-> Null, id |-> Null,
           view |-> NoOrders, funds |-> OpeningFunds, rows |-> {}, purse |-> {},
           fills |-> {}, batch |-> {}, spent |-> 0, bought |-> 0]

Init ==
  /\ orders = NoOrders
  /\ wallets = OpeningFunds
  /\ trades = {}
  /\ nextId = 1
  /\ tx = [s \in Sessions |-> IdleTx]

-----------------------------------------------------------------------------
(* Row locks and conflicts *)

OrderLocked(s, i) == \E u \in Sessions \ {s} : i \in tx[u].rows

(* Faults: READ COMMITTED, where a stale row is no error. *)
OrderNeverStale(s, i)  == FALSE
WalletNeverStale(s, w) == FALSE

OrderStale(s, i)  == i \notin tx[s].rows /\ orders[i] # tx[s].view[i]
WalletStale(s, w) == w \notin tx[s].purse /\ wallets[w] # tx[s].funds[w]

Taker(t) == t.view[t.id]

(* The stopping condition of match, at the loop head and for every maker. *)
Exhausted(t) ==
  IF IsMarketBuy(Taker(t))
  THEN Taker(t).qmax = Null \/ t.spent >= Taker(t).qmax
  ELSE Taker(t).amount = Null \/ Taker(t).amount - Taker(t).filled <= 0

(* SelectMakersForUpdate: FOR UPDATE SKIP LOCKED over the snapshot. *)
SelectMakers(s) ==
  LET t == tx[s]
  IN  FirstOf(t.view,
              {i \in Ids : IsMaker(t.view, i, Taker(t)) /\ ~OrderLocked(s, i)},
              BatchLimit)

(* What a budget pays for: at a price of zero any amount (quoteRemaining / 0 is
   +Inf), below zero less than nothing. *)
MaxAmtByQuote(budget, price, makerRem) ==
  CASE price > 0 -> budget \div Cost(price, 1)
    [] price = 0 -> makerRem
    [] price < 0 -> 0 - (budget \div Cost(0 - price, 1))

TradeAmount(t, maker) ==
  LET makerRem == maker.amount - maker.filled
      takerRem == IF IsMarketBuy(Taker(t))
                  THEN MaxAmtByQuote(Taker(t).qmax - t.spent, maker.price, makerRem)
                  ELSE Taker(t).amount - Taker(t).filled
  IN  IF takerRem < makerRem THEN takerRem ELSE makerRem

(* Fault: the loop does not break on an amount of zero or less. *)
TradesAnyway(t, m) ==
  /\ ~Exhausted(t)
  /\ \A i \in t.batch \ {m} : Precedes(t.view, m, i)

(* The makers loop goes on and trades with m, the first of what it has left. *)
Trades(t, m) ==
  /\ ~Exhausted(t)
  /\ \A i \in t.batch \ {m} : Precedes(t.view, m, i)
  /\ TradeAmount(t, t.view[m]) > 0

Refunds(t) == Taker(t).amount # Null /\ Taker(t).amount - Taker(t).filled > 0

(* Fault: what is locked already is not deducted. *)
AmendDeltaWhole(t) == t.req.amount - Taker(t).filled

AmendDelta(t) == (t.req.amount - Taker(t).filled) - (Taker(t).amount - Taker(t).filled)

(* Fault: the status is not looked at. *)
OwnerMayAlways(t) == Taker(t).user = t.user

OwnerMay(t) == Taker(t).user = t.user /\ Taker(t).status \in Live

(* Fault: an amend below what is filled. *)
CanAmendBelowFilled(t) == OwnerMay(t) /\ Taker(t).type = "limit" /\ Taker(t).amount # Null

CanAmend(t) == OwnerMay(t) /\ Taker(t).type = "limit" /\ Taker(t).amount # Null
                           /\ t.req.amount >= Taker(t).filled

(* The order rows a session's snapshot shows. *)
Found(t) == {i \in Ids : t.view[i] # Null}

(* The rows that the next statement of a session locks. *)
OrdersNeeded(s) ==
  CASE tx[s].pc \in {"cancel", "amend"}           -> {tx[s].id} \cap Found(tx[s])
    [] tx[s].pc = "match" /\ ~Exhausted(tx[s])    -> SelectMakers(s)
    [] OTHER                                      -> {}

WalletsNeeded(s) ==
  LET t == tx[s]
      own(side, user) == {<<user, LockedAsset(side)>>} \cap WalletRows
  IN  CASE t.pc = "place"                                 -> own(t.req.side, t.user)
        [] t.pc = "fill" -> UNION {SettleRows(t.view[m], Taker(t)) : m \in {i \in t.batch : Trades(t, i)}}
        [] t.pc = "canceling" /\ OwnerMay(t) /\ Refunds(t)       -> own(Taker(t).side, t.user)
        [] t.pc = "amending" /\ CanAmend(t) /\ AmendDelta(t) # 0 -> own(Taker(t).side, t.user)
        [] OTHER                                          -> {}

Blocks(u, s) == /\ u # s
                /\ \/ tx[u].rows \cap OrdersNeeded(s) # {}
                   \/ tx[u].purse \cap WalletsNeeded(s) # {}

Waiting(s) == \E u \in Sessions : Blocks(u, s)

Conflicts(s) == \/ \E i \in OrdersNeeded(s) : OrderStale(s, i)
                \/ \E w \in WalletsNeeded(s) : WalletStale(s, w)

Deadlocked(s) == \E S \in SUBSET Sessions :
                   s \in S /\ \A u \in S : \E v \in S : Blocks(v, u)

Ready(s) == ~Waiting(s) /\ ~Conflicts(s)

-----------------------------------------------------------------------------
(* Beginning and ending a transaction *)

Become(s, t) == tx' = [tx EXCEPT ![s] = t]

Commit(s, t) ==
  /\ orders'  = [i \in Ids |-> IF i \in t.rows THEN t.view[i] ELSE orders[i]]
  /\ wallets' = [w \in Wallets |-> IF w \in t.purse THEN t.funds[w] ELSE wallets[w]]
  /\ trades'  = trades \cup t.fills
  /\ Become(s, IdleTx)
  /\ UNCHANGED nextId

(* defer tx.Rollback(): nothing the transaction did is kept. *)
Abandon(s) == Become(s, IdleTx) /\ UNCHANGED <<orders, wallets, trades, nextId>>

Begin(s, pc, user, req, id) ==
  /\ tx[s].pc = "idle"
  /\ Become(s, [IdleTx EXCEPT !.pc = pc, !.user = user, !.req = req, !.id = id,
                              !.view = orders, !.funds = wallets])
  /\ UNCHANGED <<orders, wallets, trades>>

(* PlaceOrder up to the post-only precheck; a request refused there has
   changed nothing.  The id stands for the created_at of the transaction. *)
PlaceBegin(s, user, r) ==
  /\ nextId <= MaxOrders
  /\ Validates(orders, r)
  /\ Begin(s, "place", user, r, nextId)
  /\ nextId' = nextId + 1

CancelBegin(s, user, id) == Begin(s, "cancel", user, Null, id) /\ UNCHANGED nextId

AmendBegin(s, user, id, r) == Begin(s, "amend", user, r, id) /\ UNCHANGED nextId

(* The client goes away or the database gives up: any transaction may end. *)
Rollback(s) == tx[s].pc # "idle" /\ Abandon(s)

(* A statement that can never succeed is failed by the database. *)
Fail(s) == (Deadlocked(s) \/ (Conflicts(s) /\ ~Waiting(s))) /\ Abandon(s)

-----------------------------------------------------------------------------
(* PlaceOrder *)

(* Fault: funds that are already locked count. *)
CoversWithLocked(t) ==
  LET w == <<t.user, LockedAsset(t.req.side)>>
  IN  w \in WalletRows /\ t.funds[w].balance + t.funds[w].inOrders >= LockCost(t.req)

(* lockFunds, then Insert.  GetForUpdate finds no row for a user without a
   wallet, and the request fails as it does when the balance is too low. *)
Covers(t) ==
  LET w == <<t.user, LockedAsset(t.req.side)>>
  IN  w \in WalletRows /\ t.funds[w].balance >= LockCost(t.req)

(* Fault: what follows the post-only check reads what is committed by then (READ
   COMMITTED). *)
LockAndInsertLater(t) ==
  LET asset == LockedAsset(t.req.side)
      cost  == LockCost(t.req)
  IN  [t EXCEPT !.pc = "match",
                !.funds = UpdateBalances(wallets, t.user, asset, -cost, cost),
                !.purse = {<<t.user, asset>>},
                !.view = [orders EXCEPT ![t.id] = NewOrder(t.user, t.req)],
                !.rows = {t.id}]

LockAndInsert(t) ==
  LET asset == LockedAsset(t.req.side)
      cost  == LockCost(t.req)
  IN  [t EXCEPT !.pc = "match",
                !.funds = UpdateBalances(t.funds, t.user, asset, -cost, cost),
                !.purse = {<<t.user, asset>>},
                !.view[t.id] = NewOrder(t.user, t.req),
                !.rows = {t.id}]

PlaceLock(s) ==
  /\ tx[s].pc = "place" /\ Ready(s) /\ Covers(tx[s])
  /\ Become(s, LockAndInsert(tx[s]))
  /\ UNCHANGED <<orders, wallets, trades, nextId>>

PlaceRefuse(s) ==
  tx[s].pc = "place" /\ Ready(s) /\ ~Covers(tx[s]) /\ Abandon(s)

(* Fault: the loop does not stop when there are no makers. *)
MatchSelectOn(s) ==
  LET t == tx[s]
      batch == IF Exhausted(t) THEN {} ELSE SelectMakers(s)
  IN  /\ t.pc = "match" /\ Ready(s)
      /\ Become(s, [t EXCEPT !.pc = IF Exhausted(t) THEN "finish" ELSE "fill",
                             !.batch = batch, !.rows = @ \cup batch])
      /\ UNCHANGED <<orders, wallets, trades, nextId>>

(* One turn of the outer loop of match: stop, or lock a batch of makers. *)
MatchSelect(s) ==
  LET t == tx[s]
      batch == IF Exhausted(t) THEN {} ELSE SelectMakers(s)
  IN  /\ t.pc = "match" /\ Ready(s)
      /\ Become(s, [t EXCEPT !.pc = IF batch = {} THEN "finish" ELSE "fill",
                             !.batch = batch, !.rows = @ \cup batch])
      /\ UNCHANGED <<orders, wallets, trades, nextId>>

(* "if *maker.Amount >= maker.FilledAmount-1e-12": with filled <= amount this
   holds after every fill, also after one that leaves a remainder. *)
MakerStatus(maker, filled) ==
  IF maker.amount >= filled THEN "filled" ELSE "partially_filled"

TakerStatus(taker, filled, spent) ==
  IF IsMarketBuy(taker)
  THEN IF spent >= taker.qmax THEN "filled" ELSE "partially_filled"
  ELSE IF filled >= taker.amount THEN "filled" ELSE "partially_filled"

(* The body of the makers loop: the trade, both fills and the settlement. *)
Fill(t, m) ==
  LET maker  == t.view[m]
      taker  == Taker(t)
      price  == maker.price
      amount == TradeAmount(t, maker)
      cost   == Cost(price, amount)
      spent  == IF IsMarketBuy(taker) THEN t.spent + cost ELSE t.spent
      bought == IF IsMarketBuy(taker) THEN t.bought + amount ELSE t.bought
      mfill  == maker.filled + amount
      tfill  == taker.filled + amount
      trade  == [maker |-> m, taker |-> t.id, price |-> price, amount |-> amount,
                 quote |-> cost, feeMaker |-> FeeMaker(price, amount),
                 feeTaker |-> FeeTaker(price, amount)]
  IN  [t EXCEPT !.view = [@ EXCEPT
                  ![m] = [maker EXCEPT !.filled = mfill, !.status = MakerStatus(maker, mfill)],
                  ![t.id] = [taker EXCEPT !.filled = tfill,
                                          !.status = TakerStatus(taker, tfill, spent)]],
                !.funds = Settle(t.funds, maker, taker, price, amount),
                !.purse = @ \cup SettleRows(maker, taker),
                !.fills = @ \cup {trade},
                !.batch = @ \ {m},
                !.spent = spent,
                !.bought = bought]

(* One turn of the makers loop. *)
MatchFill(s) ==
  /\ tx[s].pc = "fill" /\ Ready(s)
  /\ \E m \in tx[s].batch : Trades(tx[s], m) /\ Become(s, Fill(tx[s], m))
  /\ UNCHANGED <<orders, wallets, trades, nextId>>

(* The loop ends, or breaks on an amount of zero: on to the outer loop. *)
MatchNext(s) ==
  /\ tx[s].pc = "fill"
  /\ \A m \in tx[s].batch : ~Trades(tx[s], m)
  /\ Become(s, [tx[s] EXCEPT !.pc = "match", !.batch = {}])
  /\ UNCHANGED <<orders, wallets, trades, nextId>>

(* refundRemaining for order o of transaction t, ending in this status. *)
QuoteSpent(ts, id) ==
  LET own == {x \in ts : x.taker = id}
  IN  SumFunctionOnSet([x \in own |-> x.quote], own)

(* Fault: what has been filled is refunded as well. *)
RefundWhole(t, o, remaining) ==
  CASE o.side = "sell"                     -> o.amount
    [] o.side = "buy" /\ o.type = "limit"  -> Cost(o.price, o.amount)
    [] o.side = "buy" /\ o.type = "market" ->
         IF o.qmax = Null THEN 0 ELSE o.qmax - QuoteSpent(trades \cup t.fills, t.id)

RefundAmount(t, o, remaining) ==
  CASE o.side = "sell"                     -> remaining
    [] o.side = "buy" /\ o.type = "limit"  -> Cost(o.price, remaining)
    [] o.side = "buy" /\ o.type = "market" ->
         IF o.qmax = Null THEN 0 ELSE o.qmax - QuoteSpent(trades \cup t.fills, t.id)

RefundRemaining(t, o, remaining, status) ==
  LET asset  == LockedAsset(o.side)
      refund == RefundAmount(t, o, remaining)
  IN  [t EXCEPT !.funds = UpdateBalances(@, o.user, asset, refund, -refund),
                !.purse = @ \cup ({<<o.user, asset>>} \cap WalletRows),
                !.view[t.id].status = status]

(* The taker.Amount that applyTIF sees: match sets a market buy's to what it
   bought, if it bought anything. *)
TakerAmount(t) ==
  IF IsMarketBuy(Taker(t)) /\ t.bought > 0 THEN t.bought ELSE Taker(t).amount

(* Fault: IOC and FOK left to rest. *)
FinalStatusRests(o) ==
  IF o.type = "limit" THEN Null ELSE "canceled"

FinalStatus(o) ==
  CASE o.tif = "GTC" /\ o.type = "limit"  -> Null     \* the remainder rests
    [] o.tif = "GTC" /\ o.type = "market" -> "canceled"
    [] o.tif \in {"IOC", "POST_ONLY"}     -> "canceled"
    [] o.tif = "FOK"                      -> "rejected"

ApplyTIF(t) ==
  LET remaining == TakerAmount(t) - Taker(t).filled
      status    == FinalStatus(Taker(t))
  IN  IF TakerAmount(t) = Null \/ remaining <= 0 \/ status = Null
      THEN t
      ELSE RefundRemaining(t, Taker(t), remaining, status)

PlaceFinish(s) ==
  tx[s].pc = "finish" /\ Commit(s, ApplyTIF(tx[s]))

-----------------------------------------------------------------------------
(* CancelOrder and AmendOrder *)

(* GetByIDForUpdate finds no row, or locks it before the owner is checked. *)
LockOrder(s, from, to) ==
  /\ tx[s].pc = from /\ Ready(s)
  /\ IF tx[s].id \in Found(tx[s])
     THEN /\ Become(s, [tx[s] EXCEPT !.pc = to, !.rows = {tx[s].id}])
          /\ UNCHANGED <<orders, wallets, trades, nextId>>
     ELSE Abandon(s)

CancelLock(s) == LockOrder(s, "cancel", "canceling")
AmendLock(s)  == LockOrder(s, "amend", "amending")

CancelRefund(t) ==
  IF Refunds(t)
  THEN RefundRemaining(t, Taker(t), Taker(t).amount - Taker(t).filled, "canceled")
  ELSE t

CancelFinish(s) ==
  LET t == tx[s]
  IN  /\ t.pc = "canceling" /\ Ready(s)
      /\ IF OwnerMay(t)
         THEN Commit(s, [CancelRefund(t) EXCEPT !.view[t.id].status = "canceled"])
         ELSE Abandon(s)

(* The quote or base that an amend moves between balance and in_orders: at the
   new price for a buy, whatever the old remainder was locked at. *)
NewPrice(t) == IF t.req.price = Null THEN Taker(t).price ELSE t.req.price

AmendCost(t) ==
  IF Taker(t).side = "buy" THEN 2000 * (NewPrice(t) * AmendDelta(t)) ELSE AmendDelta(t)

AmendCovered(t) ==
  LET w == <<t.user, LockedAsset(Taker(t).side)>>
  IN  AmendDelta(t) # 0 =>
        w \in WalletRows /\ (AmendCost(t) > 0 => t.funds[w].balance >= AmendCost(t))

Amended(t) ==
  LET o     == Taker(t)
      asset == LockedAsset(o.side)
      funds == UpdateBalances(t.funds, t.user, asset, -AmendCost(t), AmendCost(t))
  IN  [t EXCEPT !.funds = IF AmendDelta(t) = 0 THEN @ ELSE funds,
                !.purse = IF AmendDelta(t) = 0 THEN @ ELSE {<<t.user, asset>>},
                !.view[t.id] = [o EXCEPT !.price = NewPrice(t), !.amount = t.req.amount]]

AmendFinish(s) ==
  LET t == tx[s]
  IN  /\ t.pc = "amending" /\ Ready(s)
      /\ IF CanAmend(t) /\ AmendCovered(t) THEN Commit(s, Amended(t)) ELSE Abandon(s)

-----------------------------------------------------------------------------
Arrive(s) ==
  \/ \E u \in Users, r \in PlaceReqs : PlaceBegin(s, u, r)
  \/ \E u \in Users, i \in ChangeIds : CancelBegin(s, u, i)
  \/ \E u \in Users, i \in ChangeIds, r \in AmendReqs : AmendBegin(s, u, i, r)

Step(s) ==
  \/ PlaceLock(s) \/ PlaceRefuse(s) \/ MatchSelect(s) \/ MatchFill(s) \/ MatchNext(s)
  \/ PlaceFinish(s)
  \/ CancelLock(s) \/ CancelFinish(s)
  \/ AmendLock(s) \/ AmendFinish(s)
  \/ Fail(s)

Next == \E s \in Sessions : Arrive(s) \/ Step(s) \/ Rollback(s)

Spec == Init /\ [][Next]_vars

(* A request handler runs to its end; PostgreSQL queues the sessions that wait
   for a row, so one that can repeatedly go on does.  Requests need not come and
   no transaction has to be rolled back. *)
Fairness == \A s \in Sessions : SF_vars(Step(s))

FairSpec == Spec /\ Fairness
=============================================================================
