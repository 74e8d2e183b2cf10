# Formal model of the crypto trading backend

TLA+ modules, TLC instances and TLAPS proofs for the Go backend under `src/`: an
HTTP/WebSocket server that keeps a spot exchange in PostgreSQL, with Redis as an
optional cache. The repository has no tests and no SQL schema; the code, its comments
and `src/README.md` are the reference.

Run things from this directory:

    tlasany OrderService.tla
    tlc -workers 2 -config orders_serial.cfg MCOrderService.tla
    tlapm OrderServiceProofs.tla

## 1. The system

| Component | State | Operations | Interacts with |
|---|---|---|---|
| Order service (`service/order_service.go`, `repo/order_repo.go`, `repo/wallet_repo.go`, `repo/trade_repo.go`) | rows of `orders`, `wallets`, `trades` | `PlaceOrder` (validate, post-only precheck, lock funds, insert, match, settle, apply TIF), `CancelOrder`, `AmendOrder` | one SERIALIZABLE transaction per request; invalidates the cached book after a commit |
| Order book hub (`handler/orderbook_handler.go`) | client set, channels, subscriptions | `Run`, broadcaster, `readPump`, `writePump`, subscribe, unsubscribe, immediate send | reads books with `OrderRepo.GetOrderBook` |
| Order book cache (`OrderRepo.GetOrderBook`, `service/redis_cache.go`) | `orderbook:<market>` in Redis, 2 s to live | cache-aside read, asynchronous store, asynchronous invalidation | read by the hub, invalidated by the order service |
| Candle hub (`handler/websocket_handler.go`) | candles in Redis, `currentMinute`, `lastTradeCheck`, clients | broadcaster every 2 s, roll of the minute, initialization on subscribe, the same fan-out as the order book hub | polls `trades`, saves to `ohlcv_1m` |
| Candle intervals (`repo/market_repo.go`) | none | `GetCandles`, `aggregateCandles` | reads `ohlcv_1m` |
| Sessions (`controller/authHandler.go`, `middleware/authMiddleware.go`) | `users`, `user_auth`, `refresh_tokens`, cookies and access tokens at the client | register, sign in, refresh, sign out, check of an access token | gives every handler its user |
| Balances and trade history (`controller/userHandler.go`, `controller/tradeHandler.go`, `repo/trade_repo.go`) | none | `GetUserBalance`, `GetByUserId` | reads what the order service writes |
| Profile, login activities, routes, start-up | rows of the caller, configuration | single statements, wiring | - |

What is hard here, component by component (`PROJECT.json` "hazards" has each at its line):

- *Order service*: requests interleave at every statement; row locks, `SKIP LOCKED`,
  serialization failures, deadlocks between wallet rows, a rollback at any point; money
  in two columns that only the code keeps in agreement with the order rows; prices that
  nobody asks to be above zero; a matching
  loop whose end is an argument, not a counter. Correct when no wallet is overdrawn but by a
  negative price, no order overfilled, `in_orders` accounts for the orders, fills account for the
  trades, trades follow price-time priority, ended orders stay ended, and every
  request ends.
- *Order book hub*: the send channel of a client is closed by one goroutine and
  written by three; eviction, unregister and an immediate send race. Correct when no
  goroutine sends on or closes a closed channel, nobody is forgotten, everything is
  cleaned up and subscribers are served.
- *Cache*: stores and invalidations in goroutines nobody waits for, errors dropped,
  asks and bids in two queries. Correct when staleness is transient.
- *Candle hub*: a poll window that overlaps or misses trades, a roll that races the
  initialization. Correct when each trade is counted in one candle, once,
  no volume is lost at the turn, and stored candles fit together.
- *Candle intervals*: gaps in the one-minute candles, and fetched rows that begin or end
  within an interval. Correct when every candle but the oldest is all of its interval and
  the newest are there.
- *Sessions*: revocation and expiry against tokens already issued, answers that cross,
  statements that fail half-way, errors that are ignored. Correct when access ends with the
  session, a live session is known to a browser, and failures leave no halves.
- *History*: two joins over the rows of trades and orders. Correct when what a user is
  shown explains the user's balances.

## 2. Modules

| Module | What it is |
|---|---|
| `Exchange` | rows and arithmetic of one market: locking, the four wallet updates of a settlement, maker selection, validation, the inserted row |
| `OrderService` | the three requests as concurrent transactions over `Exchange` |
| `OrderLifecycle` | abstract specification of the order table: each commit is one placement, cancel or amend |
| `TradeHistory` | what a user is shown: `GetByUserId`'s joins and `GetUserBalance`, over the rows of `OrderService` |
| `OrderProperties` | type invariant, inductive invariant, safety, action and liveness properties of `OrderService`, and its refinement of `OrderLifecycle` |
| `OrderServiceProofs` | proofs about `OrderService`: its invariant; then the refinement, what follows from row locks, and price-time priority |
| `LedgerProofs` | proofs about the accounts of `OrderService`: trades, balances, locked funds |
| `SumLemmas` | laws of sums over finite sets, used by `LedgerProofs`, `CandleHubProofs` and `CandleHistoryProofs` |
| `OrderbookHub`, `OrderbookHubProofs` | the hub, its broadcaster and its connections |
| `OrderBookCache`, `OrderBookCacheProofs` | the cached book between `OrderService` commits and the hub's reads |
| `CandleHub`, `CandleHubProofs` | the candle broadcaster, candle initialization, the candles in Redis and in `ohlcv_1m` |
| `CandleIntervals` | `GetCandles` and `aggregateCandles` over a table, and what the candle of an interval is |
| `CandleHistory`, `CandleHistoryProofs` | `CandleHub` and `CandleIntervals` together: answers over any table that a starting server may find |
| `Sessions`, `SessionsProofs` | accounts, sessions, cookies and access tokens |
| `MCOrderService`, `MCOrderbookHub`, `MCOrderBookCache`, `MCCandleHub`, `MCSessions` | instances for TLC |

Definitions introduced by "Fault:" are variants of the definition that follows them with
a plausible mistake; they are not part of the specification. Each shows that a property
notices that mistake.

### OrderService and the code

A session (one HTTP request) goes through program points that are the places where the
code can be interleaved:

| Code | Actions |
|---|---|
| `BeginTx`, validation, `willMatchImmediately` | `PlaceBegin` |
| `lockFunds`, `Insert` | `PlaceLock`, or `PlaceRefuse` when the balance is too low or there is no wallet row |
| head of the `match` loop, `SelectMakersForUpdate` | `MatchSelect` |
| one turn of the makers loop: trade row, both fills, `settle` | `MatchFill`; `MatchNext` when the loop ends or breaks |
| `applyTIF`, `refundRemaining`, `Commit` | `PlaceFinish` |
| `GetByIDForUpdate` in cancel and amend | `CancelLock`, `AmendLock` |
| the rest of `CancelOrder`, `AmendOrder` | `CancelFinish`, `AmendFinish` |
| `defer tx.Rollback()`: client gone, database error, crash | `Rollback` |
| serialization failure, deadlock victim | `Fail` |

*Transactions.* A session reads the snapshot taken when it began plus its own writes
(`view`, `funds`), holds the order rows (`rows`) and wallet rows (`purse`) it has locked,
and installs exactly those when it commits. A statement waits for a row locked by another
session, fails on a row changed since the snapshot, and `SKIP LOCKED` passes over locked
rows. That is snapshot isolation with row locks; PostgreSQL's SERIALIZABLE aborts some
transactions more, which `Rollback` covers, so every execution of the code is one of the
model and the safety results carry over. "Changed" is decided by value: a row that was
changed and changed back is not stale here and is in PostgreSQL, which again only adds
behaviours.

*Abstractions.* One market. The id of an order stands for its `created_at`, the start of
the placing transaction. `settle` takes its four wallet rows in one step; where the code
takes some, waits for the rest and deadlocks, the model waits before the first and has
`Rollback`. `trades` is a set: two trades of the same pair in one transaction differ, as a
maker is filled at most once per taker. Not modelled: `fee`, timestamps, the response.

*History.* `GetByUserId` is the set of the lists that the query may return: an entry for each
row of the two joins (`Joined`), so that a trade of a user with themself is listed four times,
ordered by `trade_time`, which is that of the taker's transaction, and cut by the LIMIT
(`RowLimit`: 100 when none is asked for). PostgreSQL is free to choose among rows of one time,
hence a set of lists.

*Numbers.* The code uses `float64` and takes 1e-12 base or 1e-8 quote for zero. The model
counts base in lots and quote in units of 1/2000 of price 1 times one lot, so that both
fees (0.1 % and 0.05 %) are whole numbers. Amounts and budgets in the runs are even and
positive prices are 1 or 2, so a market buy's budget divides exactly, as it does in `float64`
up to the tolerance; with other values `\div` rounds down where the code would trade a
fraction of a lot (after an amend to an odd amount, for a market buy with a rest of budget).
Rounding drift of `float64` is outside the model. Prices are of either sign (`Prices` is
`Int`): `PlaceOrder` asks that a limit order has one, `AmendOrder` takes the new one if there
is one, and neither looks at its value. `Cost`, the locks, the fees and a market buy's division
by the price (`MaxAmtByQuote`) follow the code there too; the runs place a sell at -1 and
amend to -1.

### OrderbookHub and the code

`reader` is where `HandleWebSocket` and then `readPump` of a connection are, `writer`
where `writePump` is; `todo` is what is left of `for client := range h.clients`. Each
channel operation is one action. A send on or close of a closed channel sets `panic`, and
nothing happens after that: a Go panic in a goroutine ends the process. That is why the
runs of this module do not check for deadlock. A message is the set of markets it has a
book of. `clients`' mutex is not modelled: only `Run` touches the map. Each connection is
used once, and at most one immediate send runs per client and set of markets.

### OrderBookCache and the code

A half of the book (asks or bids) is represented by the number of the commit that last
changed it. `erasing` and `storing` are the running goroutines; each may fail or be lost
in a crash (`Restart`). A commit that changes nothing visible is `PlaceCommit({})`.

### CandleHub and the code

| Code (`websocket_handler.go`, `redis_cache.go`) | Actions |
|---|---|
| ticker, `now`, `newMinute.After(h.currentMinute)` | `TickStart` |
| `GetAllCandles`; for each: `ValidateSymbol` fails or says no, `SaveOHLCV`, `ResetCandle` | `ListOld`; `SkipOld`, `SaveOld`, `ResetOld` |
| initialization of missing candles (a failed `HasCandle` counts as missing), `h.currentMinute = newMinute` | `SpawnMissing`, `TurnMinute` |
| `GetLatestTrades`; for each: `UpdateCandleWithTrade` (a read and a write) | `Fetch`; `ReadCandle`, `WriteCandle` |
| `h.lastTradeCheck = now`, broadcast | `TickEnds` |
| first subscription to a symbol | `Subscribe` |
| `InitializeSymbolCandle`: `HasCandle`; `GetCandles`; `GetLatestTrades`; `h.currentMinute`; `ResetCandle` | `InitExists`, `InitMissing`, `InitCheckFails`; `InitFromTable`; `InitFromTrades`; `InitMinute`; `InitReset` |

Time is a coarse clock: `MinuteLength` instants make a minute, and `Lifetime` of them (1.5
minutes) the 90 s after which a candle expires. Ticks may be late by any time, but two are
never at the same instant. A trade is committed up to `MaxDelay` instants after its
`trade_time`, because it gets that inside its transaction. Volumes count trades: every
`quote_amount` is 1. `active` is `candles:active`: `SetCandle` ignores an SADD that fails, so a
candle may exist that `GetAllCandles` does not list. The first price of a candle comes from
the table, else from the trades of 24 hours, else it is 0, which is also what is left when a
read fails although there are trades. The fan-out to clients is the code of `OrderbookHub`
and is left out. An error that the code logs and passes over is a disjunct with `Mishap`.

Three of the variables are history: `watching` (since when no trade was passed over by a
crash or a failed call), `disturbed` (symbols whose candle expired, was replaced by a late
`InitReset`, or could not be stored) and the trades' `onTime` and `counted`. The properties
name their exceptions with them: they say that these are the *only* ways in which trades or
volume are lost.

### CandleIntervals and the code

A table is a function from minutes to bars, and its domain says which minutes have a row.
`Get1mCandles` is the query; its `ORDER BY open_time DESC` is `NewestFirst`, where each row
comes after as many rows as are newer. `Bucketed` is one turn of the loop, which fills an
interval or opens the next, `Aggregated` the loop over all rows, and `AggregateCandles` the
whole of `aggregateCandles`, cut at `limit` from the oldest on.
`IsCandleOf` is the reference: it says what the candle of an interval is by minima, maxima
and a sum over the interval's rows. What `ohlcv_1m` holds when the server starts is open
(crashes, failed calls and nights without the server leave gaps), so the properties quantify
over all tables in `Tables`; they are about the answer and not about steps, hence the
`Init =>` that has TLC evaluate them once. `HistoryAssumption` says what a table is (finitely
many minutes, one bar of integers for each) and what is asked for: whole minutes and a limit
from 0 on. The code takes any limit, and a negative one is an error of the query.

### Sessions and the code

| Code (`authHandler.go`, `authMiddleware.go`) | Actions |
|---|---|
| `Register`: `SELECT EXISTS`; `INSERT INTO users`; `INSERT INTO user_auth` and commit; any error | `RegisterCheck`; `RegisterInsert`; `RegisterCommit`; `RegisterFails` |
| `SignIn`: the query and the password; the `INSERT` of the refresh token; the answer with cookie and access token | `SignInLook`; `SignInStore`, `SignInLost`, `SignInFails`; `Welcome` |
| `SignOut`: the cookie as it was sent; the `UPDATE`; the answer that clears the cookie | `SignOutArrives`; `SignOutRevoke`, `SignOutFails`; `Cleared` |
| `RefreshToken`: the cookie as it was sent; the `SELECT` and the test of `revoked_at`; expiry and the new access token | `RefreshArrives`; `RefreshRead`; `RefreshIssue` |
| `RequireAuth`: signature and expiry; the `SELECT` of an active user; `c.Next()` | `BearerArrives`; `BearerLoad`; `Served` |
| a request cut off, an answer lost; time | `Lost`; `Tick`, `CookieExpires` |

A session stands for the refresh token, its hash and its row; signatures and hashes are
taken to do what they are for. `access[s]` is how long each access token made from session
`s` still lives: nothing in the code knows such a token, so it only runs out. Register
inserts in a transaction: its user is visible with the commit. No code of the repository
deactivates an account; `Deactivate` is the administrator whose `status` the middleware asks
for. The schema is not in the repository, so nothing is assumed of unique constraints: two
registrations may find the same name free, and `RegisterFails` is what a constraint would
do. Three variables are history and name the exceptions: `endedFor`, `straggled` (sessions
refreshed by a request that had read the row before the revocation) and `abandoned`
(sessions that a browser lost without their revocation).

## 3. Runs

| Run | Bounds | Shows |
|---|---|---|
| `orders_serial` | 1 session, 2 users, 3 orders out of 16 requests of every side, type and TIF, one of them a sell at -1, amends of amount and price, batches of 1 maker | `ImmediateOrdersNeverRest`, `PriceTimePriority`, `OnlyAmendsCrossTheBook`, `LockedFundsFollowOrders`, and `TypeOK` |
| `orders_concurrent` | 2 sessions, 2 users, 3 orders out of 4 requests, cancels and amends of the second, to amount 1 or to amount 4 at price -1; the history with limits 0 (the default) and 2 | `HistoryExplainsBalances`, `FillsMatchTrades`, `FilledWithinAmount`, `SellersFundsAreBacked`, `PostOnlyNeverTakes`, `LockedFundsFollowOrders`, `OnlyNegativePricesOverdraw`, `ExecutesWithinLimits`, refinement of `OrderLifecycle` |
| `orders_progress` | 2 sessions, 1 user, 4 orders, fairness | `RequestsEnd` |
| `orders_market_buy`, `orders_maker_remainder`, `orders_amend_to_filled` | 1 session, 2 or 3 orders | counterexamples, section 5 |
| `hub_lifecycle` | 2 connections, 1 market, buffers of 1, fairness | `RunNeverPanics`, `ConnectedAreKnown`, `ConnectionsAreCleanedUp`, `SubscribersHear` |
| `hub_send_on_closed` | 1 connection | counterexample, section 5 |
| `book_cache` | broadcaster and one more reader, 2 commits, 1 crash, fairness | `InvalidatedBooksAreGone`, `BroadcastsCatchUp` |
| `candles` | 1 symbol, 2 trades, 4 instants with 2 turns of the minute, 1 crash or failed call; tables of up to 6 minutes, intervals of 1, 2 and 3, limits 0, 1 and 2; at most two initializations at a time, one after a mishap (`FewGoroutines`) | `PunctualTradesAreCounted`, `CountedAtMostTwice`, `VolumeIsConserved`, `CandlesAreInShape`, `CandlesAreContiguous`, `OnlyTheOldestIsPartial`, `UnbrokenHistoryIsExact` |
| `candles_late_trade` | the same without failures | counterexample, section 5 |
| `sessions` | 2 requests at a time, 2 browsers, 1 account, 2 sessions, access tokens of 2 ticks and refresh tokens of 3 | `AccessEndsWithSession`, `LiveSessionsAreHeld`, `ShutOutAtOnce`, `NoSessionWithoutRow`, `AccountsAreWhole` |

*Why the bounds are enough.* Three orders give two makers and a taker, so price and time
decide, a taker spans two batches (`BatchLimit` 1 stands for 50) and partial fills happen
on both sides. Two sessions are every race between two requests. Wallet deadlock needs two
resting orders and two takers, hence the four orders and the single user of
`orders_progress`. Funds are small enough that some requests are refused. An amend to price -1
and a market buy that takes the amended sell are a debit that nobody checks; a history limit
of 2 cuts the four rows of one trade with oneself. A buffer of one
message is full as soon as the writer is late, which is what eviction is about; 256 only
makes it rarer. Two commits are one that a read misses and one after it. Two turns of the
minute store two candles that must fit together, and the first trade has the higher price,
so a candle may open, close, rise and fall differently; symbols do not influence one
another, so one is enough. Six minutes with gaps are two intervals of three or three of two,
with rows that begin within one, end within one or leave one out. Two sessions and two
browsers give a sign-in over another, a browser left behind, and the race of any two of the
requests; the account's tokens do not depend on other accounts. Named bounds: `MaxOrders`,
`ChangeIds` (ids that cancels and amends name), `BatchLimit`, `Clients`, `SendCap`,
`BroadcastCap`, `MaxCommits`, `MaxRestarts`, `TradePrices`, `StartTime`, `MaxTime`,
`MaxDelay`, `MaxMishaps`, `FewGoroutines` (a constraint of `candles`: initializations that run
at once), `HistoryLimits`, `Tables`, `Intervals`, `Limits`, `Ends`, `Accounts`, `SessionIds`,
`Browsers`, `Requests`, `AccessTTL`, `RefreshTTL`. `candles` and `candles_late_trade` do not
check for deadlock: the clock ends. The hub's runs do not either: a panic ends the process.

*Properties with an exception.* An amend of a buy prices the change of its remainder only,
and does not match. So `LockedFundsFollowOrders` and `OnlyAmendsCrossTheBook` are about
steps: each commit moves locked funds by as much as the order rows move, but for exactly
what such an amend leaves behind (`Repricing`), and only an amend of a price makes two
resting orders cross. What is locked for sells has no price in it, so there the sums can be
compared themselves, in every state: `SellersFundsAreBacked`. `PriceTimePriority` and `OnlyAmendsCrossTheBook` are claimed for one
session only: `SKIP LOCKED` gives up both under concurrency. `HistoryExplainsBalances` takes
each user's wallets, available and locked together, against the entries that the user is
shown, if the list is shorter than its limit; the four entries of a trade with oneself cancel
out but for its fee, which they show twice and which is charged once. `OnlyNegativePricesOverdraw`
names the two debits that no line checks: a seller pays a negative price, and the cancel of a
buy at a negative price takes back what placing it has credited. Symmetry: users, sessions, browsers and requests start
alike and no request names one; no liveness property is checked under symmetry.

*Fairness.* `OrderService`: strong fairness of each session's steps. A handler runs to
its end and PostgreSQL queues waiters for a row, so a session that can repeatedly go on
does; nothing is assumed of arrivals or rollbacks, and a deadlock ends because the
database's detector fails a victim (`Fail`), not by assumption. Without fairness for
`Rollback`, a loop that never ends is a violation. `OrderbookHub`: goroutines are
scheduled (weak fairness); `select` picks at random among ready cases, so a case that is
ready again and again is taken (strong); tickers tick; nothing is assumed of peers.
`OrderBookCache`: keys expire, the broadcaster ticks, a query repeated every second
succeeds again and again; stores and invalidations may be delayed forever. `CandleHub` and
`Sessions` have safety properties only and assume no fairness.

## 4. Proofs

Each proof module shows its theorems for every value of the constants that satisfies the
assumptions named in the modules; TLC evaluates these assumptions in every run.

| Module | Theorems |
|---|---|
| `OrderServiceProofs` | `Invariance` (`IInv`), `TypeCorrect`, `NoOverfill` (`FilledWithinAmount`), `LifecycleInvariance` (`LInv`), `ServiceImplementsLifecycle` (`ImplementsLifecycle`), `TradesWithinLimits` (`ExecutesWithinLimits`), `PostOnlyOnlyMakes` (`PostOnlyNeverTakes`), `ImmediateOrdersEnd` (`ImmediateOrdersNeverRest`); of one request at a time `QueueInvariance` (`QInv`), `PriorityIsKept` (`PriceTimePriority`), `TheBookIsUncrossed` (`OnlyAmendsCrossTheBook`) |
| `LedgerProofs` | `LedgerInvariance` (`HInv`), `FillsAreTrades` (`FillsMatchTrades`), `HistoryAccounts` (`HistoryExplainsBalances`), `LockedFundsAccount` (`LockedFundsFollowOrders`), `SellersFundsAccount` (`SellersFundsAreBacked`), `EveryLockIsBacked`, `NoOverdraft` (`OnlyNegativePricesOverdraw`) |
| `SumLemmas` | the laws of `SumFunctionOnSet` that `LedgerProofs`, `CandleHubProofs` and `CandleHistoryProofs` need |
| `SessionsProofs` | `Invariance`, `TypeCorrect`, `RevocationTakesEffect` (`AccessEndsWithSession`), `NoForgottenSession` (`LiveSessionsAreHeld`), `DeactivationTakesEffect` (`ShutOutAtOnce`), `TokensHaveRows` (`NoSessionWithoutRow`), `NoHalfAccount` (`AccountsAreWhole`) |
| `OrderbookHubProofs` | `Invariance`, `TypeCorrect`, `RunIsSafe` (`RunNeverPanics`), `NobodyIsForgotten` (`ConnectedAreKnown`) |
| `OrderBookCacheProofs` | `Invariance`, `TypeCorrect`, `NoBookOutlivesItsInvalidation` (`InvalidatedBooksAreGone`) |
| `CandleHubProofs` | `Invariance` (`CInv`), `TypeCorrect`, `NoTradeCountedThrice` (`CountedAtMostTwice`), `WindowsLeaveNoGap` (`PunctualTradesAreCounted`), `RecordInvariance` (`VInv`), `VolumeIsKept` (`VolumeIsConserved`), `ShapesAreKept` (`CandlesAreInShape`), `CandlesChain` (`CandlesAreContiguous`) |
| `CandleHistoryProofs` | `AnswersArePartialOnce` (`OnlyTheOldestIsPartial`), `UnbrokenAnswersAreExact` (`UnbrokenHistoryIsExact`) |

*Orders (`OrderServiceProofs`).* That fills stay within the amount is not inductive for the
committed rows alone: a commit installs what a transaction has prepared. `IInv` therefore
says the same of the private view of every transaction (`TxOK`), together with what each
program point relies on: a placing request has passed validation (`ReqOK`), an amending one
names a row that is there, a matching taker is in its own view, a market buy's `bought` is
its `filled`, and every maker still in the batch is a live limit order of the other side at
a price that the taker accepts (`TakerOK`). `TradeAmountOK` shows
that a trade is at most what either order still has, so `OrderOK` survives (`FillOK`).
`FinishOK`, `CancelOK` and `AmendOK` show that what is about to be committed is well formed
(`Committable`), `CommitOK` that committing it keeps `IInv`; the remaining lemmas take the
actions one by one and `NextKeepsIInv` joins them. `IInv` is a means only, and no run
checks it as a property.

*Refinement (`OrderServiceProofs`, second part).* A transaction writes from a snapshot that may be
old, and nevertheless changes the committed row of today. `LInv` says why: a row in `rows`
of a session was not stale when it was locked, no two sessions hold the same row (`ApartOK`),
and a commit writes only rows that it holds, so the row in the view is still the committed
one, or that one with the taker's own fill (`RowOK`). With it go the trades not yet committed (`TradeOK`: a maker that is live,
at the price that its committed row has), the taker (`ArrivingOK`) and a POST_ONLY request that
has found nothing to match. The lemmas
`PlaceCommits`, `CancelCommits` and `AmendCommits` then give one step of `OrderLifecycle` for
each commit; every other step stutters. `ExecutesWithinLimits`, `PostOnlyNeverTakes` and
`ImmediateOrdersNeverRest` follow from the same invariant.

*Price-time priority (`OrderServiceProofs`, last section).* `SKIP LOCKED` lets a taker pass
over a maker that another request holds, so these theorems have the hypothesis `Alone`: there
are no two sessions. That is the case of the run `orders_serial`, for any number of orders,
requests and batches. A transaction that runs alone reads what is committed, but for what it
has filled itself (`CurrentOK`), and what it has filled has left the book. `BehindOK` is the
heart of it: a maker still to be traded with precedes none of those already traded with, and
of those in the batch it precedes only some that it is in the batch with. It survives the end
of a batch because the next one is taken from the front of what is left (`FirstOfIsAhead`), and
a trade because the loop takes the first of the batch. A batch is empty only when nobody is
left (`FirstOfIsAhead` again) or the taker wants nothing any more, so a taker that comes to
rest crosses nobody (`EndedOK`); a cancel or an amend is one of the lifecycle's, and changes
what crosses only by a price.

*Sums (`SumLemmas`).* The fold behind `SumFunctionOnSet` is a recursive function over the
subsets of a set. That it is defined, and each law of it, is shown by taking a smallest set
that would be an exception (`Smallest`, from the well-foundedness of the strict subset order)
and finding a smaller one. So sums need no induction theorem with an operator as parameter.

*Accounts (`LedgerProofs`).* `HInv` has three parts beside `LInv`. The committed trades account
for the committed rows (`LedgerOK`): `filled` of each order is the sum of its trades, and what
a user has of an asset is the opening balance and what the history's rows are worth. The
trades of a transaction that is matching account for what it has changed in the rows and
wallets that it holds (`BookedOK`): each locked order by what it was filled, each locked wallet
in total by what these trades are worth, and in its locked part by what the order rows account
for. And two sessions hold no wallet together, so that a commit adds the trades of one
transaction to sums that no other commit has touched since it locked. `LockedFor` is what one
order row accounts for; a commit of `AmendOrder` follows the rows but for `Repricing`, which
the theorem has as the property does. The entries of a list are joins; those of one user
with a side of a trade (`Once`) account for the wallets, and what the other joins of a trade
with oneself add (`MakerTwice`, `TakerTwice`) is its fee, once more. A list shorter than its
limit has all joins. `HistoryExplainsBalances` is of the wallets that have a
row: where there is none, an UPDATE changes nothing and the trade's worth is lost.
`LockedFundsFollowOrders` is about steps; from it and the empty start follow two invariants.
What an amend leaves behind is only ever of buys (`SellsLeaveNothing`), so the locked base is
always what the sells account for. And if no amend changes a price (`AmendsKeepPrices`), no
commit does (`PricesAreKept`), and the locked quote is what the buys account for too: the
missing re-pricing in `AmendOrder` is the only place where quote can be locked without an
order row that accounts for it.

*Debits (`LedgerProofs`, last part).* Prices are any integers here. That no commit overdraws a
wallet is not inductive for the committed wallets: what a commit installs has been checked,
credited and debited in several steps. `CInv` adds to `HInv` that what a transaction which is
matching has in each wallet it holds is not below zero, or not below what is committed, except
where the wallet's user has sold at a negative price among its trades; and this even after the
end of the taker, which takes back what a buy at a negative price was credited for the part it
has not filled (`Owed`). `lockFunds` and `AmendOrder` check before they debit; `settle` takes
from an available balance only where a seller pays (`SettleCredits`), and each trade leaves
the taker less to take back (`OwedShrinks`); a cancel gives back what is locked, which is
negative only for a buy at a negative price (`OwedNat`). So the two debits that the property
names are the only ones that can overdraw (`NoOverdraft`).

*Sessions (`SessionsProofs`).* `AccessRunsOut` is the strengthening of `AccessEndsWithSession`:
what a token still has to live and the time since its session ended are together at most
`AccessTTL`, and each tick moves one to the other. The rest says what each request relies on
at its program point and that the steps of others do not take it back (`Monotone`).

*The hubs and the cache.* `RunNeverPanics` needs that a connection which `Run` has not met is
neither in the map nor closed (`NewcomersAreFresh`). `InvalidatedBooksAreGone` is inductive with
the types. For the candles, `CountOK` says that a trade counted twice is older than the next
window, `WindowOK` that a punctual trade is in the next window, in this one or counted.

*Candles (`CandleHubProofs`).* `VInv` is about the symbols that no named mishap has disturbed.
For each of them (`Sound`) the stored candles are a chain, the current one continues it or has
the minute of its end, every candle has its shape, and the volume recorded is the sum of the
counts. Volume is not lost in the turn of a minute because of what the broadcaster still
knows of a symbol (`Known`): the candle it is about to store or to replace is the current
one, and so is the candle it has read for a trade, however the initialization of the symbol
interleaves. After a crash a candle may be stored again; it still has its open, and the upsert,
which leaves the open out, is then the same as an overwrite (`Saved`). `MinutesOK` says that
no candle is later than the minute that is current or about to be, so what is stored is no
later than what replaces it.

*Candles of longer intervals (`CandleHistoryProofs`).* The query's rows are the newest of the
table, newest first: `NewestFirst` is defined for each place, because in a finite set of minutes
every number of newer rows below its size occurs (`NewerFills`, by a smallest exception as in
`SumLemmas`). The fold of `aggregateCandles` is taken apart in the same way into its turns, and
`LoopOK` is the invariant of the loop: the candles are of later and later intervals, each is the
bar of the rows seen of its interval (`BarOf`: opens with the first, closes with the last, has
the extremes and the sum), and no row seen is left out. Rows that are newer than a row fetched
are fetched, so only the oldest interval of an answer can have rows that were not; and reversing
and cutting keep what the candles are. That is `OnlyTheOldestIsPartial`, for any table. When the
rows have no gap the intervals are consecutive numbers (`Consecutive`), and `FetchedFrom` says
how far back `limit` times `interval` rows reach, if there are so many: exactly `limit` whole
intervals when the last row ends one, into one interval more when it does not. Counting gives `UnbrokenHistoryIsExact`.

*Assumptions.* The types of the constants, opening balances not negative,
`Null` different from every row, candle and id, buffers that hold at least one message, token
lifetimes of at least one tick, tables of finitely many minutes (`HistoryAssumption`); and
`Alone` and `AmendsKeepPrices`, for the theorems that say so. `WalletRows` is
arbitrary, so the results hold for users without wallet rows too.

*Only model-checked*: liveness under fairness (`RequestsEnd`, `ConnectionsAreCleanedUp`,
`SubscribersHear`, `BroadcastsCatchUp`), which is out of the prover's reach. Every other property
of a passing run has a theorem.

## 5. What the code does not do

| Run | Where | What happens |
|---|---|---|
| `orders_market_buy` | `order_service.go:262`, `:316` | after matching, `taker.Amount` becomes what was bought, so `applyTIF` sees no remainder; the order stays live, its unspent quote stays locked, and a cancel does not return it |
| `orders_maker_remainder` | `order_service.go:237` | a partially filled maker is marked filled; its remainder leaves the book with its funds locked |
| `orders_amend_to_filled` | `order_service.go:460`, `:206` | an order amended to exactly its filled amount is selected again and again, and the taker's request never ends |
| `hub_send_on_closed` | `orderbook_handler.go:239` | an immediate book for a client that has left is sent on a closed channel; the process ends |
| `candles_late_trade` | `websocket_handler.go:486` | a trade that commits after a tick has fetched, with a `trade_time` before that tick, is in no candle |

Because of the second one, a live order with fills has only been filled as a taker; that is
the case in which amends and cancels meet a partial fill.

Seen while modelling, modelled as they are or left out, without a run: a FOK order keeps
its partial fills; an amended price may cross the book without matching and re-prices only
the change of the locked quote; amends do not invalidate the cached book; with
`SKIP LOCKED` two crossing orders placed at once may both rest; asks and bids are read by
two queries; only the seller's fee is charged although both are recorded; a price may be zero or
negative: the seller then pays (`order_service.go:296`), a buy is credited when it is placed
and debited when it is canceled, in both cases without a look at the balance, and a market
buy that meets a maker at a negative price selects it again and again (`RequestsEnd` is of
positive prices); a POST_ONLY order that finds nothing to match does not rest but is canceled
by `applyTIF` (`order_service.go:334`); updating a wallet
row that does not exist is silently nothing; without Redis a nil `*CacheService` in an
interface passes the nil test (`main.go:50`); a trade between a tick's `now` and its fetch is
in two ticks' updates (`CountedAtMostTwice` is what is left); trades of the last seconds of a
minute are counted in the next; `InitializeSymbolCandle` may wipe a candle that has volume
(`websocket_handler.go:358`); without any price a candle starts, and keeps its low, at 0;
`Client.handleMessage` keeps `symbolsLock` while it asks the database for a symbol
(`websocket_handler.go:290`), and `Run`, with every other client behind it, waits for that
lock in `filterCandles`; `GetCandles` fetches `limit` intervals' worth of rows, and when they
span one interval more, or with gaps several, it drops the *newest* (`market_repo.go:248`,
`UnbrokenHistoryIsExact` says by how much); a trade of a user with themself is listed four
times (`trade_repo.go:63`), and the LIMIT counts these rows; the fee listed for a buy was not charged; sign-in and refresh do not
ask whether the account is active; sign-out ignores a failed revocation (`authHandler.go:308`);
signing in again leaves the previous session live; a refresh that races a sign-out still
answers with an access token.

## 6. Plan

Done: the order service with its proofs and its refinement, the order book hub, the order
book cache, the candle hub, candle intervals, sessions with the authentication middleware,
balances and trade history; proofs for each of the state machines and for the candle intervals.

Proved: every safety and action property that a passing run checks.

Next, if the project grows: two sessions with `SKIP LOCKED`, and what priority is left, as a
weaker property that holds.

### Not modelled

- `login_activities`: written once for each sign-in, its error logged, and only listed.
- The fan-out of the candle hub: register, evict, unregister, pumps and subscriptions are the
  code of the order book hub, without its immediate sends; `OrderbookHub` models it.
- `CandleTracker` is not used by the program.
- `ListOrders`, `AuthMe` and the list of markets:
  queries for display.
- Start-up, routes, configuration, HTTP, JSON, password hashing and token signatures.
- Rounding of `float64`.
