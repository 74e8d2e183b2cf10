------------------------------ MODULE CandleHub ------------------------------
(***************************************************************************)
(* The price candles: Hub.StartCandleBroadcaster, which every two seconds  *)
(* folds the new trades into the current candle of their symbol, kept in   *)
(* Redis, and at the turn of a minute stores the candles and starts fresh  *)
(* ones; Hub.InitializeSymbolCandle, a goroutine started for a symbol that *)
(* has no candle; and the two stores.  A call of Redis or PostgreSQL is a  *)
(* step, and so is what fails in it.  The clock is coarse: MinuteLength    *)
(* instants make a minute, and a candle expires after Lifetime of them.    *)
(* Every trade has the quote amount 1: a volume counts trades.             *)
(***************************************************************************)
EXTENDS Integers, Sequences, FiniteSets, FiniteSetsExt

CONSTANTS
  Symbols,
  TradePrices,   \* bound: the prices of the trades, in the order of their commits
  MinuteLength,  \* instants in a minute
  Lifetime,      \* instants until a candle in Redis expires
  MaxDelay,      \* instants a trade may be stamped before its commit
  StartTime,     \* the first instant
  MaxTime,       \* bound: the last instant
  MaxMishaps,    \* bound: crashes of the server and calls that fail
  Null

ASSUME CandleAssumption ==
  /\ TradePrices \in Seq(Int)
  /\ MinuteLength \in Nat \ {0} /\ Lifetime \in Nat /\ MinuteLength < Lifetime
  /\ {MaxDelay, StartTime, MaxTime, MaxMishaps} \subseteq Nat
  /\ StartTime <= MaxTime
  /\ IsFiniteSet(Symbols)

VARIABLES
  clock,
  trades,     \* the committed trades
  candle,     \* candle:<symbol>:current in Redis
  active,     \* candles:active in Redis, the symbols whose candles are listed
  ohlcv,      \* the table ohlcv_1m: for each symbol, the candles of the minutes
  hub,        \* currentMinute, lastTradeCheck and subscribedSymbols
  tick,       \* where the broadcaster is, and its local variables
  inits,      \* the running InitializeSymbolCandle
  mishaps,
  fetched,    \* whether the broadcaster has looked for trades at this instant
  watching,   \* history: since when no trade has been skipped by a crash or a failure
  disturbed   \* history: symbols whose candle was expired, replaced or not stored

stores == <<candle, active, ohlcv>>
vars == <<clock, trades, stores, hub, tick, inits, mishaps, fetched, watching, disturbed>>

Times   == StartTime .. MaxTime
Minute(time) == time \div MinuteLength
Minutes == 0 .. Minute(MaxTime)

MaxTrades == Len(TradePrices)
Prices    == {TradePrices[i] : i \in 1 .. MaxTrades}

Trade  == [symbol : Symbols, price : Prices, time : Times,
           onTime : BOOLEAN, counted : Nat]
OHLCV  == [open : Prices \cup {0}, high : Prices \cup {0}, low : Prices \cup {0},
           close : Prices \cup {0}, volume : Nat]
Candle == [minute : Minutes, set : Times, bar : OHLCV]

ASSUME RowAssumption == Null \notin Candle \cup OHLCV

Tick == [pc : {"idle", "list", "roll", "reset", "turn", "minute", "fetch", "update", "write"},
         now : Times,
         old : [Symbols -> Candle \cup {Null}],
         symbol : Symbols \cup {Null},
         queue : SUBSET (1 .. MaxTrades),  \* the fetched trades still to be counted
         trade : 0 .. MaxTrades,           \* the one being counted
         read : Candle \cup {Null}]

Initializer == [symbol : Symbols, id : Nat, price : Prices \cup {0}, minute : Minutes,
                pc : {"has", "table", "trades", "minute", "write"}]

IdleTick == [pc |-> "idle", now |-> StartTime, old |-> [s \in Symbols |-> Null],
             symbol |-> Null, queue |-> {}, trade |-> 0, read |-> Null]

TypeOK ==
  /\ clock \in Times
  /\ trades \in Seq(Trade) /\ Len(trades) <= MaxTrades
  /\ candle \in [Symbols -> Candle \cup {Null}] /\ active \subseteq Symbols
  /\ ohlcv \in [Symbols -> [Minutes -> OHLCV \cup {Null}]]
  /\ hub \in [minute : Minutes, lastTradeCheck : Times, subscribed : SUBSET Symbols]
  /\ tick \in Tick
  /\ inits \subseteq Initializer /\ IsFiniteSet(inits)
  /\ mishaps \in 0 .. MaxMishaps
  /\ fetched \in BOOLEAN /\ watching \in Times /\ disturbed \subseteq Symbols

(* Fault: the minute is not truncated. *)
NewHubAtInstant == [minute |-> clock, lastTradeCheck |-> clock, subscribed |-> {}]

(* NewHub: nothing of the hub survives a crash. *)
NewHub == [minute |-> Minute(clock), lastTradeCheck |-> clock, subscribed |-> {}]

Init ==
  /\ clock = StartTime
  /\ trades = <<>>
  /\ candle = [s \in Symbols |-> Null] /\ active = {}
  /\ ohlcv = [s \in Symbols |-> [m \in Minutes |-> Null]]
  /\ hub = NewHub /\ tick = IdleTick /\ inits = {}
  /\ mishaps = 0
  /\ fetched = FALSE /\ watching = clock /\ disturbed = {}

-----------------------------------------------------------------------------
(* Candles *)

Flat(price) == [open |-> price, high |-> price, low |-> price, close |-> price, volume |-> 0]

(* Fault: the low is forgotten. *)
TakenWithoutLow(bar, price) ==
  [bar EXCEPT !.high = Max({bar.high, price}), !.close = price, !.volume = @ + 1]

Taken(bar, price) ==
  [bar EXCEPT !.high = Max({bar.high, price}), !.low = Min({bar.low, price}),
              !.close = price, !.volume = @ + 1]

(* ON CONFLICT leaves the open of a stored candle as it is. *)
Upsert(stored, bar) == IF stored = Null THEN bar ELSE [bar EXCEPT !.open = stored.open]

(* A call fails, or the server crashes. *)
Mishap == mishaps < MaxMishaps /\ mishaps' = mishaps + 1

(* HSET and EXPIRE, then SADD: when that fails, the candle is there and not listed. *)
SetCandle(s, minute, bar) ==
  /\ candle' = [candle EXCEPT ![s] = [minute |-> minute, set |-> clock, bar |-> bar]]
  /\ \/ active' = active \cup {s} /\ UNCHANGED mishaps
     \/ Mishap /\ UNCHANGED active

-----------------------------------------------------------------------------
(* The environment *)

Advance ==
  /\ clock < MaxTime /\ clock' = clock + 1
  /\ fetched' = FALSE
  /\ UNCHANGED <<trades, stores, hub, tick, inits, mishaps, watching, disturbed>>

(* From when the next fetch will see trades. *)
NextWindow == IF tick.pc \in {"update", "write"} THEN tick.now ELSE hub.lastTradeCheck

(* A trade is stamped inside the transaction that matches the orders, and is seen
   only once that has committed: onTime says that the next fetch includes it. *)
CommitTrade(s, time) ==
  /\ Len(trades) < MaxTrades
  /\ time <= clock /\ clock <= time + MaxDelay
  /\ trades' = Append(trades, [symbol |-> s, price |-> TradePrices[Len(trades) + 1], time |-> time,
                               onTime |-> time >= NextWindow, counted |-> 0])
  /\ UNCHANGED <<clock, stores, hub, tick, inits, mishaps, fetched, watching, disturbed>>

Expire(s) ==
  /\ candle[s] # Null /\ clock >= candle[s].set + Lifetime
  /\ candle' = [candle EXCEPT ![s] = Null]
  /\ disturbed' = disturbed \cup {s}
  /\ UNCHANGED <<clock, trades, active, ohlcv, hub, tick, inits, mishaps, fetched, watching>>

Crash ==
  /\ Mishap
  /\ hub' = NewHub /\ tick' = IdleTick /\ inits' = {}
  /\ watching' = clock
  /\ UNCHANGED <<clock, trades, stores, fetched, disturbed>>

-----------------------------------------------------------------------------
(* InitializeSymbolCandle *)

Spawned(symbols) ==
  inits \cup {[symbol |-> s, pc |-> "has", price |-> 0, minute |-> 0,
               id |-> CHOOSE i \in 0 .. Cardinality(inits) :
                        ~ \E g \in inits : g.symbol = s /\ g.id = i] : s \in symbols}

(* handleMessage: the first subscription to a symbol, by any client. *)
Subscribe(s) ==
  /\ s \notin hub.subscribed
  /\ hub' = [hub EXCEPT !.subscribed = @ \cup {s}]
  /\ inits' = Spawned({s})
  /\ UNCHANGED <<clock, trades, stores, tick, mishaps, fetched, watching, disturbed>>

Continue(g, h) == inits' = (inits \ {g}) \cup {h}

InitExists(g) ==
  /\ g.pc = "has" /\ candle[g.symbol] # Null
  /\ inits' = inits \ {g}
  /\ UNCHANGED <<clock, trades, stores, hub, tick, mishaps, fetched, watching, disturbed>>

InitMissing(g) ==
  /\ g.pc = "has" /\ candle[g.symbol] = Null
  /\ Continue(g, [g EXCEPT !.pc = "table"])
  /\ UNCHANGED <<clock, trades, stores, hub, tick, mishaps, fetched, watching, disturbed>>

(* EXISTS fails: the candle is taken to be missing. *)
InitCheckFails(g) ==
  /\ g.pc = "has" /\ Mishap
  /\ Continue(g, [g EXCEPT !.pc = "table"])
  /\ UNCHANGED <<clock, trades, stores, hub, tick, fetched, watching, disturbed>>

TradesOf(s) == {i \in DOMAIN trades : trades[i].symbol = s}
Latest(S)   == {i \in S : \A j \in S : trades[j].time <= trades[i].time}
Stored(s)   == {m \in Minutes : ohlcv[s][m] # Null}
Newest(S)   == {m \in S : \A k \in S : k <= m}

(* GetCandles: the close of the newest stored candle.  When there is none, or the
   table cannot be read, the trades are asked. *)
InitFromTable(g) ==
  /\ g.pc = "table"
  /\ \/ /\ \E m \in Newest(Stored(g.symbol)) :
              Continue(g, [g EXCEPT !.pc = "minute", !.price = ohlcv[g.symbol][m].close])
        /\ UNCHANGED mishaps
     \/ /\ Continue(g, [g EXCEPT !.pc = "trades"])
        /\ IF Stored(g.symbol) = {} THEN UNCHANGED mishaps ELSE Mishap
  /\ UNCHANGED <<clock, trades, stores, hub, tick, fetched, watching, disturbed>>

(* The trades of the last 24 hours. *)
Recent(s) == {i \in TradesOf(s) : trades[i].time + 24 * 60 * MinuteLength >= clock}

(* GetLatestTrades: the price of the last trade.  When there is none, or the trades
   cannot be read, the candle opens at 0. *)
InitFromTrades(g) ==
  /\ g.pc = "trades"
  /\ \/ /\ \E i \in Latest(Recent(g.symbol)) :
              Continue(g, [g EXCEPT !.pc = "minute", !.price = trades[i].price])
        /\ UNCHANGED mishaps
     \/ /\ Continue(g, [g EXCEPT !.pc = "minute"])
        /\ IF Recent(g.symbol) = {} THEN UNCHANGED mishaps ELSE Mishap
  /\ UNCHANGED <<clock, trades, stores, hub, tick, fetched, watching, disturbed>>

(* h.currentMinute is read when the price has come, and no lock is held. *)
InitMinute(g) ==
  /\ g.pc = "minute"
  /\ Continue(g, [g EXCEPT !.pc = "write", !.minute = hub.minute])
  /\ UNCHANGED <<clock, trades, stores, hub, tick, mishaps, fetched, watching, disturbed>>

(* The candle may have appeared meanwhile: it is replaced.  If this fails, nobody
   tries again before the minute turns. *)
InitReset(g) ==
  /\ g.pc = "write"
  /\ \/ /\ SetCandle(g.symbol, g.minute, Flat(g.price))
        /\ disturbed' = disturbed \cup IF candle[g.symbol] = Null THEN {} ELSE {g.symbol}
     \/ Mishap /\ UNCHANGED <<candle, active, disturbed>>
  /\ inits' = inits \ {g}
  /\ UNCHANGED <<clock, trades, ohlcv, hub, tick, fetched, watching>>

InitStep(g) ==
  \/ InitExists(g) \/ InitMissing(g) \/ InitCheckFails(g)
  \/ InitFromTable(g) \/ InitFromTrades(g) \/ InitMinute(g) \/ InitReset(g)

-----------------------------------------------------------------------------
(* StartCandleBroadcaster *)

Quiet == UNCHANGED <<clock, inits>>

(* The ticker; two ticks are never at the same instant. *)
TickStart ==
  /\ tick.pc = "idle" /\ ~ fetched
  /\ tick' = [tick EXCEPT !.now = clock,
                          !.pc = IF Minute(clock) > hub.minute THEN "list" ELSE "fetch"]
  /\ UNCHANGED <<trades, stores, hub, mishaps, fetched, watching, disturbed>> /\ Quiet

(* What is done after the candles in old have been handled. *)
Rolling(old) == IF \A s \in Symbols : old[s] = Null THEN "turn" ELSE "roll"

(* The candles of the active symbols; those that cannot be read are left out. *)
Listed(readable) == [s \in Symbols |-> IF s \in active \cap readable THEN candle[s] ELSE Null]

(* GetAllCandles; when SMEMBERS fails, it is as if none were readable. *)
ListOld ==
  /\ tick.pc = "list"
  /\ \E readable \in SUBSET Symbols :
       /\ tick' = [tick EXCEPT !.pc = Rolling(Listed(readable)), !.old = Listed(readable)]
       /\ IF readable = Symbols THEN UNCHANGED mishaps ELSE Mishap
  /\ UNCHANGED <<trades, stores, hub, fetched, watching, disturbed>> /\ Quiet

Old == {s \in Symbols : tick.old[s] # Null}

Handled(s) == LET old == [tick.old EXCEPT ![s] = Null]
              IN  tick' = [tick EXCEPT !.pc = Rolling(old), !.old = old, !.symbol = Null]

(* ValidateSymbol fails or no longer knows the symbol: neither stored nor reset. *)
SkipOld(s) ==
  /\ tick.pc = "roll" /\ s \in Old
  /\ Mishap
  /\ Handled(s)
  /\ UNCHANGED <<trades, stores, hub, fetched, watching, disturbed>> /\ Quiet

(* The minute is the one the candle was opened for, whatever the clock says. *)
SaveOHLCV(s) ==
  LET c == tick.old[s]
  IN  ohlcv' = [ohlcv EXCEPT ![s][c.minute] = Upsert(@, c.bar)]

SaveOld(s) ==
  /\ tick.pc = "roll" /\ s \in Old
  /\ tick' = [tick EXCEPT !.pc = "reset", !.symbol = s]
  /\ \/ SaveOHLCV(s) /\ UNCHANGED <<mishaps, disturbed>>
     \/ Mishap /\ disturbed' = disturbed \cup {s} /\ UNCHANGED ohlcv
  /\ UNCHANGED <<trades, candle, active, hub, fetched, watching>> /\ Quiet

(* Fault: the fresh candle is opened for the minute that has just ended. *)
ResetForOldMinute ==
  /\ tick.pc = "reset"
  /\ SetCandle(tick.symbol, hub.minute, Flat(tick.old[tick.symbol].bar.close))
  /\ Handled(tick.symbol)
  /\ UNCHANGED <<trades, ohlcv, hub, fetched, watching, disturbed>> /\ Quiet

(* Fault: the fresh candle opens at the open of the last. *)
ResetAtOpen ==
  /\ tick.pc = "reset"
  /\ SetCandle(tick.symbol, Minute(tick.now), Flat(tick.old[tick.symbol].bar.open))
  /\ Handled(tick.symbol)
  /\ UNCHANGED <<trades, ohlcv, hub, fetched, watching, disturbed>> /\ Quiet

(* Stored or not, the candle is replaced; its failure to be is not noticed. *)
ResetOld ==
  /\ tick.pc = "reset"
  /\ \/ SetCandle(tick.symbol, Minute(tick.now), Flat(tick.old[tick.symbol].bar.close))
     \/ Mishap /\ UNCHANGED <<candle, active>>
  /\ Handled(tick.symbol)
  /\ UNCHANGED <<trades, ohlcv, hub, fetched, watching, disturbed>> /\ Quiet

(* Missing candles are initialized by goroutines, which may still read the minute
   that is about to end.  A candle whose EXISTS fails counts as missing. *)
SpawnMissing ==
  /\ tick.pc = "turn"
  /\ \E unknown \in SUBSET hub.subscribed :
       /\ inits' = Spawned({s \in hub.subscribed : candle[s] = Null} \cup unknown)
       /\ IF unknown = {} THEN UNCHANGED mishaps ELSE Mishap
  /\ tick' = [tick EXCEPT !.pc = "minute"]
  /\ UNCHANGED <<clock, trades, stores, hub, fetched, watching, disturbed>>

TurnMinute ==
  /\ tick.pc = "minute"
  /\ hub' = [hub EXCEPT !.minute = Minute(tick.now)]
  /\ tick' = [tick EXCEPT !.pc = "fetch"]
  /\ UNCHANGED <<trades, stores, mishaps, fetched, watching, disturbed>> /\ Quiet

(* Fault: a trade at the very instant of the last check is not asked for. *)
TradesAfter(since) == {i \in DOMAIN trades : trades[i].time > since}

TradesSince(since) == {i \in DOMAIN trades : trades[i].time >= since}

(* GetLatestTrades; when it fails, the trades of the interval are never looked at. *)
Fetch ==
  /\ tick.pc = "fetch"
  /\ fetched' = TRUE
  /\ \/ /\ tick' = [tick EXCEPT !.pc = "update", !.queue = TradesSince(hub.lastTradeCheck)]
        /\ UNCHANGED <<mishaps, watching>>
     \/ /\ tick' = [tick EXCEPT !.pc = "update"]
        /\ Mishap /\ watching' = tick.now
  /\ UNCHANGED <<trades, stores, hub, disturbed>> /\ Quiet

(* The trades come in the order of their times. *)
FirstTrade == {i \in tick.queue : \A j \in tick.queue : trades[i].time <= trades[j].time}

(* UpdateCandleWithTrade reads the candle in one call and stores it in another;
   when either fails, the trade is passed over. *)
ReadCandle(i) ==
  /\ tick.pc = "update" /\ i \in FirstTrade
  /\ tick' = [tick EXCEPT !.pc = "write", !.queue = @ \ {i}, !.trade = i,
                          !.read = candle[trades[i].symbol]]
  /\ UNCHANGED <<trades, stores, hub, mishaps, fetched, watching, disturbed>> /\ Quiet

Updated(trade) ==
  IF tick.read = Null
  THEN SetCandle(trade.symbol, hub.minute, [Flat(trade.price) EXCEPT !.volume = 1])
  ELSE SetCandle(trade.symbol, tick.read.minute, Taken(tick.read.bar, trade.price))

WriteCandle ==
  LET i == tick.trade
  IN  /\ tick.pc = "write"
      /\ tick' = [tick EXCEPT !.pc = "update", !.trade = 0, !.read = Null]
      /\ \/ /\ Updated(trades[i])
            /\ trades' = [trades EXCEPT ![i].counted = @ + 1]
            /\ UNCHANGED watching
         \/ Mishap /\ watching' = tick.now /\ UNCHANGED <<trades, candle, active>>
      /\ UNCHANGED <<ohlcv, hub, fetched, disturbed>> /\ Quiet

(* Fault: the time of the check is not kept. *)
TickEndsUnchecked ==
  /\ tick.pc = "update" /\ tick.queue = {}
  /\ tick' = IdleTick
  /\ UNCHANGED <<trades, stores, hub, mishaps, fetched, watching, disturbed>> /\ Quiet

(* The next check starts where this tick did, before it fetched; the candles are
   broadcast. *)
TickEnds ==
  /\ tick.pc = "update" /\ tick.queue = {}
  /\ hub' = [hub EXCEPT !.lastTradeCheck = tick.now]
  /\ tick' = IdleTick
  /\ UNCHANGED <<trades, stores, mishaps, fetched, watching, disturbed>> /\ Quiet

-----------------------------------------------------------------------------
Broadcaster ==
  \/ TickStart \/ ListOld \/ ResetOld \/ SpawnMissing \/ TurnMinute
  \/ Fetch \/ WriteCandle \/ TickEnds
  \/ \E s \in Symbols : SkipOld(s) \/ SaveOld(s)
  \/ \E i \in tick.queue : ReadCandle(i)

Environment ==
  \/ Advance \/ Crash
  \/ \E s \in Symbols : Expire(s) \/ Subscribe(s)
  \/ \E s \in Symbols, time \in Times : CommitTrade(s, time)

Next == Broadcaster \/ Environment \/ \E g \in inits : InitStep(g)

Spec == Init /\ [][Next]_vars

-----------------------------------------------------------------------------
(* Properties *)

Watched(t) == t.time >= watching /\ t.time < hub.lastTradeCheck

(* Every trade that the next fetch could see when it committed is counted in a
   candle, unless the server crashed or a call failed since: the window between two
   checks leaves no gap, whatever the ticks are late. *)
PunctualTradesAreCounted ==
  \A i \in DOMAIN trades :
    Watched(trades[i]) /\ trades[i].onTime => trades[i].counted > 0

(* "Fetch trades since last check ... Update candles with new trades": a trade of a
   time that has been checked is in a candle (websocket_handler.go:475). *)
EveryTradeIsCounted ==
  \A i \in DOMAIN trades : Watched(trades[i]) => trades[i].counted > 0

(* A trade committed while a tick is under way is fetched by that tick and again by
   the next, whose window starts where the first tick started; by no third. *)
CountedAtMostTwice == \A i \in DOMAIN trades : trades[i].counted <= 2

(* The volume of a symbol in the stored candles and in the current one, which is yet
   to replace what is stored for its minute. *)
RecordedVolume(s) ==
  LET past == IF candle[s] = Null THEN Stored(s) ELSE Stored(s) \ {candle[s].minute}
  IN  (IF candle[s] = Null THEN 0 ELSE candle[s].bar.volume)
      + SumFunctionOnSet([m \in past |-> ohlcv[s][m].volume], past)

(* No volume is lost or made up between Redis and the table, by a turn of the minute,
   a crash in the middle of one, a candle stored again or one skipped, except where
   the candle expired, was replaced by a late initialization or could not be stored. *)
VolumeIsConserved ==
  \A s \in Symbols \ disturbed :
    RecordedVolume(s) = SumFunctionOnSet([i \in TradesOf(s) |-> trades[i].counted], TradesOf(s))

InShape(bar) ==
  /\ bar.low <= bar.open /\ bar.open <= bar.high
  /\ bar.low <= bar.close /\ bar.close <= bar.high

(* Open and close are between low and high, in a stored candle too, although the open
   of one stored again is not updated with the rest. *)
CandlesAreInShape ==
  \A s \in Symbols \ disturbed :
    /\ candle[s] # Null => InShape(candle[s].bar)
    /\ \A m \in Stored(s) : InShape(ohlcv[s][m])

(* "use last close as new open": a stored candle opens where the one stored before it
   closed, also when that one was stored again after a crash or the turn was skipped. *)
CandlesAreContiguous ==
  \A s \in Symbols \ disturbed : \A m, n \in Stored(s) :
    (m < n /\ ~ \E k \in Stored(s) : m < k /\ k < n)
      => ohlcv[s][n].open = ohlcv[s][m].close
=============================================================================
