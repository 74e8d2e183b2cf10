--------------------------- MODULE CandleHubProofs ---------------------------
(***************************************************************************)
(* Proofs about CandleHub, for any symbols, prices, clocks and number of   *)
(* mishaps: every variable keeps its type, no trade is counted a third     *)
(* time, and the windows of the ticks leave no gap between them; and of    *)
(* the candles that the hub holds, Redis has and ohlcv_1m keeps: no volume *)
(* is lost or made but by a named mishap, each has the shape of a candle,  *)
(* and those of consecutive minutes meet.                                  *)
(***************************************************************************)
EXTENDS CandleHub, SumLemmas, SequenceTheorems

-----------------------------------------------------------------------------
(* Clocks and prices *)

(* A later instant is in no earlier minute. *)
LEMMA DivMono ==
  ASSUME NEW n \in Nat \ {0}, NEW a \in Nat, NEW b \in Nat, a <= b
  PROVE  a \div n \in Nat /\ a \div n <= b \div n
  <1> DEFINE p == a \div n
             q == b \div n
  <1>1. p \in Nat /\ q \in Nat /\ a = n * p + (a % n) /\ b = n * q + (b % n)
        /\ a % n \in 0 .. n - 1 /\ b % n \in 0 .. n - 1
    OBVIOUS
  <1> HIDE DEF p, q
  <1>2. p <= q
    <2> SUFFICES ASSUME p >= q + 1 PROVE FALSE BY <1>1
    <2>1. n * p >= n * (q + 1) BY <1>1
    <2>2. n * (q + 1) = n * q + n BY <1>1
    <2> QED BY <1>1, <2>1, <2>2
  <1> QED BY <1>1, <1>2 DEF p, q

(* Every instant has its minute. *)
LEMMA MinuteOK == ASSUME NEW time \in Times PROVE Minute(time) \in Minutes
  BY CandleAssumption, DivMono DEF Times, Minute, Minutes

(* Prices can be compared. *)
LEMMA PricesAreInt == Prices \subseteq Int
  BY CandleAssumption DEF Prices, MaxTrades

(* The price of an opened candle is one of a trade, or 0. *)
LEMMA OpeningPrice == ASSUME NEW p \in Prices \cup {0} PROVE p \in Int
  BY PricesAreInt

(* The larger and the smaller of two prices. *)
LEMMA MaxOf ==
  ASSUME NEW S \in SUBSET Int, NEW a \in S, NEW b \in S
  PROVE  Max({a, b}) \in S /\ Min({a, b}) \in S
  <1>1. \E x \in {a, b} : \A y \in {a, b} : x >= y OBVIOUS
  <1>2. \E x \in {a, b} : \A y \in {a, b} : x <= y OBVIOUS
  <1>3. Max({a, b}) \in {a, b} BY <1>1 DEF Max
  <1>4. Min({a, b}) \in {a, b} BY <1>2 DEF Min
  <1> QED BY <1>3, <1>4

(* Candles are made of prices. *)
LEMMA FlatOK == ASSUME NEW p \in Prices \cup {0} PROVE Flat(p) \in OHLCV
  BY DEF Flat, OHLCV

(* A candle that has taken a trade is a candle. *)
LEMMA TakenOK ==
  ASSUME NEW bar \in OHLCV, NEW p \in Prices PROVE Taken(bar, p) \in OHLCV
  <1> DEFINE S    == Prices \cup {0}
             high == Max({bar.high, p})
             low  == Min({bar.low, p})
  <1>1. S \in SUBSET Int BY PricesAreInt
  <1>2. bar.high \in S /\ bar.low \in S /\ p \in S /\ bar.volume + 1 \in Nat BY DEF OHLCV
  <1> HIDE DEF S
  <1>3. high \in S /\ low \in S BY <1>1, <1>2, MaxOf
  <1>4. Taken(bar, p) = [bar EXCEPT !.high = high, !.low = low, !.close = p,
                                    !.volume = bar.volume + 1]
    BY DEF Taken
  <1> HIDE DEF high, low
  <1> QED BY <1>2, <1>3, <1>4 DEF OHLCV, S

-----------------------------------------------------------------------------
(* Goroutines *)

(* There is always a number that no running initializer of the symbol has. *)
LEMMA FreshId ==
  ASSUME IsFiniteSet(inits), NEW s
  PROVE  (CHOOSE i \in 0 .. Cardinality(inits) : ~ \E g \in inits : g.symbol = s /\ g.id = i) \in Nat
  <1> DEFINE n == Cardinality(inits)
             S == 0 .. n
  <1>1. n \in Nat BY FS_CardinalityType
  <1>2. \E i \in S : ~ \E g \in inits : g.symbol = s /\ g.id = i
    <2> SUFFICES ASSUME \A i \in S : \E g \in inits : g.symbol = s /\ g.id = i PROVE FALSE
      OBVIOUS
    <2> DEFINE f == [i \in S |-> CHOOSE g \in inits : g.symbol = s /\ g.id = i]
    <2> HIDE DEF n
    <2>1. \A i \in S : f[i] \in inits /\ f[i].id = i OBVIOUS
    <2>2. f \in [S -> inits] BY <2>1
    <2>3. IsFiniteSet(S) /\ Cardinality(S) = n + 1 BY <1>1, FS_Interval
    <2> HIDE DEF f, S
    <2>4. n < n + 1 /\ n = Cardinality(inits) BY <1>1 DEF n
    <2>5. \E x, y \in S : x # y /\ f[x] = f[y] BY <2>2, <2>3, <2>4, FS_PigeonHole
    <2> QED BY <2>1, <2>5
  <1> QED BY <1>1, <1>2

(* Spawned goroutines are finitely many. *)
LEMMA SpawnedOK ==
  ASSUME TypeOK, NEW S \in SUBSET Symbols
  PROVE  Spawned(S) \subseteq Initializer /\ IsFiniteSet(Spawned(S))
  <1> DEFINE id(s)  == CHOOSE i \in 0 .. Cardinality(inits) :
                         ~ \E g \in inits : g.symbol = s /\ g.id = i
             new(s) == [symbol |-> s, pc |-> "has", price |-> 0, minute |-> 0, id |-> id(s)]
             T      == {new(s) : s \in S}
  <1>1. IsFiniteSet(inits) /\ inits \subseteq Initializer BY DEF TypeOK
  <1>2. \A s \in S : id(s) \in Nat BY <1>1, FreshId
  <1>3. Spawned(S) = inits \cup T BY DEF Spawned
  <1> HIDE DEF id
  <1>4. 0 \in Minutes BY CandleAssumption, DivMono DEF Minutes, Minute
  <1>5. T \subseteq Initializer BY <1>2, <1>4 DEF Initializer
  <1>6. IsFiniteSet(T)
    <2> DEFINE f == [s \in S |-> new(s)]
    <2>1. IsFiniteSet(S) BY CandleAssumption, FS_Subset
    <2>2. f \in Surjection(S, T) BY DEF Surjection
    <2> HIDE DEF f, T
    <2> QED BY <2>1, <2>2, FS_Surjection
  <1> QED BY <1>1, <1>3, <1>5, <1>6, FS_Union

-----------------------------------------------------------------------------
(* Types *)

(* What the broadcaster knows at each of its program points. *)
TickOK ==
  /\ tick.pc = "reset" => tick.symbol \in Symbols /\ tick.old[tick.symbol] # Null
  /\ tick.queue \subseteq DOMAIN trades
  /\ tick.pc = "write" => tick.trade \in DOMAIN trades \ tick.queue
  /\ tick.pc \notin {"update", "write"} => tick.queue = {}
  /\ tick.now <= clock /\ hub.lastTradeCheck <= clock
  /\ tick.pc # "idle" => hub.lastTradeCheck <= tick.now

THInv == TypeOK /\ TickOK

(* Between two ticks the broadcaster's variables have their types. *)
LEMMA IdleTickOK == IdleTick \in Tick /\ StartTime \in Times
  <1>1. StartTime \in Times BY CandleAssumption DEF Times
  <1>2. 0 \in 0 .. MaxTrades BY CandleAssumption DEF MaxTrades
  <1> QED BY <1>1, <1>2 DEF IdleTick, Tick

(* A hub that has just started has its types. *)
LEMMA TypesAtStart == Init => THInv
  <1> SUFFICES ASSUME Init PROVE THInv OBVIOUS
  <1>1. clock \in Times /\ Minute(clock) \in Minutes
    BY IdleTickOK, MinuteOK DEF Init
  <1>2. IsFiniteSet({}) BY FS_EmptySet
  <1>3. TypeOK
    <2>1. MaxTrades \in Nat /\ MaxMishaps \in Nat BY CandleAssumption DEF MaxTrades
    <2>2. trades \in Seq(Trade) /\ Len(trades) <= MaxTrades BY <2>1 DEF Init
    <2>3. candle \in [Symbols -> Candle \cup {Null}] /\ active \subseteq Symbols BY DEF Init
    <2>4. ohlcv \in [Symbols -> [Minutes -> OHLCV \cup {Null}]] BY DEF Init
    <2>5. hub \in [minute : Minutes, lastTradeCheck : Times, subscribed : SUBSET Symbols]
      BY <1>1 DEF Init, NewHub
    <2>6. tick \in Tick /\ inits = {} /\ mishaps \in 0 .. MaxMishaps
      BY <2>1, IdleTickOK DEF Init
    <2>7. fetched \in BOOLEAN /\ watching \in Times /\ disturbed \subseteq Symbols
      BY <1>1 DEF Init
    <2> QED BY <1>1, <1>2, <2>2, <2>3, <2>4, <2>5, <2>6, <2>7 DEF TypeOK
  <1>4. TickOK
    BY <1>1, CandleAssumption DEF Init, TickOK, NewHub, IdleTick, Times
  <1> QED BY <1>3, <1>4 DEF THInv

(* Nothing that an action leaves alone needs to be looked at again. *)
LEMMA EnvironmentTypes == ASSUME THInv, Environment PROVE THInv'
  <1>1. clock \in Nat /\ mishaps \in 0 .. MaxMishaps /\ MaxMishaps \in Nat /\ MaxTime \in Nat
        /\ MaxTrades \in Nat
    BY CandleAssumption DEF THInv, TypeOK, Times, MaxTrades
  <1>2. Mishap => mishaps' \in 0 .. MaxMishaps BY <1>1 DEF Mishap
  <1>3. CASE Advance
    <2>1. clock' \in Times BY <1>1, <1>3, CandleAssumption DEF Advance, THInv, TypeOK, Times
    <2>2. TickOK' BY <1>1, <1>3 DEF Advance, THInv, TypeOK, TickOK, Tick, Times, stores
    <2> QED BY <1>3, <2>1, <2>2 DEF Advance, THInv, TypeOK, stores
  <1>4. CASE Crash
    <2>1. /\ hub' = NewHub /\ tick' = IdleTick /\ inits' = {} /\ watching' = clock
          /\ UNCHANGED <<clock, trades, candle, active, ohlcv, fetched, disturbed>> /\ Mishap
      BY <1>4 DEF Crash, stores
    <2>2. NewHub \in [minute : Minutes, lastTradeCheck : Times, subscribed : SUBSET Symbols]
      BY MinuteOK DEF NewHub, THInv, TypeOK
    <2>3. TypeOK' BY <1>2, <2>1, <2>2, IdleTickOK, FS_EmptySet DEF THInv, TypeOK
    <2>4. StartTime <= clock BY DEF THInv, TypeOK, Times
    <2>5. TickOK' BY <1>1, <2>1, <2>4 DEF TickOK, IdleTick, NewHub
    <2> QED BY <2>3, <2>5 DEF THInv
  <1>5. ASSUME NEW s \in Symbols, Expire(s) PROVE THInv'
    <2>1. candle' \in [Symbols -> Candle \cup {Null}] /\ disturbed' \subseteq Symbols
      BY <1>5 DEF Expire, THInv, TypeOK
    <2> QED BY <1>5, <2>1 DEF Expire, THInv, TypeOK, TickOK
  <1>6. ASSUME NEW s \in Symbols, Subscribe(s) PROVE THInv'
    <2>1. inits' \subseteq Initializer /\ IsFiniteSet(inits')
      BY <1>6, SpawnedOK DEF Subscribe, THInv
    <2>2. hub' \in [minute : Minutes, lastTradeCheck : Times, subscribed : SUBSET Symbols]
          /\ hub'.lastTradeCheck = hub.lastTradeCheck
      BY <1>6 DEF Subscribe, THInv, TypeOK
    <2> QED BY <1>6, <2>1, <2>2 DEF Subscribe, THInv, TypeOK, TickOK, stores
  <1>7. ASSUME NEW s \in Symbols, NEW time \in Times, CommitTrade(s, time) PROVE THInv'
    <2>0. PICK n \in Nat : n = Len(trades) BY <1>1 DEF THInv, TypeOK
    <2> DEFINE x == [symbol |-> s, price |-> TradePrices[n + 1], time |-> time,
                     onTime |-> time >= NextWindow, counted |-> 0]
    <2>1. trades \in Seq(Trade) /\ n \in Nat /\ n < MaxTrades /\ trades' = Append(trades, x)
      BY <1>7, <2>0 DEF CommitTrade, THInv, TypeOK
    <2>2. x \in Trade
      <3>1. n + 1 \in 1 .. MaxTrades BY <1>1, <2>1
      <3>2. TradePrices[n + 1] \in Prices BY <3>1 DEF Prices
      <3>3. (time >= NextWindow) \in BOOLEAN OBVIOUS
      <3> QED BY <3>2, <3>3 DEF Trade
    <2> HIDE DEF x
    <2>3. trades' \in Seq(Trade) /\ Len(trades') = n + 1 /\ DOMAIN trades \subseteq DOMAIN trades'
      BY <2>0, <2>1, <2>2
    <2>4. TypeOK' BY <1>1, <1>7, <2>1, <2>3 DEF CommitTrade, THInv, TypeOK, stores
    <2>5. TickOK' BY <1>7, <2>3 DEF CommitTrade, THInv, TickOK
    <2> QED BY <2>4, <2>5 DEF THInv
  <1> QED BY <1>3, <1>4, <1>5, <1>6, <1>7 DEF Environment

(* The prices that an initialization may find. *)
LEMMA FoundPrices ==
  ASSUME TypeOK, NEW s \in Symbols
  PROVE  /\ \A m \in Newest(Stored(s)) : ohlcv[s][m].close \in Prices \cup {0}
         /\ \A i \in Latest(Recent(s)) : trades[i].price \in Prices \cup {0}
  <1>1. \A i \in DOMAIN trades : trades[i] \in Trade BY DEF TypeOK
  <1>2. \A m \in Stored(s) : ohlcv[s][m] \in OHLCV BY DEF Stored, TypeOK
  <1> QED BY <1>1, <1>2 DEF Latest, Recent, TradesOf, Trade, Newest, OHLCV

(* The initialization of a candle keeps the types, whatever price it finds. *)
LEMMA InitTypes == ASSUME THInv, NEW g \in inits, InitStep(g) PROVE THInv'
  <1>1. g \in Initializer /\ IsFiniteSet(inits) /\ inits \subseteq Initializer BY DEF THInv, TypeOK
  <1>2. Mishap => mishaps' \in 0 .. MaxMishaps
    BY CandleAssumption DEF Mishap, THInv, TypeOK
  <1>3. IsFiniteSet(inits \ {g}) BY <1>1, FS_Subset
  <1>4. \A h \in Initializer : Continue(g, h) => inits' \subseteq Initializer /\ IsFiniteSet(inits')
    BY <1>1, <1>3, FS_AddElement DEF Continue
  <1>5. CASE InitExists(g)
    BY <1>1, <1>3, <1>5 DEF InitExists, THInv, TypeOK, TickOK, stores
  <1>6. CASE InitMissing(g) \/ InitCheckFails(g)
    <2>1. [g EXCEPT !.pc = "table"] \in Initializer BY <1>1 DEF Initializer
    <2>2. inits' \subseteq Initializer /\ IsFiniteSet(inits')
      BY <1>4, <1>6, <2>1 DEF InitMissing, InitCheckFails
    <2> QED BY <1>2, <1>6, <2>2 DEF InitMissing, InitCheckFails, THInv, TypeOK, TickOK, stores
  <1>7. CASE InitFromTable(g)
    <2>1. PICK h \in Initializer : Continue(g, h)
      <3>1. CASE Continue(g, [g EXCEPT !.pc = "trades"]) BY <1>1, <3>1 DEF Initializer
      <3>2. ASSUME NEW m \in Newest(Stored(g.symbol)),
                   Continue(g, [g EXCEPT !.pc = "minute", !.price = ohlcv[g.symbol][m].close])
            PROVE  \E h \in Initializer : Continue(g, h)
        <4>1. ohlcv[g.symbol][m].close \in Prices \cup {0}
          BY <1>1, FoundPrices DEF THInv, Initializer
        <4>2. [g EXCEPT !.pc = "minute", !.price = ohlcv[g.symbol][m].close] \in Initializer
          BY <1>1, <4>1 DEF Initializer
        <4> QED BY <3>2, <4>2
      <3> QED BY <1>7, <3>1, <3>2 DEF InitFromTable
    <2>2. inits' \subseteq Initializer /\ IsFiniteSet(inits') BY <1>4, <2>1
    <2>3. mishaps' \in 0 .. MaxMishaps BY <1>2, <1>7 DEF InitFromTable, THInv, TypeOK
    <2> QED BY <1>7, <2>2, <2>3 DEF InitFromTable, THInv, TypeOK, TickOK, stores
  <1>8. CASE InitFromTrades(g)
    <2>1. PICK h \in Initializer : Continue(g, h)
      <3>1. CASE Continue(g, [g EXCEPT !.pc = "minute"]) BY <1>1, <3>1 DEF Initializer
      <3>2. ASSUME NEW i \in Latest(Recent(g.symbol)),
                   Continue(g, [g EXCEPT !.pc = "minute", !.price = trades[i].price])
            PROVE  \E h \in Initializer : Continue(g, h)
        <4>1. trades[i].price \in Prices \cup {0}
          BY <1>1, FoundPrices DEF THInv, Initializer
        <4>2. [g EXCEPT !.pc = "minute", !.price = trades[i].price] \in Initializer
          BY <1>1, <4>1 DEF Initializer
        <4> QED BY <3>2, <4>2
      <3> QED BY <1>8, <3>1, <3>2 DEF InitFromTrades
    <2>2. inits' \subseteq Initializer /\ IsFiniteSet(inits') BY <1>4, <2>1
    <2>3. mishaps' \in 0 .. MaxMishaps BY <1>2, <1>8 DEF InitFromTrades, THInv, TypeOK
    <2> QED BY <1>8, <2>2, <2>3 DEF InitFromTrades, THInv, TypeOK, TickOK, stores
  <1>9. CASE InitMinute(g)
    <2>1. [g EXCEPT !.pc = "write", !.minute = hub.minute] \in Initializer
      BY <1>1 DEF Initializer, THInv, TypeOK
    <2>2. inits' \subseteq Initializer /\ IsFiniteSet(inits') BY <1>4, <1>9, <2>1 DEF InitMinute
    <2> QED BY <1>9, <2>2 DEF InitMinute, THInv, TypeOK, TickOK, stores
  <1>10. CASE InitReset(g)
    <2>1. mishaps' \in 0 .. MaxMishaps /\ active' \subseteq Symbols
      BY <1>1, <1>2, <1>10 DEF InitReset, SetCandle, THInv, TypeOK, Initializer
    <2>2. disturbed' \subseteq Symbols BY <1>1, <1>10 DEF InitReset, THInv, TypeOK, Initializer
    <2>3. candle' \in [Symbols -> Candle \cup {Null}]
      <3>1. [minute |-> g.minute, set |-> clock, bar |-> Flat(g.price)] \in Candle
        BY <1>1, FlatOK DEF Candle, Initializer, THInv, TypeOK
      <3> QED BY <1>1, <1>10, <3>1 DEF InitReset, SetCandle, THInv, TypeOK, Initializer
    <2> QED BY <1>1, <1>3, <1>10, <2>1, <2>2, <2>3 DEF InitReset, THInv, TypeOK, TickOK
  <1> QED BY <1>5, <1>6, <1>7, <1>8, <1>9, <1>10 DEF InitStep

(* The turn of the minute: the old candles are listed, stored and replaced. *)
LEMMA TurnTypes ==
  ASSUME THInv,
         \/ TickStart \/ ListOld \/ ResetOld \/ SpawnMissing \/ TurnMinute
         \/ \E s \in Symbols : SkipOld(s) \/ SaveOld(s)
  PROVE  THInv'
  <1>1. tick \in Tick /\ clock \in Times /\ candle \in [Symbols -> Candle \cup {Null}]
        /\ ohlcv \in [Symbols -> [Minutes -> OHLCV \cup {Null}]]
    BY DEF THInv, TypeOK
  <1>2. Mishap => mishaps' \in 0 .. MaxMishaps
    BY CandleAssumption DEF Mishap, THInv, TypeOK
  <1>3. mishaps \in 0 .. MaxMishaps BY DEF THInv, TypeOK
  <1>4. \A old : Rolling(old) \in {"turn", "roll"} BY DEF Rolling
  <1>5. CASE TickStart
    <2>1. tick' \in Tick BY <1>1, <1>5 DEF TickStart, Tick
    <2>2. tick'.pc \in {"list", "fetch"} /\ tick'.now = clock /\ tick'.queue = tick.queue
          /\ tick.pc = "idle"
      BY <1>1, <1>5 DEF TickStart, Tick
    <2>3. clock <= clock BY <1>1 DEF Times
    <2> QED BY <1>5, <2>1, <2>2, <2>3 DEF TickStart, Quiet, THInv, TypeOK, TickOK, stores
  <1>6. CASE ListOld
    <2>0. PICK readable \in SUBSET Symbols :
            tick' = [tick EXCEPT !.pc = Rolling(Listed(readable)), !.old = Listed(readable)]
      BY <1>6 DEF ListOld
    <2> DEFINE old == Listed(readable)
    <2>1. old \in [Symbols -> Candle \cup {Null}] BY <1>1 DEF Listed
    <2> HIDE DEF old
    <2>2. /\ tick' \in Tick
          /\ tick'.pc \in {"turn", "roll"} /\ tick'.now = tick.now /\ tick'.queue = tick.queue
          /\ tick.pc = "list"
      <3>1. tick' = [tick EXCEPT !.pc = Rolling(old), !.old = old] BY <2>0 DEF old
      <3>2. tick.pc = "list" BY <1>6 DEF ListOld
      <3> QED BY <1>1, <1>4, <2>1, <3>1, <3>2 DEF Tick
    <2>3. mishaps' \in 0 .. MaxMishaps BY <1>2, <1>3, <1>6 DEF ListOld
    <2> QED BY <1>6, <2>2, <2>3 DEF ListOld, Quiet, THInv, TypeOK, TickOK, stores
  <1>7. ASSUME NEW s \in Symbols, Handled(s)
        PROVE  /\ tick' \in Tick /\ tick'.pc \in {"turn", "roll"}
               /\ tick'.now = tick.now /\ tick'.queue = tick.queue
    <2> DEFINE old == [tick.old EXCEPT ![s] = Null]
    <2>1. old \in [Symbols -> Candle \cup {Null}] BY <1>1 DEF Tick
    <2>2. tick' = [tick EXCEPT !.pc = Rolling(old), !.old = old, !.symbol = Null]
      BY <1>7 DEF Handled
    <2> HIDE DEF old
    <2> QED BY <1>1, <1>4, <2>1, <2>2 DEF Tick
  <1>8. CASE ResetOld
    <2>1. tick.symbol \in Symbols /\ tick.old[tick.symbol] \in Candle /\ tick.now \in Times
      BY <1>1, <1>8 DEF ResetOld, THInv, TickOK, Tick
    <2>2. /\ tick' \in Tick /\ tick'.pc \in {"turn", "roll"}
          /\ tick'.now = tick.now /\ tick'.queue = tick.queue /\ tick.pc = "reset"
      BY <1>7, <1>8, <2>1 DEF ResetOld
    <2>3. candle' \in [Symbols -> Candle \cup {Null}]
      <3> DEFINE c == [minute |-> Minute(tick.now), set |-> clock,
                       bar |-> Flat(tick.old[tick.symbol].bar.close)]
      <3>1. Flat(tick.old[tick.symbol].bar.close) \in OHLCV
        BY <2>1, FlatOK DEF Candle, OHLCV
      <3>2. c \in Candle BY <1>1, <2>1, <3>1, MinuteOK DEF Candle
      <3>3. candle' = candle \/ candle' = [candle EXCEPT ![tick.symbol] = c]
        BY <1>8 DEF ResetOld, SetCandle
      <3> HIDE DEF c
      <3> QED BY <1>1, <2>1, <3>2, <3>3
    <2>4. mishaps' \in 0 .. MaxMishaps /\ active' \subseteq Symbols
      BY <1>2, <1>3, <1>8, <2>1 DEF ResetOld, SetCandle, THInv, TypeOK
    <2> QED BY <1>8, <2>2, <2>3, <2>4 DEF ResetOld, Quiet, THInv, TypeOK, TickOK
  <1>9. CASE SpawnMissing
    <2>1. inits' \subseteq Initializer /\ IsFiniteSet(inits')
      <3>1. PICK unknown \in SUBSET hub.subscribed :
              inits' = Spawned({s \in hub.subscribed : candle[s] = Null} \cup unknown)
        BY <1>9 DEF SpawnMissing
      <3>2. {s \in hub.subscribed : candle[s] = Null} \cup unknown \in SUBSET Symbols
        BY DEF THInv, TypeOK
      <3> QED BY <3>1, <3>2, SpawnedOK DEF THInv
    <2>2. /\ tick' \in Tick /\ tick'.pc = "minute"
          /\ tick'.now = tick.now /\ tick'.queue = tick.queue /\ tick.pc = "turn"
      BY <1>1, <1>9 DEF SpawnMissing, Tick
    <2>3. mishaps' \in 0 .. MaxMishaps BY <1>2, <1>3, <1>9 DEF SpawnMissing
    <2> QED BY <1>9, <2>1, <2>2, <2>3 DEF SpawnMissing, THInv, TypeOK, TickOK, stores
  <1>10. CASE TurnMinute
    <2>1. /\ tick' \in Tick /\ tick'.pc = "fetch"
          /\ tick'.now = tick.now /\ tick'.queue = tick.queue /\ tick.pc = "minute"
      BY <1>1, <1>10 DEF TurnMinute, Tick
    <2>2. Minute(tick.now) \in Minutes BY <1>1, MinuteOK DEF Tick
    <2>3. hub' \in [minute : Minutes, lastTradeCheck : Times, subscribed : SUBSET Symbols]
          /\ hub'.lastTradeCheck = hub.lastTradeCheck
      BY <1>10, <2>2 DEF TurnMinute, THInv, TypeOK
    <2> QED BY <1>10, <2>1, <2>3 DEF TurnMinute, Quiet, THInv, TypeOK, TickOK, stores
  <1>11. ASSUME NEW s \in Symbols, SkipOld(s) PROVE THInv'
    <2>1. /\ tick' \in Tick /\ tick'.pc \in {"turn", "roll"}
          /\ tick'.now = tick.now /\ tick'.queue = tick.queue /\ tick.pc = "roll"
      BY <1>7, <1>11 DEF SkipOld
    <2>2. mishaps' \in 0 .. MaxMishaps BY <1>2, <1>11 DEF SkipOld
    <2> QED BY <1>11, <2>1, <2>2 DEF SkipOld, Quiet, THInv, TypeOK, TickOK, stores
  <1>12. ASSUME NEW s \in Symbols, SaveOld(s) PROVE THInv'
    <2>1. tick.old[s] \in Candle /\ tick.old[s] # Null BY <1>1, <1>12 DEF SaveOld, Old, Tick
    <2>2. /\ tick' \in Tick /\ tick'.pc = "reset" /\ tick'.symbol = s /\ tick'.old = tick.old
          /\ tick'.now = tick.now /\ tick'.queue = tick.queue /\ tick.pc = "roll"
      BY <1>1, <1>12 DEF SaveOld, Tick
    <2>3. mishaps' \in 0 .. MaxMishaps BY <1>2, <1>3, <1>12 DEF SaveOld
    <2>4. disturbed' \subseteq Symbols BY <1>12 DEF SaveOld, THInv, TypeOK
    <2>5. ohlcv' \in [Symbols -> [Minutes -> OHLCV \cup {Null}]]
      <3> DEFINE c == tick.old[s]
                 bar == Upsert(ohlcv[s][c.minute], c.bar)
      <3>1. c.minute \in Minutes /\ c.bar \in OHLCV BY <2>1 DEF Candle
      <3>2. bar \in OHLCV
        <4> DEFINE stored == ohlcv[s][c.minute]
        <4>1. stored \in OHLCV \cup {Null} BY <1>1, <3>1
        <4> HIDE DEF stored, c
        <4>2. CASE stored = Null BY <3>1, <4>2 DEF Upsert, stored
        <4>3. CASE stored # Null
          <5>1. [c.bar EXCEPT !.open = stored.open] \in OHLCV BY <3>1, <4>1, <4>3 DEF OHLCV
          <5> QED BY <4>3, <5>1 DEF Upsert, stored
        <4> QED BY <4>2, <4>3
      <3>3. ohlcv' = ohlcv \/ ohlcv' = [ohlcv EXCEPT ![s] = [ohlcv[s] EXCEPT ![c.minute] = bar]]
        BY <1>12 DEF SaveOld, SaveOHLCV
      <3> HIDE DEF c, bar
      <3>4. [ohlcv[s] EXCEPT ![c.minute] = bar] \in [Minutes -> OHLCV \cup {Null}]
        BY <1>1, <3>1, <3>2
      <3> QED BY <1>1, <3>3, <3>4
    <2> QED BY <1>12, <2>1, <2>2, <2>3, <2>4, <2>5 DEF SaveOld, Quiet, THInv, TypeOK, TickOK
  <1> QED BY <1>5, <1>6, <1>8, <1>9, <1>10, <1>11, <1>12

(* Polling: the new trades are fetched and counted one by one. *)
LEMMA PollTypes ==
  ASSUME THInv,
         \/ Fetch \/ WriteCandle \/ TickEnds
         \/ \E i \in tick.queue : ReadCandle(i)
  PROVE  THInv'
  <1>1. tick \in Tick /\ clock \in Times /\ candle \in [Symbols -> Candle \cup {Null}]
        /\ trades \in Seq(Trade) /\ MaxTrades \in Nat /\ Len(trades) <= MaxTrades
        /\ DOMAIN trades = 1 .. Len(trades)
    BY CandleAssumption DEF THInv, TypeOK, MaxTrades
  <1>2. Mishap => mishaps' \in 0 .. MaxMishaps
    BY CandleAssumption DEF Mishap, THInv, TypeOK
  <1>3. mishaps \in 0 .. MaxMishaps /\ watching \in Times /\ tick.now \in Times
    BY <1>1 DEF THInv, TypeOK, Tick
  <1>4. DOMAIN trades \subseteq 1 .. MaxTrades BY <1>1
  <1>5. CASE Fetch
    <2>1. TradesSince(hub.lastTradeCheck) \subseteq DOMAIN trades BY DEF TradesSince
    <2>2. /\ tick' \in Tick /\ tick'.pc = "update" /\ tick'.queue \subseteq DOMAIN trades
          /\ tick'.now = tick.now /\ tick.pc = "fetch"
      BY <1>1, <1>4, <1>5, <2>1 DEF Fetch, Tick, THInv, TickOK
    <2>3. mishaps' \in 0 .. MaxMishaps /\ watching' \in Times BY <1>2, <1>3, <1>5 DEF Fetch
    <2> QED BY <1>5, <2>2, <2>3 DEF Fetch, Quiet, THInv, TypeOK, TickOK, stores
  <1>6. CASE TickEnds
    <2>1. hub' \in [minute : Minutes, lastTradeCheck : Times, subscribed : SUBSET Symbols]
          /\ hub'.lastTradeCheck = tick.now
      BY <1>3, <1>6 DEF TickEnds, THInv, TypeOK
    <2>2. tick' = IdleTick /\ IdleTick \in Tick BY <1>6, IdleTickOK DEF TickEnds
    <2>3. StartTime <= clock BY <1>1 DEF Times
    <2> QED BY <1>6, <2>1, <2>2, <2>3
            DEF TickEnds, Quiet, THInv, TypeOK, TickOK, stores, IdleTick
  <1>7. ASSUME NEW i \in tick.queue, ReadCandle(i) PROVE THInv'
    <2>1. i \in DOMAIN trades /\ tick.pc = "update" BY <1>7 DEF ReadCandle, THInv, TickOK
    <2>2. trades[i] \in Trade /\ i \in 0 .. MaxTrades BY <1>1, <1>4, <2>1
    <2>3. candle[trades[i].symbol] \in Candle \cup {Null} BY <1>1, <2>2 DEF Trade
    <2>4. /\ tick' \in Tick /\ tick'.pc = "write" /\ tick'.queue = tick.queue \ {i}
          /\ tick'.trade = i /\ tick'.now = tick.now
      BY <1>1, <1>7, <2>2, <2>3 DEF ReadCandle, Tick
    <2> QED BY <1>7, <2>1, <2>4 DEF ReadCandle, Quiet, THInv, TypeOK, TickOK, stores
  <1>8. CASE WriteCandle
    <2> DEFINE i == tick.trade
               x == trades[i]
    <2>1. i \in DOMAIN trades /\ tick.pc = "write" BY <1>8 DEF WriteCandle, THInv, TickOK
    <2>2. x \in Trade BY <1>1, <2>1
    <2>3. /\ tick' \in Tick /\ tick'.pc = "update" /\ tick'.queue = tick.queue
          /\ tick'.now = tick.now
      <3>1. tick' = [tick EXCEPT !.pc = "update", !.trade = 0, !.read = Null] /\ tick.pc = "write"
        BY <1>8 DEF WriteCandle
      <3>2. 0 \in 0 .. MaxTrades BY <1>1
      <3> QED BY <1>1, <3>1, <3>2 DEF Tick
    <2>4. mishaps' \in 0 .. MaxMishaps /\ watching' \in Times /\ active' \subseteq Symbols
      <3>1. x.symbol \in Symbols BY <2>2 DEF Trade
      <3>2. \A m, bar : SetCandle(x.symbol, m, bar)
                        => active' \subseteq Symbols /\ mishaps' \in 0 .. MaxMishaps
        BY <1>2, <1>3, <3>1 DEF SetCandle, THInv, TypeOK
      <3>3. Updated(x) => active' \subseteq Symbols /\ mishaps' \in 0 .. MaxMishaps
        BY <3>2 DEF Updated
      <3>4. /\ watching' = watching \/ watching' = tick.now
            /\ Updated(x) \/ (Mishap /\ active' = active)
        BY <1>8 DEF WriteCandle
      <3> QED BY <1>2, <1>3, <3>3, <3>4 DEF THInv, TypeOK
    <2>5. trades' \in Seq(Trade) /\ Len(trades') = Len(trades) /\ DOMAIN trades' = DOMAIN trades
      <3>1. [x EXCEPT !.counted = @ + 1] \in Trade BY <2>2 DEF Trade
      <3>2. trades' = trades \/ trades' = [trades EXCEPT ![i] = [x EXCEPT !.counted = @ + 1]]
        BY <1>8 DEF WriteCandle
      <3> HIDE DEF x, i
      <3> QED BY <1>1, <2>1, <3>1, <3>2, ExceptSeq DEF i
    <2>6. candle' \in [Symbols -> Candle \cup {Null}]
      <3> SUFFICES ASSUME Updated(x) PROVE candle' \in [Symbols -> Candle \cup {Null}]
        BY <1>1, <1>8 DEF WriteCandle
      <3>1. x.symbol \in Symbols /\ x.price \in Prices BY <2>2 DEF Trade
      <3>2. [Flat(x.price) EXCEPT !.volume = 1] \in OHLCV
        BY <3>1, FlatOK DEF OHLCV
      <3>3. tick.read # Null =>
              tick.read.minute \in Minutes /\ Taken(tick.read.bar, x.price) \in OHLCV
        BY <1>1, <3>1, TakenOK DEF Tick, Candle
      <3>4. PICK m \in Minutes, bar \in OHLCV : SetCandle(x.symbol, m, bar)
        BY <3>2, <3>3 DEF Updated, THInv, TypeOK
      <3> QED BY <1>1, <3>1, <3>4 DEF SetCandle, Candle
    <2> QED BY <1>1, <1>8, <2>3, <2>4, <2>5, <2>6 DEF WriteCandle, Quiet, THInv, TypeOK, TickOK
  <1> QED BY <1>5, <1>6, <1>7, <1>8

(* Every step keeps the types. *)
LEMMA NextKeepsTypes == THInv /\ [Next]_vars => THInv'
  <1> SUFFICES ASSUME THInv, [Next]_vars PROVE THInv' OBVIOUS
  <1>1. CASE UNCHANGED vars BY <1>1 DEF vars, stores, THInv, TypeOK, TickOK
  <1>2. CASE Broadcaster BY <1>2, TurnTypes, PollTypes DEF Broadcaster
  <1>3. CASE Environment BY <1>3, EnvironmentTypes
  <1>4. ASSUME NEW g \in inits, InitStep(g) PROVE THInv' BY <1>4, InitTypes
  <1> QED BY <1>1, <1>2, <1>3, <1>4 DEF Next

-----------------------------------------------------------------------------
(* Windows and counts *)

Fetched == tick.pc \in {"update", "write"}

(* A trade that this tick has fetched and not counted yet. *)
Pending(i) == i \in tick.queue \/ (tick.pc = "write" /\ i = tick.trade)

Counts(i) == trades[i].counted + (IF Pending(i) THEN 1 ELSE 0)

(* A trade that may be counted again was counted by the last tick that fetched,
   whose fetch came after the time of the trade: the next window starts after it. *)
CountOK ==
  \A i \in DOMAIN trades :
    /\ trades[i].time <= clock
    /\ Counts(i) > 0 => fetched \/ trades[i].time < clock
    /\ Counts(i) > 0 /\ tick.pc # "idle" /\ ~ Fetched => trades[i].time < tick.now
    /\ Counts(i) <= 2
    /\ Counts(i) = 2 => trades[i].time < NextWindow

(* A punctual trade is in the next window, in this one, or already counted. *)
WindowOK ==
  \A i \in DOMAIN trades :
    /\ Pending(i) => trades[i].time >= hub.lastTradeCheck
    /\ trades[i].onTime /\ trades[i].time >= watching
         => trades[i].time >= NextWindow \/ Pending(i) \/ trades[i].counted > 0

CInv == THInv /\ CountOK /\ WindowOK

(* What the proofs need of the types. *)
LEMMA TradeTypes ==
  ASSUME THInv
  PROVE  /\ clock \in Nat /\ tick.now \in Nat /\ hub.lastTradeCheck \in Nat /\ watching \in Nat
         /\ NextWindow \in Nat /\ NextWindow <= clock
         /\ hub.lastTradeCheck <= clock /\ tick.now <= clock
         /\ fetched \in BOOLEAN
         /\ \A i \in DOMAIN trades : trades[i].time \in Nat /\ trades[i].counted \in Nat
                                     /\ trades[i].onTime \in BOOLEAN
  <1>1. \A time \in Times : time \in Nat BY CandleAssumption DEF Times
  <1>2. \A i \in DOMAIN trades : trades[i] \in Trade BY DEF THInv, TypeOK
  <1>3. tick.now \in Times /\ hub.lastTradeCheck \in Times /\ clock \in Times /\ watching \in Times
    BY DEF THInv, TypeOK, Tick
  <1> QED BY <1>1, <1>2, <1>3 DEF THInv, TypeOK, TickOK, NextWindow, Trade

(* A step that leaves alone what CountOK and WindowOK are about. *)
LEMMA CountsStay ==
  ASSUME CInv, UNCHANGED <<clock, trades, hub.lastTradeCheck, tick.now, tick.queue, tick.trade,
                           fetched, watching>>,
         tick.pc = tick'.pc \/ (/\ {tick.pc, tick'.pc} \cap {"update", "write"} = {}
                                /\ tick.pc # "idle" /\ tick'.pc # "idle")
  PROVE  CountOK' /\ WindowOK'
  <1>1. /\ Fetched' <=> Fetched
        /\ tick.pc = "write" <=> tick'.pc = "write"
        /\ tick.pc = "idle" <=> tick'.pc = "idle"
    <2>1. CASE tick'.pc = tick.pc BY <2>1 DEF Fetched
    <2>2. CASE /\ {tick.pc, tick'.pc} \cap {"update", "write"} = {}
               /\ tick.pc # "idle" /\ tick'.pc # "idle"
      <3>1. tick.pc \notin {"update", "write"} /\ tick'.pc \notin {"update", "write"} BY <2>2
      <3> QED BY <2>2, <3>1 DEF Fetched
    <2> QED BY <2>1, <2>2
  <1>2. \A i : Pending(i)' = Pending(i) BY <1>1 DEF Pending
  <1>3. NextWindow' = NextWindow BY <1>1 DEF NextWindow, Fetched
  <1>4. \A i : Counts(i)' = Counts(i) BY <1>2 DEF Counts
  <1> QED BY <1>1, <1>2, <1>3, <1>4 DEF CInv, CountOK, WindowOK

(* Commits, crashes, the clock and Redis keep what is said of counts and windows: a
   trade that has just committed is pending or in a window to come. *)
LEMMA EnvironmentCounts == ASSUME CInv, Environment PROVE CountOK' /\ WindowOK'
  <1>1. THInv BY DEF CInv
  <1>2. CASE Advance
    <2>1. /\ clock' = clock + 1 /\ fetched' = FALSE
          /\ UNCHANGED <<trades, hub, tick, watching>>
      BY <1>2 DEF Advance
    <2>2. Fetched' = Fetched /\ NextWindow' = NextWindow /\ (\A i : Pending(i)' = Pending(i))
          /\ \A i : Counts(i)' = Counts(i)
      BY <2>1 DEF Fetched, NextWindow, Pending, Counts
    <2> QED BY <1>1, <2>1, <2>2, TradeTypes DEF CInv, CountOK, WindowOK
  <1>3. CASE Crash
    <2>1. /\ hub'.lastTradeCheck = clock /\ tick' = IdleTick /\ watching' = clock
          /\ UNCHANGED <<clock, trades, fetched>>
      BY <1>3 DEF Crash, NewHub
    <2>2. ~ Fetched' /\ NextWindow' = clock /\ tick'.pc = "idle" /\ \A i : ~ Pending(i)'
      BY <2>1 DEF IdleTick, Fetched, NextWindow, Pending
    <2>3. \A i \in DOMAIN trades : Counts(i)' = trades[i].counted
      BY <1>1, <2>1, <2>2, TradeTypes DEF Counts
    <2>4. \A i \in DOMAIN trades : trades[i].counted <= Counts(i)
      BY <1>1, TradeTypes DEF Counts
    <2>5. CountOK'
      <3> SUFFICES ASSUME NEW i \in DOMAIN trades
                   PROVE  /\ trades[i].time <= clock
                          /\ trades[i].counted > 0 => fetched \/ trades[i].time < clock
                          /\ trades[i].counted <= 2
                          /\ trades[i].counted = 2 => trades[i].time < clock
        BY <2>1, <2>2, <2>3 DEF CountOK
      <3>1. Counts(i) \in Nat BY <1>1, TradeTypes DEF Counts
      <3> QED BY <1>1, <2>4, <3>1, TradeTypes DEF CInv, CountOK
    <2>6. WindowOK' BY <2>1, <2>2 DEF WindowOK
    <2> QED BY <2>5, <2>6
  <1>4. ASSUME NEW s \in Symbols, Expire(s) \/ Subscribe(s) PROVE CountOK' /\ WindowOK'
    <2>1. UNCHANGED <<clock, trades, hub.lastTradeCheck, tick, fetched, watching>>
      BY <1>1, <1>4 DEF Expire, Subscribe, THInv, TypeOK
    <2> QED BY <2>1, CountsStay
  <1>5. ASSUME NEW s \in Symbols, NEW time \in Times, CommitTrade(s, time)
        PROVE  CountOK' /\ WindowOK'
    <2>0. PICK n \in Nat : n = Len(trades) BY <1>1 DEF THInv, TypeOK
    <2> DEFINE x == [symbol |-> s, price |-> TradePrices[n + 1], time |-> time,
                     onTime |-> time >= NextWindow, counted |-> 0]
    <2>1. /\ trades' = Append(trades, x) /\ trades \in Seq(Trade)
          /\ UNCHANGED <<clock, hub, tick, fetched, watching>> /\ time <= clock
      BY <1>1, <1>5, <2>0 DEF CommitTrade, THInv, TypeOK
    <2>2. x.time = time /\ x.counted = 0 /\ x.onTime = (time >= NextWindow) OBVIOUS
    <2> HIDE DEF x
    <2>3. /\ DOMAIN trades' = DOMAIN trades \cup {n + 1} /\ n + 1 \notin DOMAIN trades
          /\ trades'[n + 1] = x /\ \A i \in DOMAIN trades : trades'[i] = trades[i]
      BY <2>0, <2>1
    <2>4. Fetched' = Fetched /\ NextWindow' = NextWindow /\ (\A i : Pending(i)' = Pending(i))
      BY <2>1 DEF Fetched, NextWindow, Pending
    <2>5. \A i \in DOMAIN trades : Counts(i)' = Counts(i) BY <2>3, <2>4 DEF Counts
    <2>6. ~ Pending(n + 1) BY <1>1, <2>3 DEF Pending, THInv, TickOK
    <2>7. Counts(n + 1)' = 0 BY <2>2, <2>3, <2>4, <2>6 DEF Counts
    <2>8. CountOK'
      BY <2>1, <2>2, <2>3, <2>4, <2>5, <2>7 DEF CInv, CountOK
    <2>9. WindowOK'
      BY <2>1, <2>2, <2>3, <2>4, <2>6 DEF CInv, WindowOK
    <2> QED BY <2>8, <2>9
  <1> QED BY <1>2, <1>3, <1>4, <1>5 DEF Environment

(* A tick keeps what is said of counts and windows: its fetch makes pending just the
   trades of its window, and the next window begins where it began. *)
LEMMA PollCounts ==
  ASSUME CInv,
         \/ TickStart \/ Fetch \/ WriteCandle \/ TickEnds
         \/ \E i \in tick.queue : ReadCandle(i)
  PROVE  CountOK' /\ WindowOK'
  <1>1. THInv /\ tick \in Tick /\ TickOK BY DEF CInv, THInv, TypeOK
  <1>2. CASE TickStart
    <2>1. /\ tick.pc = "idle" /\ ~ fetched /\ tick'.pc \in {"list", "fetch"}
          /\ tick'.now = clock /\ tick'.queue = tick.queue
          /\ UNCHANGED <<clock, trades, hub, fetched, watching>>
      BY <1>1, <1>2 DEF TickStart, Quiet, Tick
    <2>2. /\ ~ Fetched /\ ~ Fetched' /\ NextWindow' = NextWindow
          /\ \A i : ~ Pending(i) /\ ~ Pending(i)'
      BY <1>1, <2>1 DEF Fetched, NextWindow, Pending, TickOK
    <2>3. \A i : Counts(i)' = Counts(i) BY <2>1, <2>2 DEF Counts
    <2> QED BY <1>1, <2>1, <2>2, <2>3 DEF CInv, CountOK, WindowOK
  <1>3. CASE Fetch
    <2>1. /\ tick.pc = "fetch" /\ tick'.pc = "update" /\ tick'.now = tick.now /\ fetched' = TRUE
          /\ tick.queue = {}
          /\ UNCHANGED <<clock, trades, hub>>
          /\ \/ tick'.queue = TradesSince(hub.lastTradeCheck) /\ watching' = watching
             \/ tick'.queue = {} /\ watching' = tick.now
      BY <1>1, <1>3 DEF Fetch, Quiet, Tick, TickOK
    <2>2. /\ ~ Fetched /\ Fetched' /\ NextWindow' = tick.now /\ NextWindow = hub.lastTradeCheck
          /\ \A i : ~ Pending(i) /\ (Pending(i)' <=> i \in tick'.queue)
      BY <2>1 DEF Fetched, NextWindow, Pending
    <2>3. hub.lastTradeCheck <= tick.now BY <1>1, <2>1 DEF TickOK
    <2>4. \A i \in DOMAIN trades :
            /\ Counts(i) = trades[i].counted
            /\ Counts(i)' = trades[i].counted + (IF i \in tick'.queue THEN 1 ELSE 0)
            /\ i \in tick'.queue => trades[i].time >= hub.lastTradeCheck
      BY <1>1, <2>1, <2>2, TradeTypes DEF Counts, TradesSince
    <2>5. CountOK'
      <3> SUFFICES ASSUME NEW i \in DOMAIN trades
                   PROVE  /\ trades[i].time <= clock
                          /\ Counts(i)' <= 2
                          /\ Counts(i)' = 2 => trades[i].time < tick.now
        BY <2>1, <2>2 DEF CountOK
      <3>1. /\ trades[i].counted > 0 => trades[i].time < tick.now
            /\ trades[i].counted <= 2
            /\ trades[i].counted = 2 => trades[i].time < hub.lastTradeCheck
            /\ trades[i].time <= clock
        BY <2>1, <2>2, <2>4 DEF CInv, CountOK
      <3> QED BY <1>1, <2>4, <3>1, TradeTypes
    <2>6. WindowOK'
      <3> SUFFICES ASSUME NEW i \in DOMAIN trades
                   PROVE  /\ Pending(i)' => trades[i].time >= hub.lastTradeCheck
                          /\ trades[i].onTime /\ trades[i].time >= watching'
                               => \/ trades[i].time >= tick.now \/ Pending(i)'
                                  \/ trades[i].counted > 0
        BY <2>1, <2>2 DEF WindowOK
      <3>1. trades[i].onTime /\ trades[i].time >= watching
              => trades[i].time >= hub.lastTradeCheck \/ trades[i].counted > 0
        BY <2>2 DEF CInv, WindowOK
      <3> QED BY <2>1, <2>2, <2>4, <3>1 DEF TradesSince
    <2> QED BY <2>5, <2>6
  <1>4. ASSUME NEW j \in tick.queue, ReadCandle(j) PROVE CountOK' /\ WindowOK'
    <2>1. /\ tick.pc = "update" /\ tick'.pc = "write" /\ tick'.now = tick.now
          /\ tick'.queue = tick.queue \ {j} /\ tick'.trade = j
          /\ UNCHANGED <<clock, trades, hub, fetched, watching>>
      BY <1>1, <1>4 DEF ReadCandle, Quiet, Tick
    <2>2. Fetched /\ Fetched' /\ NextWindow' = NextWindow /\ (\A i : Pending(i)' = Pending(i))
      BY <2>1 DEF Fetched, NextWindow, Pending
    <2>3. \A i : Counts(i)' = Counts(i) BY <2>1, <2>2 DEF Counts
    <2> QED BY <2>1, <2>2, <2>3 DEF CInv, CountOK, WindowOK
  <1>5. CASE WriteCandle
    <2>0. PICK j \in 0 .. MaxTrades : j = tick.trade BY <1>1 DEF Tick
    <2>1. /\ tick.pc = "write" /\ tick'.pc = "update" /\ tick'.now = tick.now
          /\ tick'.queue = tick.queue /\ j \in DOMAIN trades \ tick.queue
          /\ UNCHANGED <<clock, hub, fetched>>
      BY <1>1, <1>5, <2>0 DEF WriteCandle, Quiet, Tick, TickOK
    <2>2. \/ trades' = [trades EXCEPT ![j].counted = @ + 1] /\ watching' = watching
          \/ trades' = trades /\ watching' = tick.now
      BY <1>5, <2>0 DEF WriteCandle
    <2>3. /\ DOMAIN trades' = DOMAIN trades
          /\ \A i \in DOMAIN trades :
               /\ trades'[i].time = trades[i].time /\ trades'[i].onTime = trades[i].onTime
               /\ i # j => trades'[i].counted = trades[i].counted
               /\ trades'[j].counted = trades[j].counted + 1 \/ watching' = tick.now
               /\ trades'[j].counted \in {trades[j].counted, trades[j].counted + 1}
      <3>1. trades \in Seq(Trade) /\ \A i \in DOMAIN trades : trades[i] \in Trade
        BY <1>1 DEF THInv, TypeOK
      <3>2. j \in DOMAIN trades /\ trades[j].counted \in Nat BY <1>1, <2>1, TradeTypes
      <3>3. CASE trades' = trades /\ watching' = tick.now BY <3>2, <3>3
      <3>4. CASE trades' = [trades EXCEPT ![j].counted = @ + 1]
        <4>1. DOMAIN trades' = DOMAIN trades BY <3>1, <3>4
        <4>2. \A i \in DOMAIN trades : i # j => trades'[i] = trades[i] BY <3>1, <3>4
        <4>3. trades'[j] = [trades[j] EXCEPT !.counted = @ + 1] BY <3>1, <3>2, <3>4
        <4>4. /\ trades'[j].time = trades[j].time /\ trades'[j].onTime = trades[j].onTime
              /\ trades'[j].counted = trades[j].counted + 1
          BY <3>1, <3>2, <4>3 DEF Trade
        <4> QED BY <3>2, <4>1, <4>2, <4>4
      <3> QED BY <2>2, <3>3, <3>4
    <2>4. /\ Fetched /\ Fetched' /\ NextWindow' = tick.now /\ NextWindow = tick.now
          /\ \A i \in DOMAIN trades \ {j} : Pending(i)' = Pending(i)
          /\ Pending(j) /\ ~ Pending(j)'
      BY <2>0, <2>1 DEF Fetched, NextWindow, Pending
    <2>5. /\ \A i \in DOMAIN trades \ {j} : Counts(i)' = Counts(i)
          /\ Counts(j) = trades[j].counted + 1 /\ Counts(j)' = trades'[j].counted
      <3>1. trades'[j].counted \in Nat BY <1>1, <2>1, <2>3, TradeTypes
      <3> QED BY <2>1, <2>3, <2>4, <3>1 DEF Counts
    <2>6. CountOK'
      <3> SUFFICES ASSUME NEW i \in DOMAIN trades
                   PROVE  /\ trades[i].time <= clock
                          /\ Counts(i)' > 0 => fetched \/ trades[i].time < clock
                          /\ Counts(i)' <= 2
                          /\ Counts(i)' = 2 => trades[i].time < tick.now
        BY <2>1, <2>3, <2>4 DEF CountOK
      <3>1. \/ Counts(i)' = Counts(i)
            \/ Counts(i)' = Counts(i) - 1
        <4>1. CASE i # j BY <2>5, <4>1
        <4>2. CASE i = j BY <1>1, <2>1, <2>3, <2>5, <4>2, TradeTypes
        <4> QED BY <4>1, <4>2
      <3>2. /\ trades[i].time <= clock
            /\ Counts(i) > 0 => fetched \/ trades[i].time < clock
            /\ Counts(i) <= 2
            /\ Counts(i) = 2 => trades[i].time < tick.now
        BY <2>4 DEF CInv, CountOK
      <3>3. Counts(i) \in Nat BY <1>1, TradeTypes DEF Counts
      <3> QED BY <3>1, <3>2, <3>3
    <2>7. WindowOK'
      <3> SUFFICES ASSUME NEW i \in DOMAIN trades
                   PROVE  /\ Pending(i)' => trades[i].time >= hub.lastTradeCheck
                          /\ trades[i].onTime /\ trades[i].time >= watching'
                               => \/ trades[i].time >= tick.now \/ Pending(i)'
                                  \/ trades'[i].counted > 0
        BY <2>1, <2>3, <2>4 DEF WindowOK
      <3>1. /\ Pending(i) => trades[i].time >= hub.lastTradeCheck
            /\ trades[i].onTime /\ trades[i].time >= watching
                 => trades[i].time >= tick.now \/ Pending(i) \/ trades[i].counted > 0
        BY <2>4 DEF CInv, WindowOK
      <3>2. CASE i = j BY <1>1, <2>2, <2>3, <2>4, <3>1, <3>2, TradeTypes
      <3>3. CASE i # j BY <2>2, <2>3, <2>4, <3>1, <3>3
      <3> QED BY <3>2, <3>3
    <2> QED BY <2>6, <2>7
  <1>6. CASE TickEnds
    <2>1. /\ tick.pc = "update" /\ tick.queue = {} /\ tick' = IdleTick
          /\ hub'.lastTradeCheck = tick.now
          /\ UNCHANGED <<clock, trades, fetched, watching>>
      BY <1>1, <1>6 DEF TickEnds, Quiet, THInv, TypeOK
    <2>2. /\ Fetched /\ ~ Fetched' /\ NextWindow' = tick.now /\ NextWindow = tick.now
          /\ tick'.pc = "idle" /\ \A i : ~ Pending(i) /\ ~ Pending(i)'
      BY <2>1 DEF Fetched, NextWindow, Pending, IdleTick
    <2>3. \A i : Counts(i)' = Counts(i) BY <2>1, <2>2 DEF Counts
    <2> QED BY <2>1, <2>2, <2>3 DEF CInv, CountOK, WindowOK
  <1> QED BY <1>2, <1>3, <1>4, <1>5, <1>6

(* A turn of the minute and the goroutines fetch and count nothing. *)
LEMMA TurnCounts ==
  ASSUME CInv,
         \/ ListOld \/ ResetOld \/ SpawnMissing \/ TurnMinute
         \/ \E s \in Symbols : SkipOld(s) \/ SaveOld(s)
         \/ \E g \in inits : InitStep(g)
  PROVE  CountOK' /\ WindowOK'
  <1>1. tick \in Tick /\ hub \in [minute : Minutes, lastTradeCheck : Times, subscribed : SUBSET Symbols]
    BY DEF CInv, THInv, TypeOK
  <1>2. \A old : Rolling(old) \in {"turn", "roll"} BY DEF Rolling
  <1> DEFINE Kept ==
        /\ UNCHANGED <<clock, trades, hub.lastTradeCheck, fetched, watching>>
        /\ UNCHANGED <<tick.now, tick.queue, tick.trade>>
        /\ tick.pc \in {"list", "roll", "reset", "turn", "minute"}
        /\ tick'.pc \in {"roll", "reset", "turn", "minute", "fetch"}
  <1>3. ASSUME \/ ListOld \/ ResetOld \/ SpawnMissing \/ TurnMinute
               \/ \E s \in Symbols : SkipOld(s) \/ SaveOld(s)
        PROVE  CountOK' /\ WindowOK'
    <2>1. CASE ListOld
      <3>1. Kept BY <1>1, <1>2, <2>1 DEF ListOld, Quiet, Tick
      <3> QED BY <3>1, CountsStay
    <2>2. CASE ResetOld
      <3>1. Kept BY <1>1, <1>2, <2>2 DEF ResetOld, Handled, Quiet, Tick
      <3> QED BY <3>1, CountsStay
    <2>3. CASE SpawnMissing
      <3>1. Kept BY <1>1, <2>3 DEF SpawnMissing, Tick
      <3> QED BY <3>1, CountsStay
    <2>4. CASE TurnMinute
      <3>1. Kept BY <1>1, <2>4 DEF TurnMinute, Quiet, Tick
      <3> QED BY <3>1, CountsStay
    <2>5. ASSUME NEW s \in Symbols, SkipOld(s) PROVE CountOK' /\ WindowOK'
      <3>1. Kept BY <1>1, <1>2, <2>5 DEF SkipOld, Handled, Quiet, Tick
      <3> QED BY <3>1, CountsStay
    <2>6. ASSUME NEW s \in Symbols, SaveOld(s) PROVE CountOK' /\ WindowOK'
      <3>1. Kept BY <1>1, <2>6 DEF SaveOld, Quiet, Tick
      <3> QED BY <3>1, CountsStay
    <2> QED BY <1>3, <2>1, <2>2, <2>3, <2>4, <2>5, <2>6
  <1>4. ASSUME NEW g \in inits, InitStep(g) PROVE CountOK' /\ WindowOK'
    <2>1. UNCHANGED <<clock, trades, hub, tick, fetched, watching>>
      BY <1>4 DEF InitStep, InitExists, InitMissing, InitCheckFails, InitFromTable, InitFromTrades,
           InitMinute, InitReset
    <2> QED BY <2>1, CountsStay
  <1> QED BY <1>3, <1>4

(* Before the first trade there is nothing to say of counts. *)
LEMMA CountsAtStart == Init => CInv
  <1> SUFFICES ASSUME Init PROVE CInv OBVIOUS
  <1>1. THInv BY TypesAtStart
  <1>2. DOMAIN trades = {} BY DEF Init
  <1> QED BY <1>1, <1>2 DEF CInv, CountOK, WindowOK

(* Every step keeps the strengthened invariant. *)
LEMMA NextKeepsCounts == CInv /\ [Next]_vars => CInv'
  <1> SUFFICES ASSUME CInv, [Next]_vars PROVE CInv' OBVIOUS
  <1>1. THInv' BY NextKeepsTypes DEF CInv
  <1>2. CASE UNCHANGED vars BY <1>1, <1>2, CountsStay DEF vars, CInv
  <1>3. CASE Next
    <2>1. CountOK' /\ WindowOK'
      BY <1>3, EnvironmentCounts, PollCounts, TurnCounts DEF Next, Broadcaster
    <2> QED BY <1>1, <2>1 DEF CInv
  <1> QED BY <1>2, <1>3

-----------------------------------------------------------------------------
(* The strengthened invariant holds in every state of every execution. *)
THEOREM Invariance == Spec => []CInv
  BY CountsAtStart, NextKeepsCounts, PTL DEF Spec

(* Candles, the stored table, the tick and its goroutines keep their types, whatever
   fails, expires or crashes. *)
THEOREM TypeCorrect == Spec => []TypeOK
  <1>1. CInv => TypeOK BY DEF CInv, THInv
  <1> QED BY <1>1, Invariance, PTL

(* No trade is counted a third time: a tick that starts after the fetch that first
   saw a trade has a window after it. *)
THEOREM NoTradeCountedThrice == Spec => []CountedAtMostTwice
  <1>1. CInv => CountedAtMostTwice
    <2> SUFFICES ASSUME CInv, NEW i \in DOMAIN trades PROVE trades[i].counted <= 2
      BY DEF CountedAtMostTwice
    <2>1. trades[i].counted \in Nat /\ trades[i].counted <= Counts(i) /\ Counts(i) \in Nat
      BY TradeTypes DEF CInv, Counts
    <2> QED BY <2>1 DEF CInv, CountOK
  <1> QED BY <1>1, Invariance, PTL

(* The windows leave no gap: a punctual trade whose time has been checked is counted,
   unless the server crashed or a call failed since. *)
THEOREM WindowsLeaveNoGap == Spec => []PunctualTradesAreCounted
  <1>1. CInv => PunctualTradesAreCounted
    <2> SUFFICES ASSUME CInv, NEW i \in DOMAIN trades, Watched(trades[i]), trades[i].onTime
                 PROVE  trades[i].counted > 0
      BY DEF PunctualTradesAreCounted
    <2>1. trades[i].time >= watching /\ trades[i].time < hub.lastTradeCheck
      BY DEF Watched
    <2>2. hub.lastTradeCheck <= NextWindow
      BY TradeTypes DEF CInv, THInv, TickOK, NextWindow
    <2>3. /\ trades[i].time \in Nat /\ hub.lastTradeCheck \in Nat /\ NextWindow \in Nat
          /\ watching \in Nat
      BY TradeTypes DEF CInv
    <2> QED BY <2>1, <2>2, <2>3 DEF CInv, WindowOK
  <1> QED BY <1>1, Invariance, PTL

-----------------------------------------------------------------------------
(* Minutes *)

(* The broadcaster may have opened candles for a minute that is not the hub's yet. *)
Turning == tick.pc \in {"roll", "reset", "turn", "minute"}

LastMinute == IF Turning THEN Minute(tick.now) ELSE hub.minute

(* No candle is of a later minute than the one that is current or about to be, and
   the candles to be stored are of earlier minutes than those that replace them. *)
MinutesOK ==
  /\ hub.minute <= Minute(clock)
  /\ Turning \/ tick.pc = "list" => hub.minute < Minute(tick.now)
  /\ tick.pc \notin {"roll", "reset"} => \A s \in Symbols : tick.old[s] = Null
  /\ \A s \in Symbols : tick.old[s] # Null => tick.old[s].minute <= hub.minute
  /\ \A s \in Symbols : candle[s] # Null => candle[s].minute <= LastMinute
  /\ \A g \in inits : g.minute <= hub.minute
  /\ tick.read # Null => tick.pc = "write" /\ tick.read.minute <= hub.minute

(* What the proofs need of the minutes. *)
LEMMA MinuteTypes ==
  ASSUME THInv
  PROVE  /\ Minutes \subseteq Nat /\ IsFiniteSet(Minutes) /\ 0 \in Minutes
         /\ hub.minute \in Minutes
         /\ clock \in Times /\ Minute(clock) \in Minutes
         /\ tick.now \in Times /\ Minute(tick.now) \in Minutes /\ Minute(tick.now) <= Minute(clock)
         /\ \A s \in Symbols : candle[s] # Null => candle[s] \in Candle
         /\ \A s \in Symbols : tick.old[s] # Null => tick.old[s] \in Candle
         /\ \A c \in Candle : c.minute \in Minutes /\ c.minute \in Nat /\ c.bar \in OHLCV
         /\ \A s \in Symbols : candle[s] # Null => candle[s].minute \in Nat
         /\ hub.minute \in Nat /\ Minute(clock) \in Nat /\ Minute(tick.now) \in Nat
         /\ inits \subseteq Initializer /\ \A g \in Initializer : g.minute \in Minutes
         /\ tick \in Tick
         /\ tick.read # Null => tick.read \in Candle
  <1>1. clock \in Times /\ tick \in Tick /\ tick.now \in Times /\ hub.minute \in Minutes
        /\ tick.now <= clock
    BY DEF THInv, TypeOK, TickOK, Tick
  <1>2. Times \subseteq Nat BY CandleAssumption DEF Times
  <1>3. Minute(tick.now) <= Minute(clock)
    BY <1>1, <1>2, CandleAssumption, DivMono DEF Minute
  <1>4. Minute(clock) \in Minutes /\ Minute(tick.now) \in Minutes BY <1>1, MinuteOK
  <1>5. Minute(MaxTime) \in Nat BY CandleAssumption, DivMono DEF Minute
  <1>6. Minutes \subseteq Nat /\ 0 \in Minutes BY <1>5 DEF Minutes
  <1>7. IsFiniteSet(Minutes) BY <1>5, FS_Interval DEF Minutes
  <1>8. /\ \A s \in Symbols : candle[s] # Null => candle[s] \in Candle
        /\ \A s \in Symbols : tick.old[s] # Null => tick.old[s] \in Candle
        /\ tick.read # Null => tick.read \in Candle
    BY <1>1 DEF THInv, TypeOK, Tick
  <1>9. inits \subseteq Initializer /\ (\A g \in Initializer : g.minute \in Minutes)
        /\ \A c \in Candle : c.minute \in Minutes /\ c.bar \in OHLCV
    BY DEF THInv, TypeOK, Initializer, Candle
  <1>10. \A c \in Candle : c.minute \in Nat BY <1>6, <1>9
  <1>11. \A s \in Symbols : candle[s] # Null => candle[s].minute \in Nat BY <1>8, <1>10
  <1> QED BY <1>1, <1>3, <1>4, <1>6, <1>7, <1>8, <1>9, <1>10, <1>11

(* Every trade is of a symbol and at a price. *)
LEMMA TradeSymbols ==
  ASSUME THInv
  PROVE  \A i \in DOMAIN trades : trades[i].symbol \in Symbols /\ trades[i].price \in Prices
  <1>1. \A i \in DOMAIN trades : trades[i] \in Trade BY DEF THInv, TypeOK
  <1> QED BY <1>1 DEF Trade

(* A candle that is set is the candle of its symbol; the others stay. *)
LEMMA CandleIsSet ==
  ASSUME THInv, NEW s \in Symbols, NEW m \in Minutes, NEW bar \in OHLCV, SetCandle(s, m, bar)
  PROVE  /\ candle'[s] # Null /\ candle'[s].minute = m /\ candle'[s].bar = bar
         /\ \A q \in Symbols \ {s} : candle'[q] = candle[q]
  <1> DEFINE c == [minute |-> m, set |-> clock, bar |-> bar]
  <1>1. c \in Candle BY DEF Candle, THInv, TypeOK
  <1>2. c # Null /\ c.minute = m /\ c.bar = bar BY <1>1, RowAssumption
  <1>3. candle' = [candle EXCEPT ![s] = c] /\ candle \in [Symbols -> Candle \cup {Null}]
    BY DEF SetCandle, THInv, TypeOK
  <1> HIDE DEF c
  <1> QED BY <1>2, <1>3

(* A hub that has just started is in the minute of its clock. *)
LEMMA MinutesAtStart == Init => MinutesOK
  BY MinuteTypes, TypesAtStart DEF Init, NewHub, IdleTick, MinutesOK, Turning, LastMinute

(* A step that leaves the minutes alone, and sets no candle or sets it to a minute
   that is no later than the last. *)
LEMMA MinutesStay ==
  ASSUME THInv, MinutesOK, UNCHANGED <<clock, hub.minute, tick>>,
         \A s \in Symbols : candle'[s] # Null
           => \/ candle'[s] = candle[s]
              \/ candle'[s].minute \in Minutes /\ candle'[s].minute <= hub.minute,
         \A g \in inits' : g \in inits \/ g.minute = 0 \/ g.minute = hub.minute
  PROVE  MinutesOK'
  <1>1. hub.minute \in Nat /\ Minute(tick.now) \in Nat /\ Minutes \subseteq Nat
    BY MinuteTypes
  <1>2. Turning' = Turning /\ LastMinute' = LastMinute BY DEF Turning, LastMinute, Minute
  <1>3. hub.minute <= LastMinute /\ LastMinute \in Nat
    BY <1>1 DEF MinutesOK, LastMinute
  <1>4. ASSUME NEW s \in Symbols, candle'[s] # Null PROVE candle'[s].minute <= LastMinute
    <2>1. candle[s] # Null => candle[s].minute <= LastMinute BY DEF MinutesOK
    <2>2. CASE candle'[s] = candle[s] BY <1>4, <2>1, <2>2
    <2>3. CASE candle'[s].minute \in Minutes /\ candle'[s].minute <= hub.minute
      <3> DEFINE m == candle'[s].minute
      <3>1. m \in Nat /\ m <= hub.minute BY <1>1, <2>3
      <3> HIDE DEF m
      <3>2. m <= LastMinute BY ONLY <1>1, <1>3, <3>1
      <3> QED BY <3>2 DEF m
    <2> QED BY <1>4, <2>2, <2>3
  <1>5. \A g \in inits' : g.minute <= hub.minute BY <1>1 DEF MinutesOK
  <1> QED BY <1>2, <1>4, <1>5 DEF MinutesOK, Minute

(* The environment changes no minute but the clock's, and the hub's when it starts
   again. *)
LEMMA EnvironmentMinutes == ASSUME THInv, MinutesOK, Environment PROVE MinutesOK'
  <1>1. hub.minute \in Nat /\ Minute(clock) \in Nat /\ Minute(tick.now) \in Nat
        /\ Minute(tick.now) <= Minute(clock) /\ clock \in Nat
        /\ \A s \in Symbols : candle[s] # Null => candle[s].minute \in Nat
    BY MinuteTypes, CandleAssumption DEF Times
  <1>2. CASE Advance
    <2>1. clock' = clock + 1 /\ UNCHANGED <<candle, hub, tick, inits>> BY <1>2 DEF Advance, stores
    <2>2. Minute(clock') \in Nat /\ Minute(clock) <= Minute(clock')
      BY <1>1, <2>1, CandleAssumption, DivMono DEF Minute
    <2>3. Turning' = Turning /\ LastMinute' = LastMinute
      BY <2>1 DEF Turning, LastMinute, Minute
    <2>4. hub.minute <= Minute(clock') BY <1>1, <2>2 DEF MinutesOK
    <2>5. Minute(tick.now)' = Minute(tick.now) /\ Minute(clock)' = Minute(clock')
      BY <2>1 DEF Minute
    <2> QED BY <2>1, <2>3, <2>4, <2>5 DEF MinutesOK
  <1>3. CASE Crash
    <2>1. hub'.minute = Minute(clock) /\ tick' = IdleTick /\ inits' = {}
          /\ UNCHANGED <<clock, candle>>
      BY <1>3 DEF Crash, NewHub, stores
    <2>2. ~ Turning' /\ LastMinute' = Minute(clock) BY <2>1 DEF Turning, LastMinute, IdleTick
    <2>3. LastMinute \in Nat /\ LastMinute <= Minute(clock)
      BY <1>1 DEF LastMinute, MinutesOK
    <2>4. \A s \in Symbols : candle[s] # Null => candle[s].minute <= Minute(clock)
      BY <1>1, <2>3 DEF MinutesOK
    <2>5. Minute(clock)' = Minute(clock) BY <2>1 DEF Minute
    <2> QED BY <1>1, <2>1, <2>2, <2>4, <2>5 DEF MinutesOK, IdleTick
  <1>4. ASSUME NEW s \in Symbols, Expire(s) PROVE MinutesOK'
    <2>1. \A q \in Symbols : candle'[q] = candle[q] \/ candle'[q] = Null
      BY <1>4 DEF Expire, THInv, TypeOK
    <2> QED BY <1>4, <2>1, MinutesStay DEF Expire
  <1>5. ASSUME NEW s \in Symbols, Subscribe(s) PROVE MinutesOK'
    <2>1. hub'.minute = hub.minute BY <1>5 DEF Subscribe, THInv, TypeOK
    <2>2. \A g \in inits' : g \in inits \/ g.minute = 0 BY <1>5 DEF Subscribe, Spawned
    <2> QED BY <1>5, <2>1, <2>2, MinutesStay DEF Subscribe, stores
  <1>6. ASSUME NEW s \in Symbols, NEW time \in Times, CommitTrade(s, time) PROVE MinutesOK'
    BY <1>6, MinutesStay DEF CommitTrade, stores
  <1> QED BY <1>2, <1>3, <1>4, <1>5, <1>6 DEF Environment

(* A goroutine opens a candle for a minute that the hub has been in. *)
LEMMA InitMinutes == ASSUME THInv, MinutesOK, NEW g \in inits, InitStep(g) PROVE MinutesOK'
  <1>1. g \in Initializer /\ g.symbol \in Symbols /\ g.minute \in Minutes /\ g.minute <= hub.minute
        /\ g.price \in Prices \cup {0}
    BY DEF THInv, TypeOK, Initializer, MinutesOK
  <1>2. CASE InitExists(g)
    BY <1>2, MinutesStay DEF InitExists, stores
  <1>3. CASE InitMissing(g) \/ InitCheckFails(g) \/ InitFromTable(g) \/ InitFromTrades(g)
    <2>1. PICK h : Continue(g, h) /\ h.minute = g.minute
      <3>1. \A p \in Prices \cup {0} : /\ [g EXCEPT !.pc = "table"].minute = g.minute
                                        /\ [g EXCEPT !.pc = "trades"].minute = g.minute
                                        /\ [g EXCEPT !.pc = "minute"].minute = g.minute
        BY <1>1 DEF Initializer
      <3>2. \A p : [g EXCEPT !.pc = "minute", !.price = p].minute = g.minute
        BY <1>1 DEF Initializer
      <3> QED BY <1>3, <3>1, <3>2
              DEF InitMissing, InitCheckFails, InitFromTable, InitFromTrades
    <2>2. \A e \in inits' : e \in inits \/ e.minute = g.minute BY <2>1 DEF Continue
    <2>3. UNCHANGED <<clock, hub, tick, candle>>
      BY <1>3 DEF InitMissing, InitCheckFails, InitFromTable, InitFromTrades, stores
    <2>4. Turning' = Turning /\ LastMinute' = LastMinute /\ Minute(clock)' = Minute(clock)
          /\ Minute(tick.now)' = Minute(tick.now)
      BY <2>3 DEF Turning, LastMinute, Minute
    <2> QED BY <1>1, <2>2, <2>3, <2>4 DEF MinutesOK
  <1>4. CASE InitMinute(g)
    <2>1. [g EXCEPT !.pc = "write", !.minute = hub.minute].minute = hub.minute
      BY <1>1 DEF Initializer
    <2>2. \A h \in inits' : h \in inits \/ h.minute = hub.minute
      BY <1>4, <2>1 DEF InitMinute, Continue
    <2> QED BY <1>4, <2>2, MinutesStay DEF InitMinute, stores
  <1>5. CASE InitReset(g)
    <2>1. UNCHANGED <<clock, hub, tick>> /\ inits' \subseteq inits BY <1>5 DEF InitReset
    <2>2. CASE SetCandle(g.symbol, g.minute, Flat(g.price))
      <3>1. /\ candle'[g.symbol].minute = g.minute
            /\ \A q \in Symbols \ {g.symbol} : candle'[q] = candle[q]
        BY <1>1, <2>2, FlatOK, CandleIsSet
      <3> QED BY <1>1, <2>1, <3>1, MinutesStay
    <2>3. CASE candle' = candle BY <2>1, <2>3, MinutesStay
    <2> QED BY <1>5, <2>2, <2>3 DEF InitReset
  <1> QED BY <1>2, <1>3, <1>4, <1>5 DEF InitStep

(* At the turn of a minute the fresh candles are of the minute that the hub is about
   to turn to. *)
LEMMA TurnMinutes ==
  ASSUME THInv, MinutesOK,
         \/ TickStart \/ ListOld \/ ResetOld \/ SpawnMissing \/ TurnMinute
         \/ \E s \in Symbols : SkipOld(s) \/ SaveOld(s)
  PROVE  MinutesOK'
  <1>1. hub.minute \in Nat /\ Minute(clock) \in Nat /\ Minute(tick.now) \in Nat
        /\ Minute(tick.now) \in Minutes /\ Minute(tick.now) <= Minute(clock) /\ tick \in Tick
        /\ \A s \in Symbols : candle[s] # Null => candle[s].minute \in Nat
    BY MinuteTypes
  <1>2. \A old : Rolling(old) \in {"turn", "roll"} BY DEF Rolling
  <1>3. CASE TickStart
    <2>1. /\ tick.pc = "idle" /\ tick'.now = clock /\ tick'.old = tick.old /\ tick'.read = tick.read
          /\ tick'.pc = (IF Minute(clock) > hub.minute THEN "list" ELSE "fetch")
          /\ UNCHANGED <<clock, candle, hub, inits>>
      BY <1>1, <1>3 DEF TickStart, Quiet, Tick, stores
    <2>2. /\ ~ Turning /\ ~ Turning' /\ LastMinute' = LastMinute /\ Minute(clock)' = Minute(clock)
          /\ Minute(tick.now)' = Minute(clock)
      BY <2>1 DEF Turning, LastMinute, Minute
    <2>3. tick'.pc = "list" => hub.minute < Minute(clock) BY <1>1, <2>1
    <2> QED BY <2>1, <2>2, <2>3 DEF MinutesOK
  <1>4. CASE ListOld
    <2>1. /\ tick.pc = "list" /\ tick'.pc \in {"turn", "roll"} /\ UNCHANGED <<clock, candle, hub, inits>>
          /\ tick'.now = tick.now /\ tick'.read = tick.read
          /\ tick'.pc = Rolling(tick'.old)
          /\ \A s \in Symbols : tick'.old[s] \in {candle[s], Null}
      <3>1. PICK readable \in SUBSET Symbols :
              tick' = [tick EXCEPT !.pc = Rolling(Listed(readable)), !.old = Listed(readable)]
        BY <1>4 DEF ListOld
      <3>2. \A s \in Symbols : Listed(readable)[s] \in {candle[s], Null} BY DEF Listed
      <3>3. tick.pc = "list" /\ UNCHANGED <<clock, candle, hub, inits>>
        BY <1>4 DEF ListOld, Quiet, stores
      <3> QED BY <1>1, <1>2, <3>1, <3>2, <3>3 DEF Tick
    <2>2. /\ ~ Turning /\ Turning' /\ LastMinute' = Minute(tick.now) /\ Minute(clock)' = Minute(clock)
          /\ Minute(tick.now)' = Minute(tick.now)
      BY <2>1 DEF Turning, LastMinute, Minute
    <2>3. \A s \in Symbols : candle[s] # Null => candle[s].minute <= hub.minute
      BY <2>2 DEF MinutesOK, LastMinute
    <2>4. hub.minute < Minute(tick.now) BY <2>1 DEF MinutesOK
    <2>5. \A s \in Symbols : candle[s] # Null => candle[s].minute <= Minute(tick.now)
      BY <1>1, <2>3, <2>4
    <2>6. tick'.pc = "turn" => \A s \in Symbols : tick'.old[s] = Null
      BY <2>1 DEF Rolling
    <2>7. tick'.read = Null BY <2>1 DEF MinutesOK
    <2>8. \A s \in Symbols : tick'.old[s] # Null => tick'.old[s].minute <= hub.minute
      BY <2>1, <2>3
    <2> QED BY <2>1, <2>2, <2>4, <2>5, <2>6, <2>7, <2>8 DEF MinutesOK
  <1>5. ASSUME NEW s \in Symbols, Handled(s), tick.pc \in {"roll", "reset"},
               UNCHANGED <<clock, hub, inits>>,
               \A q \in Symbols : candle'[q] # Null
                 => candle'[q] = candle[q] \/ candle'[q].minute = Minute(tick.now)
        PROVE  MinutesOK'
    <2> DEFINE old == [tick.old EXCEPT ![s] = Null]
    <2>1. /\ tick'.pc = Rolling(old) /\ tick'.old = old /\ tick'.now = tick.now
          /\ tick'.read = tick.read
      BY <1>1, <1>5 DEF Handled, Tick
    <2>2. \A q \in Symbols : old[q] = tick.old[q] \/ old[q] = Null BY <1>1 DEF Tick
    <2>3. tick'.pc \in {"turn", "roll"} BY <1>2, <2>1
    <2>4. tick'.pc = "turn" => \A q \in Symbols : tick'.old[q] = Null BY <2>1 DEF Rolling
    <2> HIDE DEF old
    <2>5. /\ Turning /\ Turning' /\ LastMinute = Minute(tick.now) /\ LastMinute' = Minute(tick.now)
          /\ Minute(clock)' = Minute(clock) /\ Minute(tick.now)' = Minute(tick.now)
      BY <1>5, <2>1, <2>3 DEF Turning, LastMinute, Minute
    <2>6. \A q \in Symbols : tick'.old[q] # Null => tick'.old[q].minute <= hub.minute
      BY <2>1, <2>2 DEF MinutesOK
    <2>7. \A q \in Symbols : candle'[q] # Null => candle'[q].minute <= Minute(tick.now)
      BY <1>1, <1>5, <2>5 DEF MinutesOK
    <2>8. tick'.read = Null BY <1>5, <2>1 DEF MinutesOK
    <2>9. hub.minute <= Minute(clock) /\ hub.minute < Minute(tick.now)
          /\ \A g \in inits : g.minute <= hub.minute
      BY <2>5 DEF MinutesOK
    <2> QED BY <1>5, <2>3, <2>4, <2>5, <2>6, <2>7, <2>8, <2>9 DEF MinutesOK
  <1>6. CASE ResetOld
    <2>1. /\ tick.pc = "reset" /\ tick.symbol \in Symbols /\ tick.old[tick.symbol] \in Candle
          /\ Handled(tick.symbol) /\ UNCHANGED <<clock, hub, inits>>
      BY <1>1, <1>6 DEF ResetOld, Quiet, THInv, TickOK, Tick
    <2> DEFINE bar == Flat(tick.old[tick.symbol].bar.close)
    <2>2. bar \in OHLCV BY <2>1, FlatOK DEF Candle, OHLCV
    <2>3. SetCandle(tick.symbol, Minute(tick.now), bar) \/ candle' = candle
      BY <1>6 DEF ResetOld
    <2> HIDE DEF bar
    <2>4. \A q \in Symbols : candle'[q] = candle[q] \/ candle'[q].minute = Minute(tick.now)
      BY <1>1, <2>1, <2>2, <2>3, CandleIsSet
    <2> QED BY <1>5, <2>1, <2>4
  <1>7. CASE SpawnMissing
    <2>1. /\ tick.pc = "turn" /\ tick'.pc = "minute" /\ tick'.now = tick.now /\ tick'.old = tick.old
          /\ tick'.read = tick.read /\ UNCHANGED <<clock, candle, hub>>
      BY <1>1, <1>7 DEF SpawnMissing, Tick, stores
    <2>2. \A g \in inits' : g \in inits \/ g.minute = 0 BY <1>7 DEF SpawnMissing, Spawned
    <2>3. \A g \in inits' : g.minute <= hub.minute BY <1>1, <2>2 DEF MinutesOK
    <2>4. /\ Turning /\ Turning' /\ LastMinute' = LastMinute
          /\ Minute(clock)' = Minute(clock) /\ Minute(tick.now)' = Minute(tick.now)
      BY <2>1 DEF Turning, LastMinute, Minute
    <2> QED BY <2>1, <2>3, <2>4 DEF MinutesOK
  <1>8. CASE TurnMinute
    <2>1. /\ tick.pc = "minute" /\ tick'.pc = "fetch" /\ tick'.now = tick.now /\ tick'.old = tick.old
          /\ tick'.read = tick.read /\ hub'.minute = Minute(tick.now)
          /\ UNCHANGED <<clock, candle, inits>>
      BY <1>1, <1>8 DEF TurnMinute, Quiet, Tick, stores, THInv, TypeOK
    <2>2. /\ Turning /\ ~ Turning' /\ LastMinute = Minute(tick.now) /\ LastMinute' = Minute(tick.now)
          /\ Minute(clock)' = Minute(clock)
      BY <2>1 DEF Turning, LastMinute, Minute
    <2>3. hub.minute < Minute(tick.now) BY <2>2 DEF MinutesOK
    <2>4. \A g \in inits : g.minute \in Nat BY MinuteTypes
    <2>5. \A g \in inits : g.minute <= Minute(tick.now) BY <1>1, <2>3, <2>4 DEF MinutesOK
    <2> QED BY <1>1, <2>1, <2>2, <2>5 DEF MinutesOK
  <1>9. ASSUME NEW s \in Symbols, SkipOld(s) PROVE MinutesOK'
    BY <1>5, <1>9 DEF SkipOld, Quiet, stores
  <1>10. ASSUME NEW s \in Symbols, SaveOld(s) PROVE MinutesOK'
    <2>1. /\ tick.pc = "roll" /\ tick'.pc = "reset" /\ tick'.now = tick.now /\ tick'.old = tick.old
          /\ tick'.read = tick.read /\ UNCHANGED <<clock, candle, hub, inits>>
      BY <1>1, <1>10 DEF SaveOld, Quiet, Tick
    <2>2. /\ Turning /\ Turning' /\ LastMinute' = LastMinute
          /\ Minute(clock)' = Minute(clock) /\ Minute(tick.now)' = Minute(tick.now)
      BY <2>1 DEF Turning, LastMinute, Minute
    <2> QED BY <2>1, <2>2 DEF MinutesOK
  <1> QED BY <1>3, <1>4, <1>6, <1>7, <1>8, <1>9, <1>10

(* Counting a trade opens no candle for another minute than the hub's. *)
LEMMA PollMinutes ==
  ASSUME THInv, MinutesOK,
         \/ Fetch \/ WriteCandle \/ TickEnds
         \/ \E i \in tick.queue : ReadCandle(i)
  PROVE  MinutesOK'
  <1>1. hub.minute \in Nat /\ hub.minute \in Minutes /\ Minutes \subseteq Nat /\ tick \in Tick
        /\ \A c \in Candle : c.minute \in Nat
    BY MinuteTypes
  <1>2. ASSUME UNCHANGED <<clock, hub.minute, inits>>, ~ Turning, ~ Turning',
               tick.pc \in {"fetch", "update", "write"}, tick'.pc \in {"idle", "update", "write"},
               tick'.old = tick.old \/ tick' = IdleTick,
               tick'.read # Null => tick'.pc = "write" /\ tick'.read.minute <= hub.minute,
               \A s \in Symbols : candle'[s] # Null
                 => candle'[s] = candle[s] \/ candle'[s].minute <= hub.minute
        PROVE  MinutesOK'
    <2>1. LastMinute = hub.minute /\ LastMinute' = hub.minute /\ Minute(clock)' = Minute(clock)
      BY <1>2 DEF LastMinute, Minute
    <2>2. \A s \in Symbols : tick'.old[s] = Null BY <1>2 DEF MinutesOK, IdleTick
    <2>3. \A s \in Symbols : candle'[s] # Null => candle'[s].minute <= hub.minute
      BY <1>2, <2>1 DEF MinutesOK
    <2> QED BY <1>2, <2>1, <2>2, <2>3 DEF MinutesOK
  <1>3. CASE Fetch
    <2>1. /\ tick.pc = "fetch" /\ tick'.pc = "update" /\ tick'.old = tick.old
          /\ tick'.read = tick.read /\ UNCHANGED <<clock, hub, inits, candle>>
      BY <1>1, <1>3 DEF Fetch, Quiet, Tick, stores
    <2>2. tick.read = Null BY <2>1 DEF MinutesOK
    <2> QED BY <1>2, <2>1, <2>2 DEF Turning
  <1>4. CASE TickEnds
    <2>1. /\ tick.pc = "update" /\ tick' = IdleTick
          /\ UNCHANGED <<clock, hub.minute, inits, candle>>
      BY <1>1, <1>4 DEF TickEnds, Quiet, stores, THInv, TypeOK
    <2>2. tick'.pc = "idle" /\ tick'.read = Null BY <2>1 DEF IdleTick
    <2> QED BY <1>2, <2>1, <2>2 DEF Turning
  <1>5. ASSUME NEW i \in tick.queue, ReadCandle(i) PROVE MinutesOK'
    <2>1. /\ tick.pc = "update" /\ tick'.pc = "write" /\ tick'.old = tick.old
          /\ tick'.read = candle[trades[i].symbol] /\ UNCHANGED <<clock, hub, inits, candle>>
      BY <1>1, <1>5 DEF ReadCandle, Quiet, Tick, stores
    <2>2. trades[i].symbol \in Symbols BY TradeSymbols DEF THInv, TickOK
    <2>3. ~ Turning /\ ~ Turning' BY <2>1 DEF Turning
    <2>4. tick'.read # Null => tick'.read.minute <= hub.minute
      BY <2>1, <2>2, <2>3 DEF MinutesOK, LastMinute
    <2> QED BY <1>2, <2>1, <2>3, <2>4
  <1>6. CASE WriteCandle
    <2> DEFINE x == trades[tick.trade]
    <2>1. /\ tick.pc = "write" /\ tick'.pc = "update" /\ tick'.old = tick.old /\ tick'.read = Null
          /\ UNCHANGED <<clock, hub, inits>>
      BY <1>1, <1>6 DEF WriteCandle, Quiet, Tick
    <2>2. x.symbol \in Symbols /\ x.price \in Prices
      BY <2>1, TradeSymbols DEF THInv, TickOK
    <2>3. Updated(x) \/ candle' = candle BY <1>6 DEF WriteCandle
    <2> HIDE DEF x
    <2>4. ASSUME Updated(x)
          PROVE  \E m \in Minutes, bar \in OHLCV : m <= hub.minute /\ SetCandle(x.symbol, m, bar)
      <3>1. CASE tick.read = Null
        <4>1. [Flat(x.price) EXCEPT !.volume = 1] \in OHLCV BY <2>2, FlatOK DEF OHLCV
        <4> QED BY <1>1, <2>4, <3>1, <4>1 DEF Updated
      <3>2. CASE tick.read # Null
        <4>1. tick.read.minute \in Minutes /\ Taken(tick.read.bar, x.price) \in OHLCV
          BY <1>1, <2>2, <3>2, TakenOK DEF Tick, Candle
        <4>2. tick.read.minute <= hub.minute BY <3>2 DEF MinutesOK
        <4> QED BY <2>4, <3>2, <4>1, <4>2 DEF Updated
      <3> QED BY <3>1, <3>2
    <2>5. \A s \in Symbols : candle'[s] = candle[s] \/ candle'[s].minute <= hub.minute
      BY <2>2, <2>3, <2>4, CandleIsSet
    <2> QED BY <1>2, <2>1, <2>5 DEF Turning
  <1> QED BY <1>3, <1>4, <1>5, <1>6

(* Every step keeps the minutes in order. *)
LEMMA NextKeepsMinutes == ASSUME THInv, MinutesOK, [Next]_vars PROVE MinutesOK'
  <1>1. CASE UNCHANGED vars BY <1>1, MinutesStay DEF vars, stores
  <1>2. CASE Next
    BY <1>2, EnvironmentMinutes, InitMinutes, TurnMinutes, PollMinutes DEF Next, Broadcaster
  <1> QED BY <1>1, <1>2

-----------------------------------------------------------------------------
(* A candle and the table of its symbol *)

Table == [Minutes -> OHLCV \cup {Null}]

Held(table) == {m \in Minutes : table[m] # Null}

Past(c, table) == IF c = Null THEN Held(table) ELSE Held(table) \ {c.minute}

Volumes(table, S) == SumFunctionOnSet([m \in S |-> table[m].volume], S)

(* The volume of a current candle and of the stored candles that are not its own. *)
Volume(c, table) == (IF c = Null THEN 0 ELSE c.bar.volume) + Volumes(table, Past(c, table))

(* What is stored is of the current candle's minute, and opened like it, or it is
   older, and then the current candle opened where the newest of it closed. *)
Fits(c, table) ==
  /\ c = Null => Held(table) = {}
  /\ c # Null =>
       /\ InShape(c.bar)
       /\ \A m \in Held(table) : m <= c.minute /\ InShape(table[m])
       /\ c.minute \in Held(table) => table[c.minute].open = c.bar.open
       /\ c.minute \notin Held(table) => \A m \in Newest(Held(table)) : table[m].close = c.bar.open

Chained(table) ==
  \A m, n \in Held(table) :
    (m < n /\ ~ \E k \in Held(table) : m < k /\ k < n) => table[n].open = table[m].close

(* Minutes are finitely many numbers. *)
LEMMA MinutesFinite == Minutes \subseteq Nat /\ IsFiniteSet(Minutes)
  <1>1. Minute(MaxTime) \in Nat BY CandleAssumption, DivMono DEF Minute
  <1> QED BY <1>1, FS_Interval DEF Minutes

(* The prices of a candle are numbers. *)
LEMMA BarTypes ==
  ASSUME NEW bar \in OHLCV
  PROVE  /\ bar.open \in Int /\ bar.high \in Int /\ bar.low \in Int /\ bar.close \in Int
         /\ bar.volume \in Nat
  <1> DEFINE P == Prices \cup {0}
  <1>1. P \subseteq Int BY PricesAreInt
  <1>2. bar \in [open : P, high : P, low : P, close : P, volume : Nat] BY DEF OHLCV
  <1> HIDE DEF P
  <1> QED BY <1>1, <1>2

(* A row of the table is a row of prices. *)
LEMMA HeldTypes ==
  ASSUME NEW T \in Table
  PROVE  /\ IsFiniteSet(Held(T)) /\ Held(T) \subseteq Minutes /\ Held(T) \subseteq Nat
         /\ \A m \in Held(T) : T[m] \in OHLCV
         /\ \A bar \in OHLCV : /\ bar.open \in Int /\ bar.high \in Int /\ bar.low \in Int
                               /\ bar.close \in Int /\ bar.volume \in Nat
         /\ \A c \in Candle : c # Null /\ c.bar \in OHLCV /\ c.minute \in Minutes /\ c.minute \in Nat
  <1>1. Held(T) \subseteq Minutes BY DEF Held
  <1>2. IsFiniteSet(Held(T)) /\ Held(T) \subseteq Nat BY <1>1, MinutesFinite, FS_Subset
  <1>3. \A m \in Held(T) : T[m] \in OHLCV BY DEF Held, Table
  <1>4. \A bar \in OHLCV : /\ bar.open \in Int /\ bar.high \in Int /\ bar.low \in Int
                           /\ bar.close \in Int /\ bar.volume \in Nat
    BY BarTypes
  <1>5. \A c \in Candle : c # Null /\ c.bar \in OHLCV /\ c.minute \in Minutes /\ c.minute \in Nat
    BY RowAssumption, MinutesFinite DEF Candle
  <1> QED BY <1>1, <1>2, <1>3, <1>4, <1>5

(* The volumes of an empty table are none. *)
LEMMA NoVolume == ASSUME NEW T PROVE Volumes(T, {}) = 0
  BY SumEmpty DEF Volumes

(* Volumes are those of the rows that they are the volumes of. *)
LEMMA SameVolumes ==
  ASSUME NEW S, NEW T, NEW U, \A m \in S : T[m] = U[m]
  PROVE  Volumes(T, S) = Volumes(U, S)
  <1>1. [m \in S |-> T[m].volume] = [m \in S |-> U[m].volume] OBVIOUS
  <1> QED BY <1>1 DEF Volumes

(* A candle that has just been opened is in shape, and so is one that takes a trade. *)
LEMMA FlatShape ==
  ASSUME NEW p \in Int
  PROVE  /\ InShape(Flat(p)) /\ Flat(p).volume = 0 /\ Flat(p).open = p /\ Flat(p).close = p
         /\ InShape([Flat(p) EXCEPT !.volume = 1])
         /\ [Flat(p) EXCEPT !.volume = 1].volume = 1
  BY DEF Flat, InShape

(* The trade widens the candle as far as its price, and leaves the open alone. *)
LEMMA TakenShape ==
  ASSUME NEW bar \in OHLCV, NEW p \in Prices, InShape(bar)
  PROVE  /\ InShape(Taken(bar, p)) /\ Taken(bar, p).open = bar.open
         /\ Taken(bar, p).volume = bar.volume + 1
  <1> DEFINE high == Max({bar.high, p})
             low  == Min({bar.low, p})
  <1>1. p \in Int /\ bar.open \in Int /\ bar.high \in Int /\ bar.low \in Int /\ bar.close \in Int
        /\ bar.volume \in Nat
    BY PricesAreInt, BarTypes
  <1>2. high \in {bar.high, p} /\ \A x \in {bar.high, p} : high >= x
    <2>1. \E x \in {bar.high, p} : \A y \in {bar.high, p} : x >= y BY <1>1
    <2> QED BY <2>1 DEF Max
  <1>3. low \in {bar.low, p} /\ \A x \in {bar.low, p} : low <= x
    <2>1. \E x \in {bar.low, p} : \A y \in {bar.low, p} : x <= y BY <1>1
    <2> QED BY <2>1 DEF Min
  <1>4. Taken(bar, p) = [bar EXCEPT !.high = high, !.low = low, !.close = p,
                                    !.volume = bar.volume + 1]
    BY DEF Taken
  <1> HIDE DEF high, low
  <1>5. /\ Taken(bar, p).high = high /\ Taken(bar, p).low = low /\ Taken(bar, p).close = p
        /\ Taken(bar, p).open = bar.open /\ Taken(bar, p).volume = bar.volume + 1
    BY <1>4 DEF OHLCV
  <1>6. high \in Int /\ low \in Int /\ high >= bar.high /\ high >= p /\ low <= bar.low /\ low <= p
    BY <1>1, <1>2, <1>3
  <1> QED BY <1>1, <1>5, <1>6 DEF InShape

(* The first candle of a symbol: nothing is stored, and nothing is counted. *)
LEMMA Opened ==
  ASSUME NEW T \in Table, Held(T) = {}, NEW c \in Candle, InShape(c.bar)
  PROVE  Fits(c, T) /\ Volume(c, T) = c.bar.volume
  <1>1. c # Null /\ c.bar.volume \in Nat BY HeldTypes
  <1>2. Past(c, T) = {} BY DEF Past
  <1>3. Volume(c, T) = c.bar.volume BY <1>1, <1>2, NoVolume DEF Volume
  <1>4. Fits(c, T) BY <1>1 DEF Fits, Newest
  <1> QED BY <1>3, <1>4

(* Storing the current candle, once or again, changes nothing of what was recorded. *)
LEMMA Saved ==
  ASSUME NEW T \in Table, NEW c \in Candle, Fits(c, T), Chained(T),
         NEW U, U = [T EXCEPT ![c.minute] = Upsert(T[c.minute], c.bar)]
  PROVE  U[c.minute] = c.bar /\ Fits(c, U) /\ Chained(U) /\ Volume(c, U) = Volume(c, T)
  <1> DEFINE k == c.minute
             H == Held(T)
  <1>1. c # Null /\ c.bar \in OHLCV /\ c.bar # Null /\ k \in Minutes /\ k \in Nat /\ H \subseteq Nat
        /\ H \subseteq Minutes
    BY HeldTypes, RowAssumption
  <1>2. /\ InShape(c.bar) /\ \A m \in H : m <= k /\ InShape(T[m])
        /\ k \in H => T[k].open = c.bar.open
        /\ k \notin H => \A m \in Newest(H) : T[m].close = c.bar.open
    BY <1>1 DEF Fits
  <1>3. Upsert(T[k], c.bar) = c.bar
    <2>1. CASE T[k] = Null BY <2>1 DEF Upsert
    <2>2. CASE T[k] # Null
      <3>1. T[k].open = c.bar.open BY <1>1, <1>2, <2>2 DEF Held
      <3>2. [c.bar EXCEPT !.open = c.bar.open] = c.bar BY <1>1 DEF OHLCV
      <3> QED BY <2>2, <3>1, <3>2 DEF Upsert
    <2> QED BY <2>1, <2>2
  <1>4. U[k] = c.bar /\ \A m \in Minutes \ {k} : U[m] = T[m]
    BY <1>1, <1>3 DEF Table
  <1>5. Held(U) = H \cup {k} BY <1>1, <1>4 DEF Held
  <1> HIDE DEF k, H
  <1>6. \A m \in H \ {k} : U[m] = T[m] BY <1>1, <1>4
  <1>7. Fits(c, U)
    <2>1. \A m \in Held(U) : m <= k /\ InShape(U[m]) BY <1>1, <1>2, <1>4, <1>5, <1>6
    <2> QED BY <1>1, <1>2, <1>4, <1>5, <2>1 DEF Fits, k
  <1>8. Chained(U)
    <2> SUFFICES ASSUME NEW m \in H \cup {k}, NEW n \in H \cup {k}, m < n,
                        ~ \E j \in H \cup {k} : m < j /\ j < n
                 PROVE  U[n].open = U[m].close
      BY <1>5 DEF Chained
    <2>1. n <= k /\ m \in H \ {k} /\ U[m] = T[m] BY <1>1, <1>2, <1>6
    <2>2. n \in H => T[n].open = T[m].close
      <3>1. \A a, b \in H : (a < b /\ ~ \E j \in H : a < j /\ j < b) => T[b].open = T[a].close
        BY DEF Chained, H
      <3> QED BY <2>1, <3>1
    <2>3. CASE n # k BY <1>6, <2>1, <2>2, <2>3
    <2>4. CASE n = k /\ k \in H BY <1>2, <1>4, <2>1, <2>2, <2>4
    <2>5. CASE n = k /\ k \notin H
      <3>1. \A j \in H : j <= m BY <1>1, <1>2, <2>1, <2>5
      <3>2. m \in Newest(H) BY <2>1, <3>1 DEF Newest
      <3> QED BY <1>2, <1>4, <2>1, <2>5, <3>2
    <2> QED BY <2>3, <2>4, <2>5
  <1>9. Volume(c, U) = Volume(c, T)
    <2>1. Past(c, U) = H \ {k} /\ Past(c, T) = H \ {k} BY <1>1, <1>5 DEF Past, H, k
    <2>2. Volumes(U, H \ {k}) = Volumes(T, H \ {k}) BY <1>6, SameVolumes
    <2> QED BY <2>1, <2>2 DEF Volume
  <1> QED BY <1>4, <1>7, <1>8, <1>9 DEF k

(* A candle that was stored gives way to a fresh one of a later minute. *)
LEMMA Replaced ==
  ASSUME NEW T \in Table, NEW c \in Candle, Fits(c, T), c.minute \in Held(T), T[c.minute] = c.bar,
         NEW d \in Candle, c.minute < d.minute, d.bar = Flat(c.bar.close)
  PROVE  Fits(d, T) /\ Volume(d, T) = Volume(c, T)
  <1> DEFINE k == c.minute
             H == Held(T)
  <1>1. /\ c # Null /\ d # Null /\ k \in Nat /\ d.minute \in Nat /\ H \subseteq Nat /\ k \in H
        /\ c.bar.close \in Int /\ c.bar.volume \in Nat /\ IsFiniteSet(H)
        /\ \A m \in H : T[m].volume \in Int
    <2>1. \A m \in H : T[m] \in OHLCV BY HeldTypes
    <2>2. \A m \in H : T[m].volume \in Int BY <2>1, BarTypes
    <2> QED BY <2>2, HeldTypes
  <1>2. InShape(d.bar) /\ d.bar.volume = 0 /\ d.bar.open = c.bar.close BY <1>1, FlatShape
  <1>3. \A m \in H : m <= k /\ InShape(T[m]) BY <1>1 DEF Fits
  <1>4. d.minute \notin H /\ \A m \in H : m <= d.minute
    <2> DEFINE e == d.minute
    <2>1. k < e /\ e \in Nat /\ k \in Nat /\ H \subseteq Nat /\ \A m \in H : m <= k
      BY <1>1, <1>3
    <2> HIDE DEF k, H, e
    <2>2. e \notin H /\ \A m \in H : m <= e BY ONLY <2>1
    <2> QED BY <2>2 DEF e
  <1>5. \A m \in Newest(H) : T[m].close = d.bar.open
    <2>1. \A m \in Newest(H) : m = k BY <1>1, <1>3 DEF Newest
    <2>2. T[k].close = d.bar.open BY <1>2
    <2> HIDE DEF k, H
    <2> QED BY <2>1, <2>2
  <1>6. Fits(d, T) BY <1>1, <1>2, <1>3, <1>4, <1>5 DEF Fits
  <1>7. Volumes(T, H) = T[k].volume + Volumes(T, H \ {k})
    <2> DEFINE f == [m \in H |-> T[m].volume]
               g == [m \in H \ {k} |-> T[m].volume]
    <2>1. f[k] = T[k].volume /\ (\A m \in H : f[m] \in Int) /\ \A m \in H \ {k} : f[m] = g[m]
      BY <1>1
    <2>2. Volumes(T, H) = SumFunctionOnSet(f, H)
          /\ Volumes(T, H \ {k}) = SumFunctionOnSet(g, H \ {k})
      BY DEF Volumes
    <2>3. IsFiniteSet(H \ {k}) BY <1>1, FS_Subset
    <2> HIDE DEF f, g, H, k
    <2>4. IsFiniteSet(H) /\ k \in H /\ \A m \in H : f[m] \in Int BY <1>1, <2>1
    <2>5. SumFunctionOnSet(f, H) = f[k] + SumFunctionOnSet(f, H \ {k})
      BY ONLY <2>4, SumRemove
    <2>6. SumFunctionOnSet(f, H \ {k}) = SumFunctionOnSet(g, H \ {k})
      BY <2>1, <2>3, SumSame
    <2> QED BY <2>1, <2>2, <2>5, <2>6
  <1>8. Past(d, T) = H /\ Past(c, T) = H \ {k} BY <1>1, <1>4 DEF Past
  <1>9. Volumes(T, H) \in Int
    <2> DEFINE f == [m \in H |-> T[m].volume]
    <2>1. \A m \in H : f[m] \in Int BY <1>1
    <2> HIDE DEF f, H
    <2>2. SumFunctionOnSet(f, H) \in Int BY <1>1, <2>1, SumType
    <2> QED BY <2>2 DEF f, Volumes
  <1> QED BY <1>1, <1>2, <1>6, <1>7, <1>8, <1>9 DEF Volume

(* A trade that is counted is one more in the volume. *)
LEMMA Counted ==
  ASSUME NEW T \in Table, NEW c \in Candle, Fits(c, T), NEW p \in Prices,
         NEW d \in Candle, d.minute = c.minute, d.bar = Taken(c.bar, p)
  PROVE  Fits(d, T) /\ Volume(d, T) = Volume(c, T) + 1
  <1>1. c # Null /\ d # Null /\ c.bar \in OHLCV /\ c.bar.volume \in Nat /\ InShape(c.bar)
    BY HeldTypes DEF Fits
  <1>2. InShape(d.bar) /\ d.bar.open = c.bar.open /\ d.bar.volume = c.bar.volume + 1
    BY <1>1, TakenShape
  <1>3. Fits(d, T) BY <1>1, <1>2 DEF Fits
  <1>4. Past(d, T) = Past(c, T) BY <1>1 DEF Past
  <1>5. Volumes(T, Past(c, T)) \in Int
    <2> DEFINE S == Past(c, T)
               f == [m \in S |-> T[m].volume]
    <2>1. S \subseteq Held(T) /\ IsFiniteSet(S) BY HeldTypes, FS_Subset DEF Past
    <2>2. \A m \in S : T[m].volume \in Int BY <2>1, HeldTypes
    <2>3. \A m \in S : f[m] \in Int BY <2>2
    <2> HIDE DEF f, S
    <2>4. SumFunctionOnSet(f, S) \in Int BY <2>1, <2>3, SumType
    <2> QED BY <2>4 DEF f, Volumes, S
  <1> QED BY <1>1, <1>2, <1>3, <1>4, <1>5 DEF Volume

-----------------------------------------------------------------------------
(* What is recorded of a symbol *)

(* How often the trades of s have been counted. *)
CountedVolume(s) == SumFunctionOnSet([i \in TradesOf(s) |-> trades[i].counted], TradesOf(s))

(* Every candle of s has the shape of one, those in the table are a chain that the
   current one continues, and their volume is what has been counted. *)
Sound(s) ==
  /\ Fits(candle[s], ohlcv[s])
  /\ Chained(ohlcv[s])
  /\ Volume(candle[s], ohlcv[s]) = CountedVolume(s)

(* What the broadcaster holds of a symbol is still so: the candle to be stored is the
   current one, the candle to be replaced has been stored, and the candle that was
   read for a trade is the current one, or there was none and one has been opened. *)
Known(s) ==
  /\ tick.old[s] # Null => candle[s] = tick.old[s]
  /\ tick.pc = "reset" /\ tick.symbol = s => ohlcv[s][tick.old[s].minute] = tick.old[s].bar
  /\ tick.pc = "write" /\ trades[tick.trade].symbol = s =>
       \/ candle[s] = tick.read
       \/ tick.read = Null /\ Held(ohlcv[s]) = {} /\ candle[s].bar.volume = 0

Undisturbed == \A s \in Symbols \ disturbed : Sound(s) /\ Known(s)

(* The counts and the windows, the minutes, and what is recorded, except of symbols that
   a named mishap has disturbed. *)
VInv == CInv /\ MinutesOK /\ Undisturbed

(* What the proofs need of the types. *)
LEMMA SymbolTypes ==
  ASSUME THInv, NEW s \in Symbols
  PROVE  /\ candle[s] \in Candle \cup {Null} /\ ohlcv[s] \in Table
         /\ IsFiniteSet(TradesOf(s)) /\ \A i \in TradesOf(s) : trades[i].counted \in Int
  <1>1. candle[s] \in Candle \cup {Null} /\ ohlcv[s] \in Table BY DEF THInv, TypeOK, Table
  <1>2. PICK n \in Nat : n = Len(trades) BY DEF THInv, TypeOK
  <1>3. DOMAIN trades = 1 .. n BY <1>2 DEF THInv, TypeOK
  <1>4. IsFiniteSet(DOMAIN trades) BY <1>3, FS_Interval
  <1>5. IsFiniteSet(TradesOf(s)) BY <1>4, FS_Subset DEF TradesOf
  <1>6. \A i \in TradesOf(s) : trades[i].counted \in Int BY TradeTypes DEF TradesOf
  <1> QED BY <1>1, <1>5, <1>6

(* Nothing is recorded before the first candle. *)
LEMMA SoundAtStart == Init => Undisturbed
  <1> SUFFICES ASSUME Init, NEW s \in Symbols PROVE Sound(s) /\ Known(s) BY DEF Undisturbed
  <1>1. candle[s] = Null /\ Held(ohlcv[s]) = {} /\ TradesOf(s) = {}
    BY DEF Init, Held, TradesOf
  <1>2. Past(candle[s], ohlcv[s]) = {} BY <1>1 DEF Past
  <1>3. Volume(candle[s], ohlcv[s]) = 0 BY <1>1, <1>2, NoVolume DEF Volume
  <1>4. CountedVolume(s) = 0 BY <1>1, SumEmpty DEF CountedVolume
  <1>5. Sound(s) BY <1>1, <1>3, <1>4 DEF Sound, Fits, Chained
  <1>6. Known(s) BY DEF Init, IdleTick, Known
  <1> QED BY <1>5, <1>6

(* A step that leaves alone the candle, the table and the trades of a symbol. *)
LEMMA SoundStays ==
  ASSUME NEW s, Sound(s), candle'[s] = candle[s], ohlcv'[s] = ohlcv[s],
         CountedVolume(s)' = CountedVolume(s)
  PROVE  Sound(s)'
  BY DEF Sound

(* The counts of a symbol are those of its trades. *)
LEMMA SameCounts ==
  ASSUME NEW s, TradesOf(s)' = TradesOf(s),
         \A i \in TradesOf(s) : trades'[i].counted = trades[i].counted
  PROVE  CountedVolume(s)' = CountedVolume(s)
  <1>1. [i \in TradesOf(s) |-> trades'[i].counted] = [i \in TradesOf(s) |-> trades[i].counted]
    OBVIOUS
  <1> QED BY <1>1 DEF CountedVolume

(* A trade that has just committed is in no volume. *)
LEMMA CommitIsNotCounted ==
  ASSUME THInv, NEW q \in Symbols, NEW time \in Times, CommitTrade(q, time), NEW s \in Symbols
  PROVE  /\ CountedVolume(s)' = CountedVolume(s)
         /\ \A i \in DOMAIN trades : trades'[i] = trades[i]
  <1>1. PICK n \in Nat : n = Len(trades) BY DEF THInv, TypeOK
  <1> DEFINE x == [symbol |-> q, price |-> TradePrices[n + 1], time |-> time,
                   onTime |-> time >= NextWindow, counted |-> 0]
  <1>2. trades' = Append(trades, x) /\ trades \in Seq(Trade)
    BY <1>1 DEF CommitTrade, THInv, TypeOK
  <1>3. x.symbol = q /\ x.counted = 0 OBVIOUS
  <1> HIDE DEF x
  <1>4. /\ DOMAIN trades' = DOMAIN trades \cup {n + 1} /\ n + 1 \notin DOMAIN trades
        /\ trades'[n + 1] = x /\ \A i \in DOMAIN trades : trades'[i] = trades[i]
    BY <1>1, <1>2
  <1>5. CASE s # q
    <2>1. TradesOf(s)' = TradesOf(s) BY <1>3, <1>4, <1>5 DEF TradesOf
    <2>2. \A i \in TradesOf(s) : trades'[i].counted = trades[i].counted
      BY <1>4 DEF TradesOf
    <2> QED BY <1>4, <2>1, <2>2, SameCounts
  <1>6. CASE s = q
    <2> DEFINE S == TradesOf(s)
               f == [i \in S |-> trades[i].counted]
               g == [i \in S \cup {n + 1} |-> trades'[i].counted]
               k == n + 1
    <2>1. TradesOf(s)' = S \cup {k} /\ k \notin S
      BY <1>3, <1>4, <1>6 DEF TradesOf
    <2>2. IsFiniteSet(S) /\ \A i \in S : f[i] \in Int BY SymbolTypes
    <2>3. g[k] = 0 /\ \A i \in S : g[i] = f[i] BY <1>3, <1>4 DEF TradesOf
    <2>4. CountedVolume(s) = SumFunctionOnSet(f, S)
          /\ CountedVolume(s)' = SumFunctionOnSet(g, S \cup {k})
      BY <2>1 DEF CountedVolume
    <2> HIDE DEF f, g, S, k
    <2>5. \A i \in S \cup {k} : g[i] \in Int BY <2>2, <2>3
    <2>6. SumFunctionOnSet(g, S \cup {k}) = g[k] + SumFunctionOnSet(g, S)
      BY <2>1, <2>2, <2>5, SumAdd
    <2>7. SumFunctionOnSet(f, S) = SumFunctionOnSet(g, S) BY <2>2, <2>3, SumSame
    <2>8. SumFunctionOnSet(f, S) \in Int BY <2>2, SumType
    <2> QED BY <1>4, <2>3, <2>4, <2>6, <2>7, <2>8
  <1> QED BY <1>5, <1>6

(* A trade that is counted adds one to the volume of its symbol. *)
LEMMA CountedOnce ==
  ASSUME THInv, NEW j \in DOMAIN trades, trades' = [trades EXCEPT ![j].counted = @ + 1],
         NEW s \in Symbols
  PROVE  /\ CountedVolume(s) \in Int
         /\ CountedVolume(s)' = CountedVolume(s) + (IF trades[j].symbol = s THEN 1 ELSE 0)
  <1> DEFINE S == TradesOf(s)
             f == [i \in S |-> trades[i].counted]
             g == [i \in S |-> trades'[i].counted]
  <1>1. trades \in Seq(Trade) /\ (\A i \in DOMAIN trades : trades[i] \in Trade)
        /\ trades[j].counted \in Int
    BY TradeTypes DEF THInv, TypeOK
  <1>2. DOMAIN trades' = DOMAIN trades /\ \A i \in DOMAIN trades \ {j} : trades'[i] = trades[i]
    BY <1>1
  <1>3. trades'[j] = [trades[j] EXCEPT !.counted = @ + 1] BY <1>1
  <1>4. trades'[j].symbol = trades[j].symbol /\ trades'[j].counted = trades[j].counted + 1
    BY <1>1, <1>3 DEF Trade
  <1>5. TradesOf(s)' = S BY <1>2, <1>4 DEF TradesOf
  <1>6. CountedVolume(s) = SumFunctionOnSet(f, S) /\ CountedVolume(s)' = SumFunctionOnSet(g, S)
    BY <1>5 DEF CountedVolume
  <1>7. IsFiniteSet(S) /\ \A i \in S : f[i] \in Int BY SymbolTypes
  <1>8. \A i \in S : i # j => g[i] = f[i] BY <1>2 DEF TradesOf
  <1>9. j \in S => g[j] = f[j] + 1 BY <1>4
  <1>10. j \in S <=> trades[j].symbol = s BY DEF TradesOf
  <1> HIDE DEF S, f, g
  <1>11. SumFunctionOnSet(f, S) \in Int BY <1>7, SumType
  <1>12. CASE j \in S
    <2>1. \A i \in S : g[i] \in Int /\ f[i] \in Int BY <1>7, <1>8, <1>9
    <2>2. \A i \in S \ {j} : g[i] = f[i] BY <1>8
    <2>3. SumFunctionOnSet(g, S) = SumFunctionOnSet(f, S) + (g[j] - f[j])
      BY <1>7, <1>12, <2>1, <2>2, SumChangeOne
    <2>4. g[j] - f[j] = 1 BY <1>9, <1>12, <2>1
    <2> QED BY <1>6, <1>10, <1>11, <1>12, <2>3, <2>4
  <1>13. CASE j \notin S
    <2>1. \A i \in S : f[i] = g[i] BY <1>8, <1>13
    <2>2. SumFunctionOnSet(f, S) = SumFunctionOnSet(g, S) BY <1>7, <2>1, SumSame
    <2> QED BY <1>6, <1>10, <1>11, <1>13, <2>2
  <1> QED BY <1>12, <1>13

-----------------------------------------------------------------------------
(* Steps *)

(* What the broadcaster holds of a symbol stays so while it goes on, and while
   nobody else changes the candle. *)
LEMMA KnownStays ==
  ASSUME NEW s, Known(s), candle'[s] = candle[s], ohlcv'[s] = ohlcv[s],
         tick'.old[s] \in {tick.old[s], Null},
         tick'.pc = "reset" => UNCHANGED <<tick.pc, tick.symbol, tick.old>>,
         tick'.pc = "write" => /\ UNCHANGED <<tick.pc, tick.trade, tick.read>>
                               /\ trades'[tick.trade] = trades[tick.trade]
  PROVE  Known(s)'
  BY DEF Known

(* Commits, crashes and the clock change no candle; one that expires is disturbed. *)
LEMMA EnvironmentSound == ASSUME VInv, Environment PROVE Undisturbed'
  <1>1. THInv BY DEF VInv, CInv
  <1>2. CASE Advance
    <2>1. UNCHANGED <<candle, ohlcv, trades, tick, disturbed>> BY <1>2 DEF Advance, stores
    <2>2. ASSUME NEW s \in Symbols \ disturbed PROVE Sound(s)' /\ Known(s)'
      <3>1. CountedVolume(s)' = CountedVolume(s) BY <2>1, SameCounts DEF TradesOf
      <3> QED BY <2>1, <3>1, SoundStays, KnownStays DEF VInv, Undisturbed
    <2> QED BY <2>1, <2>2 DEF Undisturbed
  <1>3. CASE Crash
    <2>1. UNCHANGED <<candle, ohlcv, trades, disturbed>> /\ tick' = IdleTick
      BY <1>3 DEF Crash, stores
    <2>2. ASSUME NEW s \in Symbols \ disturbed PROVE Sound(s)' /\ Known(s)'
      <3>1. CountedVolume(s)' = CountedVolume(s) BY <2>1, SameCounts DEF TradesOf
      <3>2. Sound(s)' BY <2>1, <3>1, SoundStays DEF VInv, Undisturbed
      <3>3. Known(s)' BY <2>1 DEF Known, IdleTick
      <3> QED BY <3>2, <3>3
    <2> QED BY <2>1, <2>2 DEF Undisturbed
  <1>4. ASSUME NEW q \in Symbols, Expire(q) PROVE Undisturbed'
    <2>1. /\ UNCHANGED <<ohlcv, trades, tick>> /\ disturbed' = disturbed \cup {q}
          /\ \A s \in Symbols \ {q} : candle'[s] = candle[s]
      BY <1>1, <1>4 DEF Expire, THInv, TypeOK
    <2>2. ASSUME NEW s \in Symbols \ disturbed' PROVE Sound(s)' /\ Known(s)'
      <3>1. s \in Symbols \ disturbed /\ candle'[s] = candle[s] BY <2>1
      <3>2. CountedVolume(s)' = CountedVolume(s) BY <2>1, SameCounts DEF TradesOf
      <3>3. Sound(s) /\ Known(s) BY <3>1 DEF VInv, Undisturbed
      <3> QED BY <2>1, <3>1, <3>2, <3>3, SoundStays, KnownStays
    <2> QED BY <2>2 DEF Undisturbed
  <1>5. ASSUME NEW q \in Symbols, Subscribe(q) PROVE Undisturbed'
    <2>1. UNCHANGED <<candle, ohlcv, trades, tick, disturbed>> BY <1>5 DEF Subscribe, stores
    <2>2. ASSUME NEW s \in Symbols \ disturbed PROVE Sound(s)' /\ Known(s)'
      <3>1. CountedVolume(s)' = CountedVolume(s) BY <2>1, SameCounts DEF TradesOf
      <3> QED BY <2>1, <3>1, SoundStays, KnownStays DEF VInv, Undisturbed
    <2> QED BY <2>1, <2>2 DEF Undisturbed
  <1>6. ASSUME NEW q \in Symbols, NEW time \in Times, CommitTrade(q, time) PROVE Undisturbed'
    <2>1. UNCHANGED <<candle, ohlcv, tick, disturbed>> BY <1>6 DEF CommitTrade, stores
    <2>2. ASSUME NEW s \in Symbols \ disturbed PROVE Sound(s)' /\ Known(s)'
      <3>1. CountedVolume(s)' = CountedVolume(s) /\ \A i \in DOMAIN trades : trades'[i] = trades[i]
        BY <1>1, <1>6, CommitIsNotCounted
      <3>2. tick.pc = "write" => trades'[tick.trade] = trades[tick.trade]
        BY <1>1, <3>1 DEF THInv, TickOK
      <3> QED BY <2>1, <3>1, <3>2, SoundStays, KnownStays DEF VInv, Undisturbed
    <2> QED BY <2>1, <2>2 DEF Undisturbed
  <1> QED BY <1>2, <1>3, <1>4, <1>5, <1>6 DEF Environment

(* A goroutine opens the first candle of a symbol, or disturbs the symbol. *)
LEMMA InitSound == ASSUME VInv, NEW g \in inits, InitStep(g) PROVE Undisturbed'
  <1>1. THInv /\ g \in Initializer /\ g.symbol \in Symbols /\ g.minute \in Minutes
        /\ g.price \in Prices \cup {0}
    BY DEF VInv, CInv, THInv, TypeOK, Initializer
  <1>2. UNCHANGED <<ohlcv, trades, tick>>
    BY DEF InitStep, InitExists, InitMissing, InitCheckFails, InitFromTable, InitFromTrades,
           InitMinute, InitReset, stores
  <1>3. ASSUME NEW s \in Symbols \ disturbed, candle'[s] = candle[s] PROVE Sound(s)' /\ Known(s)'
    <2>1. CountedVolume(s)' = CountedVolume(s) BY <1>2, SameCounts DEF TradesOf
    <2> QED BY <1>2, <1>3, <2>1, SoundStays, KnownStays DEF VInv, Undisturbed
  <1>4. CASE UNCHANGED <<candle, disturbed>>
    BY <1>3, <1>4 DEF Undisturbed
  <1>5. CASE /\ SetCandle(g.symbol, g.minute, Flat(g.price))
             /\ disturbed' = disturbed \cup IF candle[g.symbol] = Null THEN {} ELSE {g.symbol}
    <2> DEFINE s == g.symbol
               c == candle'[s]
               T == ohlcv[s]
    <2>1. c # Null /\ c.bar = Flat(g.price) /\ \A q \in Symbols \ {s} : candle'[q] = candle[q]
      BY <1>1, <1>5, FlatOK, CandleIsSet
    <2>2. ASSUME s \notin disturbed' PROVE Sound(s)' /\ Known(s)'
      <3>1. candle[s] = Null /\ s \in Symbols \ disturbed BY <1>1, <1>5, <2>2
      <3>2. Sound(s) /\ Known(s) /\ CountedVolume(s)' = CountedVolume(s)
        BY <1>2, <3>1, SameCounts DEF TradesOf, VInv, Undisturbed
      <3>3. T \in Table /\ c \in Candle
        <4>1. THInv' BY <1>1, InitTypes
        <4> QED BY <1>1, <2>1, <4>1, SymbolTypes DEF THInv, TypeOK
      <3>4. Held(T) = {} /\ CountedVolume(s) = 0
        <4>1. Held(T) = {} BY <3>1, <3>2 DEF Sound, Fits
        <4>2. Past(Null, T) = {} BY <4>1 DEF Past
        <4>3. Volume(Null, T) = 0 BY <4>2, NoVolume DEF Volume
        <4> QED BY <3>1, <3>2, <4>1, <4>3 DEF Sound
      <3>5. InShape(c.bar) /\ c.bar.volume = 0
        <4>1. g.price \in Int BY <1>1, OpeningPrice
        <4>2. InShape(Flat(g.price)) /\ Flat(g.price).volume = 0 BY <4>1, FlatShape
        <4> HIDE DEF c
        <4> QED BY <2>1, <4>2
      <3>6. Fits(c, T) /\ Volume(c, T) = 0 BY <3>3, <3>4, <3>5, Opened
      <3>7. Sound(s)' BY <1>2, <3>2, <3>4, <3>6 DEF Sound
      <3>8. tick.old[s] = Null BY <3>1, <3>2 DEF Known
      <3>9. Known(s)'
        BY <1>1, <1>2, <3>1, <3>2, <3>4, <3>5, <3>8 DEF Known, THInv, TickOK
      <3> QED BY <3>7, <3>9
    <2>3. disturbed \subseteq disturbed' BY <1>5
    <2>4. ASSUME NEW q \in Symbols \ disturbed' PROVE Sound(q)' /\ Known(q)'
      BY <1>3, <2>1, <2>2, <2>3
    <2> QED BY <2>4 DEF Undisturbed
  <1>6. CASE InitExists(g) \/ InitMissing(g) \/ InitCheckFails(g)
    BY <1>4, <1>6 DEF InitExists, InitMissing, InitCheckFails, stores
  <1>7. CASE InitFromTable(g) \/ InitFromTrades(g) \/ InitMinute(g)
    <2>1. UNCHANGED <<candle, disturbed>>
      BY <1>7 DEF InitFromTable, InitFromTrades, InitMinute, stores
    <2> QED BY <1>4, <2>1
  <1>8. CASE InitReset(g) BY <1>4, <1>5, <1>8 DEF InitReset
  <1> QED BY <1>6, <1>7, <1>8 DEF InitStep

(* A turn of the minute stores each candle as it is and replaces only what has been
   stored. *)
LEMMA TurnSound ==
  ASSUME VInv,
         \/ TickStart \/ ListOld \/ ResetOld \/ SpawnMissing \/ TurnMinute
         \/ \E s \in Symbols : SkipOld(s) \/ SaveOld(s)
  PROVE  Undisturbed'
  <1>1. THInv /\ MinutesOK /\ tick \in Tick BY DEF VInv, CInv, THInv, TypeOK
  <1>2. \A s \in Symbols \ disturbed : Sound(s) /\ Known(s) BY DEF VInv, Undisturbed
  <1>3. trades' = trades
    BY DEF TickStart, ListOld, ResetOld, SpawnMissing, TurnMinute, SkipOld, SaveOld
  <1>4. \A s \in Symbols : CountedVolume(s)' = CountedVolume(s)
    BY <1>3, SameCounts DEF TradesOf
  <1>5. \A old : Rolling(old) \in {"turn", "roll"} BY DEF Rolling
  <1>6. CASE TickStart \/ SpawnMissing \/ TurnMinute
    <2>1. /\ UNCHANGED <<candle, ohlcv, disturbed>> /\ tick'.old = tick.old
          /\ tick'.pc \in {"list", "minute", "fetch"}
      BY <1>1, <1>6 DEF TickStart, SpawnMissing, TurnMinute, Tick, stores
    <2>2. \A s \in Symbols \ disturbed : Sound(s)' BY <1>2, <1>4, <2>1, SoundStays
    <2>3. \A s \in Symbols \ disturbed : Known(s)' BY <1>2, <2>1 DEF Known
    <2> QED BY <2>1, <2>2, <2>3 DEF Undisturbed
  <1>7. CASE ListOld
    <2>1. /\ UNCHANGED <<candle, ohlcv, disturbed>> /\ tick'.pc \in {"turn", "roll"}
          /\ \A s \in Symbols : tick'.old[s] \in {candle[s], Null}
      <3>1. PICK readable \in SUBSET Symbols :
              tick' = [tick EXCEPT !.pc = Rolling(Listed(readable)), !.old = Listed(readable)]
        BY <1>7 DEF ListOld
      <3>2. \A s \in Symbols : Listed(readable)[s] \in {candle[s], Null} BY DEF Listed
      <3>3. UNCHANGED <<candle, ohlcv, disturbed>> BY <1>7 DEF ListOld, stores
      <3> QED BY <1>1, <1>5, <3>1, <3>2, <3>3 DEF Tick
    <2>2. \A s \in Symbols \ disturbed : Sound(s)' BY <1>2, <1>4, <2>1, SoundStays
    <2>3. \A s \in Symbols \ disturbed : Known(s)' BY <1>2, <2>1 DEF Known
    <2> QED BY <2>1, <2>2, <2>3 DEF Undisturbed
  <1>8. ASSUME NEW q \in Symbols, Handled(q)
        PROVE  /\ tick'.pc \in {"turn", "roll"} /\ tick'.old[q] = Null
               /\ \A s \in Symbols \ {q} : tick'.old[s] = tick.old[s]
    <2> DEFINE old == [tick.old EXCEPT ![q] = Null]
    <2>1. old[q] = Null /\ \A s \in Symbols \ {q} : old[s] = tick.old[s] BY <1>1 DEF Tick
    <2>2. tick' = [tick EXCEPT !.pc = Rolling(old), !.old = old, !.symbol = Null]
      BY <1>8 DEF Handled
    <2> HIDE DEF old
    <2>3. tick'.pc = Rolling(old) /\ tick'.old = old BY <1>1, <2>2 DEF Tick
    <2> QED BY <1>5, <2>1, <2>3
  <1>9. ASSUME NEW q \in Symbols, SkipOld(q) PROVE Undisturbed'
    <2>1. UNCHANGED <<candle, ohlcv, disturbed>> /\ Handled(q) BY <1>9 DEF SkipOld, stores
    <2>2. \A s \in Symbols \ disturbed : Sound(s)' BY <1>2, <1>4, <2>1, SoundStays
    <2>3. tick'.pc \in {"turn", "roll"} /\ \A s \in Symbols : tick'.old[s] \in {tick.old[s], Null}
      BY <1>8, <2>1
    <2>4. \A s \in Symbols \ disturbed : Known(s)' BY <1>2, <2>1, <2>3, KnownStays
    <2> QED BY <2>1, <2>2, <2>4 DEF Undisturbed
  <1>10. ASSUME NEW q \in Symbols, SaveOld(q) PROVE Undisturbed'
    <2> DEFINE c == tick.old[q]
               T == ohlcv[q]
               U == [T EXCEPT ![c.minute] = Upsert(T[c.minute], c.bar)]
    <2>1. /\ tick'.pc = "reset" /\ tick'.symbol = q /\ tick'.old = tick.old /\ candle' = candle
          /\ c # Null /\ disturbed \subseteq disturbed'
      BY <1>1, <1>10 DEF SaveOld, Old, Tick
    <2>2. \/ ohlcv' = [ohlcv EXCEPT ![q] = U]
          \/ ohlcv' = ohlcv /\ disturbed' = disturbed \cup {q}
      BY <1>10 DEF SaveOld, SaveOHLCV
    <2>3. ohlcv \in [Symbols -> Table] BY <1>1 DEF THInv, TypeOK, Table
    <2> HIDE DEF U
    <2>4. \A s \in Symbols \ {q} : ohlcv'[s] = ohlcv[s] BY <2>2, <2>3
    <2>5. ASSUME NEW s \in Symbols \ disturbed', s # q PROVE Sound(s)' /\ Known(s)'
      <3>1. Sound(s) /\ Known(s) BY <1>2, <2>1
      <3>2. Sound(s)' BY <1>4, <2>1, <2>4, <2>5, <3>1, SoundStays
      <3>3. Known(s)' BY <2>1, <2>5, <3>1 DEF Known
      <3> QED BY <3>2, <3>3
    <2>6. ASSUME q \notin disturbed' PROVE Sound(q)' /\ Known(q)'
      <3>1. Sound(q) /\ Known(q) /\ ohlcv'[q] = U BY <1>2, <2>1, <2>2, <2>3, <2>6
      <3>2. candle[q] = c /\ c \in Candle /\ T \in Table
        BY <1>1, <2>1, <2>3, <3>1, MinuteTypes DEF Known
      <3>3. Fits(c, T) /\ Chained(T) /\ Volume(c, T) = CountedVolume(q)
        BY <3>1, <3>2 DEF Sound
      <3>4. U[c.minute] = c.bar /\ Fits(c, U) /\ Chained(U) /\ Volume(c, U) = Volume(c, T)
        <4>1. U = [T EXCEPT ![c.minute] = Upsert(T[c.minute], c.bar)] BY DEF U
        <4> HIDE DEF c, T
        <4> QED BY <3>2, <3>3, <4>1, Saved
      <3>5. Sound(q)' BY <1>4, <2>1, <3>1, <3>2, <3>3, <3>4 DEF Sound
      <3>6. Known(q)' BY <2>1, <3>1, <3>2, <3>4 DEF Known
      <3> QED BY <3>5, <3>6
    <2> QED BY <2>5, <2>6 DEF Undisturbed
  <1>11. CASE ResetOld
    <2>0. PICK q \in Symbols : q = tick.symbol BY <1>1, <1>11 DEF ResetOld, THInv, TickOK
    <2> DEFINE c == tick.old[q]
               T == ohlcv[q]
    <2>1. /\ tick.pc = "reset" /\ tick.symbol = q /\ c \in Candle /\ c # Null /\ Handled(q)
          /\ UNCHANGED <<ohlcv, disturbed>>
      BY <1>1, <1>11, <2>0, MinuteTypes DEF ResetOld, THInv, TickOK
    <2>2. /\ tick'.pc \in {"turn", "roll"} /\ tick'.old[q] = Null
          /\ \A s \in Symbols \ {q} : tick'.old[s] = tick.old[s]
      BY <1>8, <2>1
    <2>3. c.bar \in OHLCV /\ c.bar.close \in Prices \cup {0} BY <2>1 DEF Candle, OHLCV
    <2>4. \/ candle' = candle
          \/ SetCandle(q, Minute(tick.now), Flat(c.bar.close))
      BY <1>11, <2>0 DEF ResetOld
    <2>5. \/ candle' = candle
          \/ /\ candle'[q] # Null /\ candle'[q].minute = Minute(tick.now)
             /\ candle'[q].bar = Flat(c.bar.close)
             /\ \A s \in Symbols \ {q} : candle'[s] = candle[s]
      BY <1>1, <2>1, <2>3, <2>4, FlatOK, MinuteTypes, CandleIsSet
    <2>6. ASSUME NEW s \in Symbols \ disturbed, candle'[s] = candle[s] PROVE Sound(s)' /\ Known(s)'
      <3>1. Sound(s)' BY <1>2, <1>4, <2>1, <2>6, SoundStays
      <3>2. tick'.old[s] \in {tick.old[s], Null} BY <2>2
      <3>3. Known(s)' BY <1>2, <2>1, <2>2, <2>6, <3>2, KnownStays
      <3> QED BY <3>1, <3>3
    <2>7. ASSUME q \notin disturbed, candle'[q] # Null, candle'[q].minute = Minute(tick.now),
                 candle'[q].bar = Flat(c.bar.close)
          PROVE  Sound(q)' /\ Known(q)'
      <3> DEFINE d == candle'[q]
      <3>1. Sound(q) /\ Known(q) /\ candle[q] = c /\ T[c.minute] = c.bar
        BY <1>2, <2>1, <2>7 DEF Known
      <3>2. THInv' BY <1>1, <1>11, TurnTypes
      <3>3. d \in Candle /\ T \in Table
        BY <1>1, <2>1, <2>7, <3>2, SymbolTypes DEF THInv, TypeOK
      <3>4. Fits(c, T) /\ Chained(T) /\ Volume(c, T) = CountedVolume(q) BY <3>1 DEF Sound
      <3>5. c.minute \in Held(T)
        <4>1. c.minute \in Minutes BY <2>1, MinuteTypes, <1>1
        <4> QED BY <2>3, <3>1, <4>1, RowAssumption DEF Held
      <3>6. c.minute < d.minute
        <4>1. c.minute <= hub.minute BY <1>1, <2>1 DEF MinutesOK
        <4>2. hub.minute < Minute(tick.now) BY <1>1, <2>1 DEF MinutesOK, Turning
        <4>3. c.minute \in Nat /\ hub.minute \in Nat /\ Minute(tick.now) \in Nat
          BY <1>1, <2>1, MinuteTypes
        <4> QED BY <2>7, <4>1, <4>2, <4>3
      <3>7. Fits(d, T) /\ Volume(d, T) = Volume(c, T)
        <4>1. d.bar = Flat(c.bar.close) BY <2>7
        <4> HIDE DEF c, d, T
        <4> QED BY <2>1, <3>1, <3>3, <3>4, <3>5, <3>6, <4>1, Replaced
      <3>8. Sound(q)' BY <1>4, <2>1, <3>4, <3>7 DEF Sound
      <3>9. Known(q)' BY <2>2 DEF Known
      <3> QED BY <3>8, <3>9
    <2>8. ASSUME NEW s \in Symbols \ disturbed PROVE Sound(s)' /\ Known(s)'
      <3>1. CASE candle'[s] = candle[s] BY <2>6, <3>1
      <3>2. CASE candle'[s] # candle[s] BY <2>5, <2>7, <3>2
      <3> QED BY <3>1, <3>2
    <2> QED BY <2>1, <2>8 DEF Undisturbed
  <1> QED BY <1>6, <1>7, <1>9, <1>10, <1>11

(* Counting a trade adds it to the volume of the candle that was read. *)
LEMMA PollSound ==
  ASSUME VInv,
         \/ Fetch \/ WriteCandle \/ TickEnds
         \/ \E i \in tick.queue : ReadCandle(i)
  PROVE  Undisturbed'
  <1>1. THInv /\ MinutesOK /\ tick \in Tick BY DEF VInv, CInv, THInv, TypeOK
  <1>2. \A s \in Symbols \ disturbed : Sound(s) /\ Known(s) BY DEF VInv, Undisturbed
  <1>3. UNCHANGED <<ohlcv, disturbed>>
    BY DEF Fetch, WriteCandle, TickEnds, ReadCandle, stores
  <1>4. CASE Fetch \/ TickEnds
    <2>1. /\ UNCHANGED <<candle, trades>> /\ tick'.pc \in {"update", "idle"}
          /\ tick'.old = tick.old \/ tick' = IdleTick
      <3>1. CASE Fetch BY <1>1, <3>1 DEF Fetch, Tick, stores
      <3>2. CASE TickEnds
        <4>1. tick' = IdleTick /\ UNCHANGED <<candle, trades>> BY <3>2 DEF TickEnds, stores
        <4>2. IdleTick.pc = "idle" BY DEF IdleTick
        <4> QED BY <4>1, <4>2
      <3> QED BY <1>4, <3>1, <3>2
    <2>2. \A s \in Symbols : CountedVolume(s)' = CountedVolume(s)
      BY <2>1, SameCounts DEF TradesOf
    <2>3. \A s \in Symbols \ disturbed : Sound(s)' BY <1>2, <1>3, <2>1, <2>2, SoundStays
    <2>4. \A s \in Symbols \ disturbed : Known(s)'
      BY <1>2, <1>3, <2>1 DEF Known, IdleTick
    <2> QED BY <1>3, <2>3, <2>4 DEF Undisturbed
  <1>5. ASSUME NEW i \in tick.queue, ReadCandle(i) PROVE Undisturbed'
    <2>1. /\ UNCHANGED <<candle, trades>> /\ tick'.pc = "write" /\ tick'.old = tick.old
          /\ tick'.trade = i /\ tick'.read = candle[trades[i].symbol]
      BY <1>1, <1>5 DEF ReadCandle, Tick, stores
    <2>2. \A s \in Symbols : CountedVolume(s)' = CountedVolume(s)
      BY <2>1, SameCounts DEF TradesOf
    <2>3. \A s \in Symbols \ disturbed : Sound(s)' BY <1>2, <1>3, <2>1, <2>2, SoundStays
    <2>4. \A s \in Symbols \ disturbed : Known(s)' BY <1>2, <1>3, <2>1 DEF Known
    <2> QED BY <1>3, <2>3, <2>4 DEF Undisturbed
  <1>6. CASE WriteCandle
    <2>0. PICK j \in DOMAIN trades : j = tick.trade
      BY <1>1, <1>6 DEF WriteCandle, THInv, TickOK
    <2>1. PICK x \in Trade : x = trades[j] BY <1>1 DEF THInv, TypeOK
    <2>2. PICK q \in Symbols : q = x.symbol BY <2>1 DEF Trade
    <2>3. PICK p \in Prices : p = x.price BY <2>1 DEF Trade
    <2>4. /\ tick.pc = "write" /\ tick'.pc = "update" /\ tick'.old = tick.old
          /\ \A s \in Symbols : tick.old[s] = Null
      BY <1>1, <1>6 DEF WriteCandle, Tick, MinutesOK
    <2>5. \/ UNCHANGED <<candle, trades>>
          \/ Updated(x) /\ trades' = [trades EXCEPT ![j].counted = @ + 1]
      BY <1>6, <2>0, <2>1 DEF WriteCandle
    <2>6. \A s \in Symbols : Known(s)' BY <2>4 DEF Known
    <2>7. CASE UNCHANGED <<candle, trades>>
      <3>1. \A s \in Symbols : CountedVolume(s)' = CountedVolume(s)
        BY <2>7, SameCounts DEF TradesOf
      <3>2. \A s \in Symbols \ disturbed : Sound(s)' BY <1>2, <1>3, <2>7, <3>1, SoundStays
      <3> QED BY <1>3, <2>6, <3>2 DEF Undisturbed
    <2>8. CASE Updated(x) /\ trades' = [trades EXCEPT ![j].counted = @ + 1]
      <3> DEFINE one == [Flat(p) EXCEPT !.volume = 1]
      <3>1. one \in OHLCV /\ InShape(one) /\ one.volume = 1
        BY FlatOK, FlatShape, OpeningPrice DEF OHLCV
      <3>2. tick.read = Null => SetCandle(q, hub.minute, one)
        BY <2>2, <2>3, <2>8 DEF Updated
      <3>3. tick.read # Null =>
              /\ SetCandle(q, tick.read.minute, Taken(tick.read.bar, p))
              /\ tick.read.minute \in Minutes /\ Taken(tick.read.bar, p) \in OHLCV
        BY <1>1, <2>2, <2>3, <2>8, MinuteTypes, TakenOK DEF Updated
      <3> HIDE DEF one
      <3>4. /\ \A s \in Symbols \ {q} : candle'[s] = candle[s]
            /\ candle'[q] # Null
            /\ tick.read = Null => candle'[q].bar = one
            /\ tick.read # Null => /\ candle'[q].minute = tick.read.minute
                                   /\ candle'[q].bar = Taken(tick.read.bar, p)
        <4>1. CASE tick.read = Null BY <1>1, <3>1, <3>2, <4>1, CandleIsSet, MinuteTypes
        <4>2. CASE tick.read # Null BY <1>1, <3>3, <4>2, CandleIsSet
        <4> QED BY <4>1, <4>2
      <3>5. \A s \in Symbols : /\ CountedVolume(s) \in Int
                               /\ CountedVolume(s)' = CountedVolume(s) + (IF q = s THEN 1 ELSE 0)
        BY <1>1, <2>1, <2>2, <2>8, CountedOnce
      <3>6. ASSUME NEW s \in Symbols \ disturbed, s # q PROVE Sound(s)'
        <4>1. CountedVolume(s)' = CountedVolume(s) BY <3>5, <3>6
        <4> QED BY <1>2, <1>3, <3>4, <3>6, <4>1, SoundStays
      <3>7. ASSUME q \notin disturbed PROVE Sound(q)'
        <4> DEFINE c == candle[q]
                   d == candle'[q]
                   T == ohlcv[q]
        <4>1. Sound(q) /\ Known(q) BY <1>2, <3>7
        <4>2. THInv' BY <1>1, <1>6, PollTypes
        <4>3. d \in Candle /\ T \in Table /\ c \in Candle \cup {Null}
          BY <1>1, <3>4, <4>2, SymbolTypes DEF THInv, TypeOK
        <4>4. Fits(c, T) /\ Chained(T) /\ Volume(c, T) = CountedVolume(q) BY <4>1 DEF Sound
        <4>5. \/ c = tick.read
              \/ tick.read = Null /\ Held(T) = {} /\ c.bar.volume = 0
          BY <2>0, <2>1, <2>2, <2>4, <4>1 DEF Known
        <4>6. CASE tick.read = Null
          <5>1. d.bar = one BY <3>4, <4>6
          <5>2. Held(T) = {} /\ (c = Null \/ c.bar.volume = 0)
            BY <4>4, <4>5, <4>6 DEF Fits
          <5>3. Past(c, T) = {} BY <5>2 DEF Past
          <5>4. Volume(c, T) = 0 BY <5>2, <5>3, NoVolume DEF Volume
          <5>5. InShape(d.bar) /\ d.bar.volume = 1 BY <3>1, <5>1
          <5>6. Fits(d, T) /\ Volume(d, T) = 1
            <6> HIDE DEF d, T
            <6> QED BY <4>3, <5>2, <5>5, Opened
          <5>7. CountedVolume(q)' = CountedVolume(q) + 1 BY <3>5
          <5>8. CountedVolume(q) = 0
            <6> HIDE DEF c, T
            <6> QED BY <4>4, <5>4
          <5>9. CountedVolume(q)' = 1 BY <5>7, <5>8
          <5> QED BY <1>3, <4>4, <5>6, <5>9 DEF Sound
        <4>7. CASE tick.read # Null
          <5>1. c = tick.read /\ c \in Candle BY <4>3, <4>5, <4>7
          <5>2. d.minute = c.minute /\ d.bar = Taken(c.bar, p) BY <3>4, <4>7, <5>1
          <5>3. Fits(d, T) /\ Volume(d, T) = Volume(c, T) + 1
            <6> HIDE DEF c, d, T
            <6> QED BY <4>3, <4>4, <5>1, <5>2, Counted
          <5>4. CountedVolume(q)' = Volume(d, T) BY <3>5, <4>4, <5>3
          <5> QED BY <1>3, <4>4, <5>3, <5>4 DEF Sound
        <4> QED BY <4>6, <4>7
      <3> QED BY <1>3, <2>6, <3>6, <3>7 DEF Undisturbed
    <2> QED BY <2>5, <2>7, <2>8
  <1> QED BY <1>4, <1>5, <1>6

(* Every step keeps what is recorded. *)
LEMMA NextKeepsRecords == VInv /\ [Next]_vars => VInv'
  <1> SUFFICES ASSUME VInv, [Next]_vars PROVE VInv' OBVIOUS
  <1>1. CInv' /\ MinutesOK'
    BY NextKeepsCounts, NextKeepsMinutes DEF VInv, CInv
  <1>2. CASE UNCHANGED vars
    <2>1. UNCHANGED <<candle, ohlcv, trades, tick, disturbed>> BY <1>2 DEF vars, stores
    <2>2. ASSUME NEW s \in Symbols \ disturbed PROVE Sound(s)' /\ Known(s)'
      <3>1. CountedVolume(s)' = CountedVolume(s) BY <2>1, SameCounts DEF TradesOf
      <3> QED BY <2>1, <3>1, SoundStays, KnownStays DEF VInv, Undisturbed
    <2>3. Undisturbed' BY <2>1, <2>2 DEF Undisturbed
    <2> QED BY <1>1, <2>3 DEF VInv
  <1>3. CASE Next
    <2>1. Undisturbed'
      BY <1>3, EnvironmentSound, InitSound, TurnSound, PollSound DEF Next, Broadcaster
    <2> QED BY <1>1, <2>1 DEF VInv
  <1> QED BY <1>2, <1>3

(* The invariant of minutes and records holds in every state of every execution. *)
THEOREM RecordInvariance == Spec => []VInv
  <1>1. Init => VInv BY CountsAtStart, TypesAtStart, MinutesAtStart, SoundAtStart DEF VInv
  <1> QED BY <1>1, NextKeepsRecords, PTL DEF Spec

(* What is stored of a symbol is its table. *)
LEMMA StoredIsHeld == ASSUME NEW s \in Symbols PROVE Stored(s) = Held(ohlcv[s])
  BY DEF Stored, Held

(* A turn of the minute, a crash in the middle of one, a candle stored again or one
   skipped lose no volume and make none up, unless the candle expired, was replaced
   by a late initialization or could not be stored. *)
THEOREM VolumeIsKept == Spec => []VolumeIsConserved
  <1>1. VInv => VolumeIsConserved
    <2> SUFFICES ASSUME VInv, NEW s \in Symbols \ disturbed
                 PROVE  RecordedVolume(s) = CountedVolume(s)
      BY DEF VolumeIsConserved, CountedVolume
    <2>1. Stored(s) = Held(ohlcv[s]) BY StoredIsHeld
    <2>2. RecordedVolume(s) = Volume(candle[s], ohlcv[s])
      BY <2>1 DEF RecordedVolume, Volume, Volumes, Past
    <2> QED BY <2>2 DEF VInv, Undisturbed, Sound
  <1> QED BY <1>1, RecordInvariance, PTL

(* Open and close are between low and high, in a stored candle too, although the open
   of one stored again is not updated with the rest. *)
THEOREM ShapesAreKept == Spec => []CandlesAreInShape
  <1>1. VInv => CandlesAreInShape
    <2> SUFFICES ASSUME VInv, NEW s \in Symbols \ disturbed
                 PROVE  /\ candle[s] # Null => InShape(candle[s].bar)
                        /\ \A m \in Stored(s) : InShape(ohlcv[s][m])
      BY DEF CandlesAreInShape
    <2>1. Stored(s) = Held(ohlcv[s]) BY StoredIsHeld
    <2> QED BY <2>1 DEF VInv, Undisturbed, Sound, Fits
  <1> QED BY <1>1, RecordInvariance, PTL

(* A stored candle opens where the one stored before it closed, also when that one
   was stored again after a crash or the turn was skipped. *)
THEOREM CandlesChain == Spec => []CandlesAreContiguous
  <1>1. VInv => CandlesAreContiguous
    <2> SUFFICES ASSUME VInv, NEW s \in Symbols \ disturbed
                 PROVE  \A m, n \in Stored(s) :
                          (m < n /\ ~ \E k \in Stored(s) : m < k /\ k < n)
                            => ohlcv[s][n].open = ohlcv[s][m].close
      BY DEF CandlesAreContiguous
    <2>1. Stored(s) = Held(ohlcv[s]) BY StoredIsHeld
    <2> QED BY <2>1 DEF VInv, Undisturbed, Sound, Chained
  <1> QED BY <1>1, RecordInvariance, PTL
=============================================================================
