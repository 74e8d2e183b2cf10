--------------------------- MODULE CandleIntervals ---------------------------
(***************************************************************************)
(* MarketRepo.GetCandles: candles of longer intervals, put together on     *)
(* request from the one-minute candles in ohlcv_1m.  A table is a function *)
(* from the minutes that have a row to their bars; a request without an    *)
(* endTime has one after every row.                                        *)
(***************************************************************************)
EXTENDS Integers, Sequences, FiniteSets, SequencesExt

NewestRows(minutes, limit) ==
  {m \in minutes : Cardinality({k \in minutes : k > m}) < limit}

(* ORDER BY open_time DESC: each row comes after as many as are newer. *)
NewestFirst(minutes) ==
  [i \in 1 .. Cardinality(minutes) |->
     CHOOSE m \in minutes : Cardinality({k \in minutes : k > m}) = i - 1]

(* get1mCandles: the newest rows before end, newest first. *)
Get1mCandles(rows, limit, end) ==
  LET minutes == NewestFirst(NewestRows({m \in DOMAIN rows : m < end}, limit))
  IN  [i \in DOMAIN minutes |->
         [from |-> minutes[i], to |-> minutes[i] + 1, bar |-> rows[minutes[i]]]]

Widened(agg, bar) ==
  [agg EXCEPT !.high   = IF bar.high > @ THEN bar.high ELSE @,
              !.low    = IF bar.low < @ THEN bar.low ELSE @,
              !.close  = bar.close,
              !.volume = @ + bar.volume]

(* Fault: the end of an interval belongs to it. *)
BucketedPastEnd(aggregated, c, interval) ==
  LET start == (c.from \div interval) * interval
  IN  IF aggregated # <<>> /\ c.from <= Last(aggregated).to
      THEN [aggregated EXCEPT ![Len(aggregated)].bar = Widened(@, c.bar)]
      ELSE Append(aggregated, [from |-> start, to |-> start + interval, bar |-> c.bar])

(* A row goes into the interval that is being filled, or opens the one that its
   minute is truncated to. *)
Bucketed(aggregated, c, interval) ==
  LET start == (c.from \div interval) * interval
  IN  IF aggregated # <<>> /\ c.from < Last(aggregated).to
      THEN [aggregated EXCEPT ![Len(aggregated)].bar = Widened(@, c.bar)]
      ELSE Append(aggregated, [from |-> start, to |-> start + interval, bar |-> c.bar])

(* The loop over all rows, oldest first. *)
Aggregated(candles, interval) ==
  FoldLeft(LAMBDA agg, c : Bucketed(agg, c, interval), <<>>, candles)

(* aggregateCandles: oldest first, and no more than limit intervals; the answer is
   newest first. *)
AggregateCandles(candles1m, interval, limit) ==
  LET all == Aggregated(Reverse(candles1m), interval)
  IN  Reverse(SubSeq(all, 1, Min({limit, Len(all)})))

(* Fault: as many rows as intervals. *)
AsManyRows(limit, interval) == limit

RequiredCandles(limit, interval) == limit * interval

GetCandles(rows, interval, limit, end) ==
  IF interval = 1
  THEN Get1mCandles(rows, limit, end)
  ELSE AggregateCandles(Get1mCandles(rows, RequiredCandles(limit, interval), end), interval, limit)

-----------------------------------------------------------------------------
(* The candle of an interval, by what a candle means rather than by a loop *)

RowsIn(rows, interval, end, k) == {m \in DOMAIN rows : m < end /\ m \div interval = k}

IsCandleOf(c, rows, interval, end) ==
  LET S == RowsIn(rows, interval, end, c.from \div interval)
  IN  /\ c.from % interval = 0 /\ c.to = c.from + interval
      /\ S # {}
      /\ c.bar.open = rows[Min(S)].open /\ c.bar.close = rows[Max(S)].close
      /\ c.bar.high = Max({rows[m].high : m \in S})
      /\ c.bar.low = Min({rows[m].low : m \in S})
      /\ c.bar.volume = SumFunctionOnSet([m \in S |-> rows[m].volume], S)

(* The intervals that have rows before end. *)
IntervalsOf(rows, interval, end) == {m \div interval : m \in {m \in DOMAIN rows : m < end}}

=============================================================================
