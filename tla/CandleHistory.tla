--------------------------- MODULE CandleHistory ---------------------------
(***************************************************************************)
(* What a client is told about the past: requests for candles of longer    *)
(* intervals, against the table ohlcv_1m that CandleHub stores to.         *)
(***************************************************************************)
EXTENDS CandleHub, CandleIntervals

CONSTANTS
  Tables,     \* bound: what ohlcv_1m may hold of a symbol when the server starts
  Intervals,  \* bound: the intervals asked for, in minutes
  Limits,     \* bound: the limits asked for
  Ends        \* bound: the end times asked for

(* A row has one bar of its minute.  Any number may be asked for, none included; less
   than none is an error of the query. *)
HistoryAssumption ==
  /\ \A rows \in Tables :
       /\ IsFiniteSet(DOMAIN rows) /\ DOMAIN rows \subseteq Int
       /\ \A m \in DOMAIN rows :
            rows[m] \in [open : Int, high : Int, low : Int, close : Int, volume : Int]
  /\ Intervals \subseteq Nat \ {0} /\ Limits \subseteq Nat /\ Ends \subseteq Int

ASSUME HistoryAssumption

(* Whatever rows a crash, a failed call or a night without the server has left out of
   the table: an answer's candles are of different intervals, newest first, and each
   but the oldest is put together from all the rows of its interval. *)
OnlyTheOldestIsPartial ==
  Init => \A rows \in Tables, n \in Intervals, limit \in Limits, end \in Ends :
    LET answer == GetCandles(rows, n, limit, end)
    IN  /\ \A i, j \in DOMAIN answer : i < j => answer[i].from >= answer[j].to
        /\ \A i \in DOMAIN answer : i < Len(answer) => IsCandleOf(answer[i], rows, n, end)

Unbroken(minutes) == minutes = Min(minutes) .. Max(minutes)

(* When the rows asked for have no gap and end with an interval, and any are asked for,
   the answer is the newest candles, each of them whole, and as many as there are up to the limit.  When
   they end within an interval, they may span one interval more than the limit;
   aggregateCandles stops at the limit from the oldest on, and leaves out the newest
   interval but never more.  (With gaps there is no such bound.) *)
UnbrokenHistoryIsExact ==
  Init => \A rows \in Tables, n \in Intervals, limit \in Limits, end \in Ends :
    LET answer  == GetCandles(rows, n, limit, end)
        minutes == {m \in DOMAIN rows : m < end}
        present == IntervalsOf(rows, n, end)
    IN  limit > 0 /\ minutes # {} /\ Unbroken(minutes) =>
          /\ answer[1].from \div n >= Max(present) - 1
          /\ Max(minutes) % n = n - 1 =>
               /\ {answer[i].from : i \in DOMAIN answer} = {k * n : k \in NewestRows(present, limit)}
               /\ \A i \in DOMAIN answer : IsCandleOf(answer[i], rows, n, end)

=============================================================================
