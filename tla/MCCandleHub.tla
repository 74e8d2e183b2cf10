----------------------------- MODULE MCCandleHub -----------------------------
(* Instances of CandleHub and CandleHistory for TLC. *)
EXTENDS CandleHistory, TLC

CONSTANTS btc

MCTradePrices == <<2, 1>>

(* Bound: two goroutines at a time, and one once the server or a call has failed. *)
FewGoroutines == Cardinality(inits) + mishaps <= 2

(* A minute that rises and one that falls. *)
Bars == {[open |-> 1, high |-> 3, low |-> 1, close |-> 2, volume |-> 1],
         [open |-> 2, high |-> 2, low |-> 0, close |-> 1, volume |-> 2]}

(* Any of six minutes may be missing. *)
MCTables == UNION {[minutes -> Bars] : minutes \in SUBSET (0 .. 5)}
=============================================================================
