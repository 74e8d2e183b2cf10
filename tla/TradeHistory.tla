---------------------------- MODULE TradeHistory ----------------------------
(***************************************************************************)
(* What a user is shown of their trades and wallets: the query of          *)
(* TradeRepo.GetByUserId, and GetUserBalance.                              *)
(***************************************************************************)
EXTENDS OrderService

CONSTANT HistoryLimits   \* bound: the limits that GET /trades is asked with

ASSUME TradeHistoryAssumption == HistoryLimits \subseteq Int

OrdersOf(u) == {i \in Ids : orders[i] # Null /\ orders[i].user = u}

(* The two LEFT JOINs are alike: a row for each two of the user's orders, o and o2,
   that are sides of the trade.  A trade of a user with themself has four. *)
Joined(u) ==
  {j \in trades \X OrdersOf(u) \X OrdersOf(u) : {j[2], j[3]} \subseteq {j[1].maker, j[1].taker}}

(* Fault: the fees of maker and taker are swapped. *)
OtherFee(x, o) == IF x.taker = o THEN x.feeMaker ELSE x.feeTaker

HistoryFee(x, o) == IF x.taker = o THEN x.feeTaker ELSE x.feeMaker

(* Side and fee are those of o; o2 adds nothing but the repetition. *)
HistoryRow(j) ==
  [trade |-> j[1], side |-> orders[j[2]].side, fee |-> HistoryFee(j[1], j[2])]

RowLimit(limit) == IF limit <= 0 THEN 100 ELSE limit

(* ORDER BY trade_time: that of the transaction of the taker, as its created_at. *)
Newer(j, k) == j[1].taker > k[1].taker

(* What the LIMIT lets through: all, or as many of the newest; among rows of one time
   the database may choose. *)
Listed(u, limit) ==
  LET all == Joined(u)
      n   == RowLimit(limit)
  IN  IF Cardinality(all) <= n
      THEN {all}
      ELSE {S \in SUBSET all : Cardinality(S) = n /\ \A j \in S, k \in all \ S : ~Newer(k, j)}

(* The lists that may be returned; equal rows of different joins are different entries. *)
GetByUserId(u, limit) == {[j \in S |-> HistoryRow(j)] : S \in Listed(u, limit)}

GetUserBalance(u) == [asset \in Assets |-> wallets[<<u, asset>>]]

=============================================================================
