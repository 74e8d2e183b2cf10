---------------------------- MODULE LedgerProofs ----------------------------
(***************************************************************************)
(* The trades account for the orders and for the wallets, and the orders   *)
(* for the funds that are locked; and of the debits that no code checks    *)
(* only two, both at a negative price, can overdraw a wallet.  For any     *)
(* users, sessions, requests, prices and bounds.                           *)
(***************************************************************************)
EXTENDS OrderServiceProofs

-----------------------------------------------------------------------------
(* Sums of trades *)

(* There are finitely many ids. *)
LEMMA IdsFinite == IsFiniteSet(Ids)
  BY ExchangeAssumption, FS_Interval DEF Ids

(* The trades that order i is a side of. *)
Involved(ts, i) == {x \in ts : i \in {x.maker, x.taker}}

(* The amounts of two sets of trades add up. *)
LEMMA AmountUnion ==
  ASSUME NEW ts, IsFiniteSet(ts), ts \subseteq Trade, NEW fs, IsFiniteSet(fs), fs \subseteq Trade,
         ts \cap fs = {}, NEW i
  PROVE  AmountOf(ts \cup fs, i) = AmountOf(ts, i) + AmountOf(fs, i)
  <1> DEFINE A == Involved(ts, i)
             B == Involved(fs, i)
             f == [x \in A \cup B |-> x.amount]
  <1>1. IsFiniteSet(A) /\ IsFiniteSet(B) /\ A \cap B = {} BY FS_Subset DEF Involved
  <1>2. \A x \in A \cup B : f[x] \in Int BY DEF Involved, Trade
  <1>3. SumFunctionOnSet(f, A \cup B) = SumFunctionOnSet(f, A) + SumFunctionOnSet(f, B)
    <2> HIDE DEF A, B, f
    <2> QED BY <1>1, <1>2, SumUnion
  <1>4. AmountOf(ts, i) = SumFunctionOnSet(f, A)
    <2> DEFINE g == [x \in A |-> x.amount]
    <2>1. AmountOf(ts, i) = SumFunctionOnSet(g, A) BY DEF AmountOf, SumOver, Involved
    <2>2. \A x \in A : f[x] = g[x] OBVIOUS
    <2> HIDE DEF A, B, f, g
    <2> QED BY <1>1, <2>1, <2>2, SumSame
  <1>5. AmountOf(fs, i) = SumFunctionOnSet(f, B)
    <2> DEFINE g == [x \in B |-> x.amount]
    <2>1. AmountOf(fs, i) = SumFunctionOnSet(g, B) BY DEF AmountOf, SumOver, Involved
    <2>2. \A x \in B : f[x] = g[x] OBVIOUS
    <2> HIDE DEF A, B, f, g
    <2> QED BY <1>1, <2>1, <2>2, SumSame
  <1>6. AmountOf(ts \cup fs, i) = SumFunctionOnSet(f, A \cup B)
    <2>1. A \cup B = {x \in ts \cup fs : i \in {x.maker, x.taker}} BY DEF Involved
    <2> QED BY <2>1 DEF AmountOf, SumOver
  <1> QED BY <1>3, <1>4, <1>5, <1>6

(* An order that has no trade among them has no amount. *)
LEMMA AmountNone ==
  ASSUME NEW ts, NEW i, \A x \in ts : i \notin {x.maker, x.taker}
  PROVE  AmountOf(ts, i) = 0
  <1>1. {x \in ts : i \in {x.maker, x.taker}} = {} OBVIOUS
  <1> QED BY <1>1, SumEmpty DEF AmountOf, SumOver

(* The amount of one trade. *)
LEMMA AmountOne ==
  ASSUME NEW x \in Trade, NEW i \in {x.maker, x.taker}
  PROVE  AmountOf({x}, i) = x.amount
  <1> DEFINE f == [y \in {x} |-> y.amount]
  <1>1. {y \in {x} : i \in {y.maker, y.taker}} = {x} OBVIOUS
  <1>2. AmountOf({x}, i) = SumFunctionOnSet(f, {x}) BY <1>1 DEF AmountOf, SumOver
  <1>3. f[x] = x.amount /\ x.amount \in Int BY DEF Trade
  <1> HIDE DEF f
  <1> QED BY <1>2, <1>3, SumSingle

-----------------------------------------------------------------------------
(* The history that trades ts give user u, when b are the orders *)

SideRow(x, i, b) == [trade |-> x, side |-> b[i].side, fee |-> HistoryFee(x, i)]

SidesOf(ts, b, u) ==
  {j \in ts \X Ids : j[2] \in {j[1].maker, j[1].taker} /\ b[j[2]] # Null /\ b[j[2]].user = u}

HistoryOf(ts, b, u) == {SideRow(j[1], j[2], b) : j \in SidesOf(ts, b, u)}

EarnedBy(ts, b, u, a) == SumOver(HistoryOf(ts, b, u), LAMBDA row : Worth(row, a))

(* What the side of order i in trade x is worth to user u in asset a. *)
SideWorth(x, i, b, u, a) == IF b[i].user = u THEN Worth(SideRow(x, i, b), a) ELSE 0

(* Trades between orders of a book, on opposite sides of it. *)
TradesIn(ts, b) ==
  /\ ts \subseteq Trade
  /\ \A x \in ts : /\ b[x.maker] \in Order /\ b[x.taker] \in Order
                   /\ b[x.maker].side # b[x.taker].side

(* A row is of one of the trades and of a side of it. *)
LEMMA RowOfTrade ==
  ASSUME NEW ts, NEW b, NEW u, NEW row \in HistoryOf(ts, b, u)
  PROVE  /\ row.trade \in ts
         /\ \E i \in Ids : /\ i \in {row.trade.maker, row.trade.taker}
                           /\ b[i] # Null /\ b[i].user = u
                           /\ row = SideRow(row.trade, i, b)
  <1>1. PICK j \in SidesOf(ts, b, u) : row = SideRow(j[1], j[2], b) BY DEF HistoryOf
  <1>2. row.trade = j[1] BY <1>1 DEF SideRow
  <1> QED BY <1>1, <1>2 DEF SidesOf

(* Rows are worth integers. *)
LEMMA RowWorth ==
  ASSUME NEW ts, NEW b, TradesIn(ts, b), NEW u, NEW a \in Assets, NEW row \in HistoryOf(ts, b, u)
  PROVE  Worth(row, a) \in Int
  <1>1. row.trade \in ts /\ \E i \in {row.trade.maker, row.trade.taker} : row = SideRow(row.trade, i, b)
    BY RowOfTrade
  <1>2. PICK i \in {row.trade.maker, row.trade.taker} : row = SideRow(row.trade, i, b) BY <1>1
  <1>3. row.trade \in Trade /\ b[i] \in Order BY <1>1, <1>2 DEF TradesIn
  <1>4. row.side \in Sides /\ row.fee \in Int
    BY <1>2, <1>3 DEF SideRow, HistoryFee, Trade, Order
  <1>5. row.trade.amount \in Nat /\ row.trade.quote \in Int BY <1>3 DEF Trade
  <1> QED BY <1>4, <1>5 DEF Worth, Sides, Assets

(* Finitely many trades give finitely many rows. *)
LEMMA HistoryFinite ==
  ASSUME NEW ts, IsFiniteSet(ts), NEW b, NEW u
  PROVE  IsFiniteSet(HistoryOf(ts, b, u))
  <1>1. IsFiniteSet(Ids) BY IdsFinite
  <1>2. IsFiniteSet(ts \X Ids) BY <1>1, FS_Product
  <1>3. IsFiniteSet(SidesOf(ts, b, u)) BY <1>2, FS_Subset DEF SidesOf
  <1> DEFINE f == [j \in SidesOf(ts, b, u) |-> SideRow(j[1], j[2], b)]
  <1>4. f \in Surjection(SidesOf(ts, b, u), HistoryOf(ts, b, u)) BY DEF HistoryOf, Surjection
  <1> HIDE DEF f
  <1> QED BY <1>3, <1>4, FS_Surjection

(* The histories of two sets of trades add up. *)
LEMMA HistoryUnion ==
  ASSUME NEW ts, IsFiniteSet(ts), NEW fs, IsFiniteSet(fs), ts \cap fs = {},
         NEW b, TradesIn(ts, b), TradesIn(fs, b), NEW u, NEW a \in Assets
  PROVE  EarnedBy(ts \cup fs, b, u, a) = EarnedBy(ts, b, u, a) + EarnedBy(fs, b, u, a)
  <1> DEFINE A == HistoryOf(ts, b, u)
             B == HistoryOf(fs, b, u)
             f == [row \in A \cup B |-> Worth(row, a)]
  <1>1. IsFiniteSet(A) /\ IsFiniteSet(B) BY HistoryFinite
  <1>2. A \cap B = {} BY RowOfTrade
  <1>3. \A row \in A \cup B : f[row] \in Int
    <2>1. \A row \in A : Worth(row, a) \in Int BY RowWorth
    <2>2. \A row \in B : Worth(row, a) \in Int BY RowWorth
    <2> HIDE DEF A, B
    <2> QED BY <2>1, <2>2
  <1>4. A \cup B = HistoryOf(ts \cup fs, b, u) BY DEF HistoryOf, SidesOf
  <1>5. EarnedBy(ts, b, u, a) = SumFunctionOnSet(f, A)
    <2> DEFINE g == [row \in A |-> Worth(row, a)]
    <2>1. EarnedBy(ts, b, u, a) = SumFunctionOnSet(g, A) BY DEF EarnedBy, SumOver
    <2>2. \A row \in A : f[row] = g[row] OBVIOUS
    <2> HIDE DEF A, B, f, g
    <2> QED BY <1>1, <2>1, <2>2, SumSame
  <1>6. EarnedBy(fs, b, u, a) = SumFunctionOnSet(f, B)
    <2> DEFINE g == [row \in B |-> Worth(row, a)]
    <2>1. EarnedBy(fs, b, u, a) = SumFunctionOnSet(g, B) BY DEF EarnedBy, SumOver
    <2>2. \A row \in B : f[row] = g[row] OBVIOUS
    <2> HIDE DEF A, B, f, g
    <2> QED BY <1>1, <2>1, <2>2, SumSame
  <1>7. EarnedBy(ts \cup fs, b, u, a) = SumFunctionOnSet(f, A \cup B)
    <2> HIDE DEF A, B
    <2> QED BY <1>4 DEF EarnedBy, SumOver
  <1> HIDE DEF A, B, f
  <1> QED BY <1>1, <1>2, <1>3, <1>5, <1>6, <1>7, SumUnion

(* One trade is worth its two sides, also to a user who has both. *)
LEMMA HistoryOne ==
  ASSUME NEW x, NEW b, TradesIn({x}, b), NEW u, NEW a \in Assets
  PROVE  EarnedBy({x}, b, u, a) = SideWorth(x, x.maker, b, u, a) + SideWorth(x, x.taker, b, u, a)
  <1> DEFINE M == IF b[x.maker].user = u THEN {SideRow(x, x.maker, b)} ELSE {}
             T == IF b[x.taker].user = u THEN {SideRow(x, x.taker, b)} ELSE {}
             f == [row \in M \cup T |-> Worth(row, a)]
  <1>1. /\ x \in Trade /\ b[x.maker] \in Order /\ b[x.taker] \in Order
        /\ b[x.maker].side # b[x.taker].side /\ x.maker \in Ids /\ x.taker \in Ids
    BY DEF TradesIn, Trade
  <1>2. HistoryOf({x}, b, u) = M \cup T
    <2>1. ASSUME NEW row \in HistoryOf({x}, b, u) PROVE row \in M \cup T
      <3>1. row.trade \in {x} BY RowOfTrade
      <3>2. PICK i \in Ids : /\ i \in {row.trade.maker, row.trade.taker}
                             /\ b[i].user = u /\ row = SideRow(row.trade, i, b)
        BY RowOfTrade
      <3> QED BY <3>1, <3>2
    <2>2. ASSUME NEW i \in {x.maker, x.taker}, b[i].user = u
          PROVE  SideRow(x, i, b) \in HistoryOf({x}, b, u)
      <3>1. <<x, i>> \in SidesOf({x}, b, u)
        BY <1>1, <2>2, ExchangeAssumption DEF SidesOf
      <3> QED BY <3>1 DEF HistoryOf
    <2>3. \A row \in M \cup T : \E i \in {x.maker, x.taker} : b[i].user = u /\ row = SideRow(x, i, b)
      OBVIOUS
    <2> QED BY <2>1, <2>2, <2>3
  <1>3. M \cap T = {}
    <2>1. SideRow(x, x.maker, b) # SideRow(x, x.taker, b) BY <1>1 DEF SideRow
    <2> QED BY <2>1
  <1>4. IsFiniteSet(M) /\ IsFiniteSet(T) BY FS_EmptySet, FS_Singleton
  <1>5. \A row \in M \cup T : f[row] \in Int
    <2>1. \A row \in HistoryOf({x}, b, u) : Worth(row, a) \in Int BY RowWorth
    <2> HIDE DEF M, T
    <2> QED BY <1>2, <2>1
  <1>6. SumFunctionOnSet(f, M) = SideWorth(x, x.maker, b, u, a)
    <2> DEFINE row == SideRow(x, x.maker, b)
    <2>1. CASE b[x.maker].user # u BY <2>1, SumEmpty DEF SideWorth
    <2>2. CASE b[x.maker].user = u
      <3>1. M = {row} /\ f[row] = Worth(row, a) BY <2>2
      <3>2. Worth(row, a) \in Int BY <1>5, <3>1
      <3> HIDE DEF f, M, row
      <3>3. SumFunctionOnSet(f, {row}) = f[row] BY <3>1, <3>2, SumSingle
      <3> QED BY <2>2, <3>1, <3>3 DEF SideWorth, row
    <2> QED BY <2>1, <2>2
  <1>7. SumFunctionOnSet(f, T) = SideWorth(x, x.taker, b, u, a)
    <2> DEFINE row == SideRow(x, x.taker, b)
    <2>1. CASE b[x.taker].user # u BY <2>1, SumEmpty DEF SideWorth
    <2>2. CASE b[x.taker].user = u
      <3>1. T = {row} /\ f[row] = Worth(row, a) BY <2>2
      <3>2. Worth(row, a) \in Int BY <1>5, <3>1
      <3> HIDE DEF f, T, row
      <3>3. SumFunctionOnSet(f, {row}) = f[row] BY <3>1, <3>2, SumSingle
      <3> QED BY <2>2, <3>1, <3>3 DEF SideWorth, row
    <2> QED BY <2>1, <2>2
  <1>8. EarnedBy({x}, b, u, a) = SumFunctionOnSet(f, M \cup T)
    <2> HIDE DEF M, T
    <2> QED BY <1>2 DEF EarnedBy, SumOver
  <1> HIDE DEF M, T, f
  <1> QED BY <1>3, <1>4, <1>5, <1>6, <1>7, <1>8, SumUnion

(* Only the users and sides of the orders matter. *)
LEMMA HistorySame ==
  ASSUME NEW ts, NEW b, TradesIn(ts, b), NEW c, NEW u,
         \A x \in ts : \A i \in {x.maker, x.taker} :
           c[i] # Null /\ c[i].user = b[i].user /\ c[i].side = b[i].side
  PROVE  HistoryOf(ts, c, u) = HistoryOf(ts, b, u)
  <1>1. SidesOf(ts, c, u) = SidesOf(ts, b, u)
    <2>1. \A x \in ts : \A i \in {x.maker, x.taker} : b[i] # Null
      BY ExchangeAssumption DEF TradesIn
    <2> QED BY <2>1 DEF SidesOf
  <1>2. \A j \in SidesOf(ts, b, u) : SideRow(j[1], j[2], c) = SideRow(j[1], j[2], b)
    BY DEF SidesOf, SideRow
  <1> QED BY <1>1, <1>2 DEF HistoryOf

(* A user who has no side of the trades earns nothing. *)
LEMMA HistoryNone ==
  ASSUME NEW ts, NEW b, NEW u, \A x \in ts : \A i \in {x.maker, x.taker} : b[i].user # u, NEW a
  PROVE  EarnedBy(ts, b, u, a) = 0
  <1>1. HistoryOf(ts, b, u) = {} BY DEF HistoryOf, SidesOf
  <1> QED BY <1>1, SumEmpty DEF EarnedBy, SumOver

-----------------------------------------------------------------------------
(* Wallets *)

Total(row) == row.balance + row.inOrders

(* A wallet row holds integers. *)
LEMMA RowInts ==
  ASSUME NEW w \in [Wallets -> Wallet], NEW q \in Wallets
  PROVE  w[q].balance \in Int /\ w[q].inOrders \in Int /\ Total(w[q]) \in Int
  BY DEF Wallet, Total

(* An update moves what it says, on its row only. *)
LEMMA UpdateRow ==
  ASSUME NEW w \in [Wallets -> Wallet], NEW u \in Users, NEW a \in Assets,
         NEW db \in Int, NEW di \in Int, NEW x \in WalletRows
  PROVE  LET w2 == UpdateBalances(w, u, a, db, di)
         IN  /\ w2 \in [Wallets -> Wallet]
             /\ w2[x].balance \in Int /\ w2[x].inOrders \in Int
             /\ Total(w2[x]) = Total(w[x]) + (IF x = <<u, a>> THEN db + di ELSE 0)
             /\ w2[x].inOrders = w[x].inOrders + (IF x = <<u, a>> THEN di ELSE 0)
  <1>1. x \in Wallets /\ <<u, a>> \in Wallets BY ExchangeAssumption DEF Wallets
  <1>2. w[x].balance \in Int /\ w[x].inOrders \in Int BY <1>1 DEF Wallet
  <1> QED BY <1>1, <1>2 DEF UpdateBalances, Wallet, Total

(* What a trade at this price takes from the funds that are locked for order o. *)
Unlocks(o, price, amount) ==
  IF o.side = "sell" THEN amount ELSE Cost(IF o.type = "market" THEN price ELSE o.price, amount)

(* The wallet row that the funds of an order are locked in. *)
LockRow(o) == <<o.user, LockedAsset(o.side)>>

(* settle changes every wallet by what the sides of the trade are worth to its user,
   and takes from the locked funds of both orders what the trade has used of them. *)
LEMMA SettleRow ==
  ASSUME NEW w, FundsOK(w), NEW maker, NEW taker, OrderOK(maker), OrderOK(taker),
         maker.type = "limit", maker.side = Opposite(taker.side),
         NEW amount \in Nat, NEW x, x.maker # x.taker, x.amount = amount,
         x.quote = Cost(maker.price, amount), x.feeMaker = FeeMaker(maker.price, amount),
         x.feeTaker = FeeTaker(maker.price, amount),
         NEW b, b[x.maker] = maker, b[x.taker] = taker,
         NEW u \in Users, NEW a \in Assets, <<u, a>> \in WalletRows
  PROVE  LET row == Settle(w, maker, taker, maker.price, amount)[<<u, a>>]
         IN  /\ Total(row) = Total(w[<<u, a>>]) + SideWorth(x, x.maker, b, u, a)
                                                + SideWorth(x, x.taker, b, u, a)
             /\ row.inOrders = w[<<u, a>>].inOrders
                  - (IF LockRow(maker) = <<u, a>> THEN Unlocks(maker, maker.price, amount) ELSE 0)
                  - (IF LockRow(taker) = <<u, a>> THEN Unlocks(taker, maker.price, amount) ELSE 0)
  <1> DEFINE price  == maker.price
             cost   == Cost(price, amount)
             feeM   == FeeMaker(price, amount)
             feeT   == FeeTaker(price, amount)
             q      == <<u, a>>
             locked == Unlocks(taker, price, amount)
  <1>1. /\ price \in Int /\ maker.user \in Users /\ taker.user \in Users
        /\ taker.side \in Sides /\ maker.side \in Sides /\ maker.side # taker.side
        /\ w \in [Wallets -> Wallet] /\ q \in WalletRows
    BY DEF OrderOK, Order, Prices, Opposite, Sides, FundsOK
  <1>2. cost \in Int /\ feeM \in Int /\ feeT \in Int BY <1>1, CostInt
  <1>3. "base" \in Assets /\ "quote" \in Assets /\ "base" # "quote" BY DEF Assets
  <1>4. w[q].balance \in Int /\ w[q].inOrders \in Int
    BY <1>1, ExchangeAssumption DEF Wallet
  <1>5. /\ SideWorth(x, x.maker, b, u, a) =
             IF maker.user # u THEN 0
             ELSE IF maker.side = "buy" THEN IF a = "base" THEN amount ELSE 0 - cost
                                        ELSE IF a = "base" THEN 0 - amount ELSE cost - feeM
        /\ SideWorth(x, x.taker, b, u, a) =
             IF taker.user # u THEN 0
             ELSE IF taker.side = "buy" THEN IF a = "base" THEN amount ELSE 0 - cost
                                        ELSE IF a = "base" THEN 0 - amount ELSE cost - feeT
    BY <1>1 DEF SideWorth, SideRow, HistoryFee, Worth, Assets, Sides
  <1>6. CASE taker.side = "buy"
    <2> DEFINE w1 == UpdateBalances(w, taker.user, "quote", locked - cost, -locked)
               w2 == UpdateBalances(w1, taker.user, "base", amount, 0)
               w3 == UpdateBalances(w2, maker.user, "base", 0, -amount)
               w4 == UpdateBalances(w3, maker.user, "quote", cost - feeM, 0)
    <2>1. locked \in Int
      <3>1. CASE taker.type = "market" BY <1>2, <1>6, <3>1 DEF Unlocks
      <3>2. CASE taker.type # "market"
        <4>1. taker.price \in Int BY <3>2 DEF OrderOK, Order, Types, Prices
        <4> QED BY <1>6, <3>2, <4>1, CostInt DEF Unlocks
      <3> QED BY <3>1, <3>2
    <2>2. Settle(w, maker, taker, price, amount) = w4
      BY <1>6 DEF Settle, SettleBuy, Unlocks
    <2> HIDE DEF locked, cost, feeM, feeT
    <2>3. /\ w1 \in [Wallets -> Wallet]
          /\ Total(w1[q]) = Total(w[q]) + (IF q = <<taker.user, "quote">> THEN 0 - cost ELSE 0)
          /\ w1[q].inOrders = w[q].inOrders + (IF q = <<taker.user, "quote">> THEN 0 - locked ELSE 0)
      <3>1. locked - cost \in Int /\ -locked \in Int /\ (locked - cost) + (-locked) = 0 - cost
            /\ -locked = 0 - locked
        BY <1>2, <2>1
      <3> HIDE DEF q
      <3> QED BY <1>1, <1>3, <3>1, UpdateRow
    <2> HIDE DEF w1
    <2>4. /\ w2 \in [Wallets -> Wallet]
          /\ Total(w2[q]) = Total(w1[q]) + (IF q = <<taker.user, "base">> THEN amount ELSE 0)
          /\ w2[q].inOrders = w1[q].inOrders + (IF q = <<taker.user, "base">> THEN 0 ELSE 0)
      <3> HIDE DEF q
      <3> QED BY <1>1, <1>3, <2>3, UpdateRow
    <2> HIDE DEF w2
    <2>5. /\ w3 \in [Wallets -> Wallet]
          /\ Total(w3[q]) = Total(w2[q]) + (IF q = <<maker.user, "base">> THEN 0 - amount ELSE 0)
          /\ w3[q].inOrders = w2[q].inOrders + (IF q = <<maker.user, "base">> THEN 0 - amount ELSE 0)
      <3>1. -amount \in Int /\ 0 + (-amount) = 0 - amount /\ -amount = 0 - amount OBVIOUS
      <3> HIDE DEF q
      <3> QED BY <1>1, <1>3, <2>4, <3>1, UpdateRow
    <2> HIDE DEF w3
    <2>6. /\ Total(w4[q]) = Total(w3[q]) + (IF q = <<maker.user, "quote">> THEN cost - feeM ELSE 0)
          /\ w4[q].inOrders = w3[q].inOrders + (IF q = <<maker.user, "quote">> THEN 0 ELSE 0)
      <3>1. cost - feeM \in Int /\ (cost - feeM) + 0 = cost - feeM BY <1>2
      <3> HIDE DEF q
      <3> QED BY <1>1, <1>3, <2>5, <3>1, UpdateRow
    <2> HIDE DEF w4
    <2>7. Total(w[q]) \in Int BY <1>4 DEF Total
    <2>8. /\ (LockRow(maker) = q) <=> (q = <<maker.user, "base">>)
          /\ (LockRow(taker) = q) <=> (q = <<taker.user, "quote">>)
          /\ Unlocks(maker, price, amount) = amount
      BY <1>1, <1>6 DEF LockRow, LockedAsset, Unlocks, Sides
    <2>9. Total(w4[q]) = Total(w[q]) + SideWorth(x, x.maker, b, u, a) + SideWorth(x, x.taker, b, u, a)
      <3> HIDE DEF price
      <3> QED BY <1>1, <1>2, <1>3, <1>5, <1>6, <2>3, <2>4, <2>5, <2>6, <2>7 DEF Sides, Assets, cost, feeM
    <2>10. w4[q].inOrders = w[q].inOrders
              - (IF LockRow(maker) = q THEN Unlocks(maker, price, amount) ELSE 0)
              - (IF LockRow(taker) = q THEN locked ELSE 0)
      BY <1>3, <1>4, <2>1, <2>3, <2>4, <2>5, <2>6, <2>8
    <2> QED BY <2>2, <2>9, <2>10 DEF locked
  <1>7. CASE taker.side = "sell"
    <2> DEFINE w1 == UpdateBalances(w, taker.user, "base", 0, -amount)
               w2 == UpdateBalances(w1, taker.user, "quote", cost - feeT, 0)
               w3 == UpdateBalances(w2, maker.user, "quote", cost - cost, -cost)
               w4 == UpdateBalances(w3, maker.user, "base", amount, 0)
    <2>2. Settle(w, maker, taker, price, amount) = w4
      BY <1>7 DEF Settle, SettleSell
    <2>8. /\ (LockRow(maker) = q) <=> (q = <<maker.user, "quote">>)
          /\ (LockRow(taker) = q) <=> (q = <<taker.user, "base">>)
          /\ Unlocks(maker, price, amount) = cost /\ Unlocks(taker, price, amount) = amount
      BY <1>1, <1>7 DEF LockRow, LockedAsset, Unlocks, Sides
    <2> HIDE DEF cost, feeM, feeT
    <2>3. /\ w1 \in [Wallets -> Wallet]
          /\ Total(w1[q]) = Total(w[q]) + (IF q = <<taker.user, "base">> THEN 0 - amount ELSE 0)
          /\ w1[q].inOrders = w[q].inOrders + (IF q = <<taker.user, "base">> THEN 0 - amount ELSE 0)
      <3>1. -amount \in Int /\ 0 + (-amount) = 0 - amount /\ -amount = 0 - amount OBVIOUS
      <3> DEFINE d == -amount
      <3> HIDE DEF q, d
      <3>2. LET v == UpdateBalances(w, taker.user, "base", 0, d)
            IN  /\ v \in [Wallets -> Wallet]
                /\ Total(v[q]) = Total(w[q]) + (IF q = <<taker.user, "base">> THEN 0 + d ELSE 0)
                /\ v[q].inOrders = w[q].inOrders + (IF q = <<taker.user, "base">> THEN d ELSE 0)
        BY <1>1, <1>3, <3>1, UpdateRow DEF d
      <3> QED BY <3>1, <3>2 DEF d
    <2> HIDE DEF w1
    <2>4. /\ w2 \in [Wallets -> Wallet]
          /\ Total(w2[q]) = Total(w1[q]) + (IF q = <<taker.user, "quote">> THEN cost - feeT ELSE 0)
          /\ w2[q].inOrders = w1[q].inOrders + (IF q = <<taker.user, "quote">> THEN 0 ELSE 0)
      <3>1. cost - feeT \in Int /\ (cost - feeT) + 0 = cost - feeT BY <1>2
      <3> HIDE DEF q
      <3> QED BY <1>1, <1>3, <2>3, <3>1, UpdateRow
    <2> HIDE DEF w2
    <2>5. /\ w3 \in [Wallets -> Wallet]
          /\ Total(w3[q]) = Total(w2[q]) + (IF q = <<maker.user, "quote">> THEN 0 - cost ELSE 0)
          /\ w3[q].inOrders = w2[q].inOrders + (IF q = <<maker.user, "quote">> THEN 0 - cost ELSE 0)
      <3>1. cost - cost \in Int /\ -cost \in Int /\ (cost - cost) + (-cost) = 0 - cost /\ -cost = 0 - cost
        BY <1>2
      <3> HIDE DEF q
      <3> QED BY <1>1, <1>3, <2>4, <3>1, UpdateRow
    <2> HIDE DEF w3
    <2>6. /\ Total(w4[q]) = Total(w3[q]) + (IF q = <<maker.user, "base">> THEN amount ELSE 0)
          /\ w4[q].inOrders = w3[q].inOrders + (IF q = <<maker.user, "base">> THEN 0 ELSE 0)
      <3> HIDE DEF q
      <3> QED BY <1>1, <1>3, <2>5, UpdateRow
    <2> HIDE DEF w4
    <2>7. Total(w[q]) \in Int BY <1>4 DEF Total
    <2>9. Total(w4[q]) = Total(w[q]) + SideWorth(x, x.maker, b, u, a) + SideWorth(x, x.taker, b, u, a)
      <3> HIDE DEF price
      <3> QED BY <1>1, <1>2, <1>3, <1>5, <1>7, <2>3, <2>4, <2>5, <2>6, <2>7 DEF Sides, Assets, cost, feeT
    <2>10. w4[q].inOrders = w[q].inOrders
              - (IF LockRow(maker) = q THEN Unlocks(maker, price, amount) ELSE 0)
              - (IF LockRow(taker) = q THEN Unlocks(taker, price, amount) ELSE 0)
      BY <1>2, <1>3, <1>4, <2>3, <2>4, <2>5, <2>6, <2>8
    <2> QED BY <2>2, <2>9, <2>10
  <1> QED BY <1>1, <1>6, <1>7 DEF Sides

-----------------------------------------------------------------------------
(* The inductive invariant, conjunct by conjunct *)

(* The committed trades ts account for the committed orders b and wallets w. *)
LedgerOK(b, ts, w) ==
  /\ IsFiniteSet(ts) /\ TradesIn(ts, b)
  /\ \A i \in Ids : b[i] # Null => /\ LockRow(b[i]) \in WalletRows
                                 /\ b[i].filled = AmountOf(ts, i)
  /\ \A u \in Users, a \in Assets : <<u, a>> \in WalletRows =>
       Total(w[<<u, a>>]) = OpeningFunds[<<u, a>>].balance + EarnedBy(ts, b, u, a)

(* What transaction t has changed of the funds that row i of its view accounts for. *)
LockShift(t, b, i) ==
  LockedFor(t.fills, i, t.view[i]) - (IF b[i] = Null THEN 0 ELSE LockedFor(t.fills, i, b[i]))

LockChange(t, b, w) ==
  SumOver(t.rows, LAMBDA i : IF LockRow(t.view[i]) = w THEN LockShift(t, b, i) ELSE 0)

(* The trades of a transaction that is matching account for what it has changed of the
   orders it has locked and of the wallets it has locked, whose committed rows are
   those of b and c.  A maker that it has filled is no maker to it any more. *)
BookedOK(t, b, c) ==
  /\ IsFiniteSet(t.fills) /\ TradesIn(t.fills, t.view)
  /\ LockRow(Taker(t)) \in t.purse
  /\ \A x \in t.fills : /\ t.view[x.maker].status = "filled"
                       /\ SettleRows(t.view[x.maker], Taker(t)) \subseteq t.purse
  /\ \A i \in t.rows \ {t.id} : t.view[i].filled = b[i].filled + AmountOf(t.fills, i)
  /\ Taker(t).filled = AmountOf(t.fills, t.id)
  /\ \A u \in Users, a \in Assets : <<u, a>> \in t.purse =>
       /\ Total(t.funds[<<u, a>>]) = Total(c[<<u, a>>]) + EarnedBy(t.fills, t.view, u, a)
       /\ t.funds[<<u, a>>].inOrders = c[<<u, a>>].inOrders + LockChange(t, b, <<u, a>>)

(* Only a transaction that is matching holds wallets between two of its steps. *)
PurseOK(t, b, c) ==
  /\ t.purse \subseteq WalletRows
  /\ IF Matching(t) THEN BookedOK(t, b, c) ELSE t.purse = {}

(* The committed trades account for orders and wallets, the trades of a transaction
   for what it has changed of them, and two sessions lock no wallet together. *)
HInv ==
  /\ LInv
  /\ LedgerOK(orders, trades, wallets)
  /\ \A s \in Sessions : PurseOK(tx[s], orders, wallets)
  /\ \A s, u \in Sessions : s # u => tx[s].purse \cap tx[u].purse = {}

-----------------------------------------------------------------------------
(* What is known of a transaction that is matching *)

(* A locked maker differs from its committed row by what it has been filled. *)
LEMMA LockedRow ==
  ASSUME NEW t, NEW b, NEW i, RowOK(t, i, b), OrderOK(b[i])
  PROVE  LET v == t.view[i] o == b[i]
         IN  /\ v # Null /\ v.user = o.user /\ v.side = o.side /\ v.type = o.type
             /\ v.price = o.price /\ v.amount = o.amount
             /\ v.filled = o.filled => v = o
             /\ v # o => /\ o.type = "limit" /\ o.status \in Live
                         /\ v.status \in {"partially_filled", "filled"}
  <1>1. b[i] \in Order BY DEF OrderOK
  <1>2. CASE t.view[i] = b[i] BY <1>2 DEF RowOK
  <1>3. CASE t.view[i] # b[i]
    <2>1. Lifecycle!FilledBy(Taker(t), b[i], t.view[i]) BY <1>3 DEF RowOK
    <2>2. /\ t.view[i] = [b[i] EXCEPT !.filled = t.view[i].filled, !.status = t.view[i].status]
          /\ t.view[i].filled > b[i].filled /\ b[i].type = "limit" /\ b[i].status \in Live
          /\ t.view[i].status \in {"partially_filled", "filled"}
      BY <2>1 DEF Lifecycle!FilledBy, Lifecycle!IsLive, Live
    <2>3. b[i].filled \in Nat BY <1>1 DEF Order
    <2>4. t.view[i].filled # b[i].filled BY <2>2, <2>3
    <2>5. /\ t.view[i].user = b[i].user /\ t.view[i].side = b[i].side
          /\ t.view[i].type = b[i].type /\ t.view[i].price = b[i].price
          /\ t.view[i].amount = b[i].amount
      BY <1>1, <2>2 DEF Order
    <2> QED BY <2>2, <2>4, <2>5 DEF RowOK
  <1> QED BY <1>2, <1>3

(* What LInv knows of a transaction that is matching, in one place. *)
LEMMA MatchingFacts ==
  ASSUME LInv, NEW s \in Sessions, Matching(tx[s])
  PROVE  LET t == tx[s]
         IN  /\ t \in Tx /\ TxOK(t) /\ MatchingOK(t, orders)
             /\ t.rows \subseteq Ids /\ IsFiniteSet(t.rows)
             /\ t.id \in t.rows /\ orders[t.id] = Null
             /\ Taker(t) = t.view[t.id] /\ OrderOK(Taker(t)) /\ Taker(t) \in Order
             /\ \A i \in t.rows \ {t.id} :
                  /\ RowOK(t, i, orders) /\ OrderOK(orders[i]) /\ orders[i] \in Order
                  /\ OrderOK(t.view[i]) /\ t.view[i] \in Order /\ t.view[i] # Null
             /\ \A x \in t.fills : /\ x.taker = t.id /\ x.maker \in t.rows \ {t.id}
                                  /\ orders[x.maker].type = "limit"
  <1> DEFINE t == tx[s]
  <1>1. TxOK(t) /\ ProgressOK(t, orders, nextId) /\ BookOK(orders) /\ BookOK(t.view) /\ t \in Tx
    BY DEF LInv, IInv, TxOK
  <1>2. MatchingOK(t, orders) /\ orders[t.id] = Null /\ t.id \in t.rows
    BY <1>1 DEF ProgressOK, Placing, MatchingOK
  <1>3. t.rows \subseteq Ids BY <1>1 DEF Tx
  <1>4. IsFiniteSet(t.rows)
    <2>1. IsFiniteSet(Ids) BY IdsFinite
    <2> QED BY <1>3, <2>1, FS_Subset
  <1>5. t.view[t.id] # Null BY <1>1 DEF TxOK, TakerOK, Matching
  <1>6. OrderOK(t.view[t.id]) BY <1>1, <1>2, <1>3, <1>5 DEF BookOK
  <1>7. ASSUME NEW i \in t.rows \ {t.id}
        PROVE  RowOK(t, i, orders) /\ OrderOK(orders[i]) /\ OrderOK(t.view[i]) /\ t.view[i] # Null
    BY <1>1, <1>2, <1>3 DEF MatchingOK, RowOK, BookOK
  <1>8. ASSUME NEW x \in t.fills
        PROVE  /\ x.taker = t.id /\ x.maker \in t.rows \ {t.id}
               /\ orders[x.maker].type = "limit"
    <2>1. TradeOK(t, x, orders) BY <1>2 DEF MatchingOK
    <2> QED BY <1>2, <2>1 DEF TradeOK, IsLiveLimit
  <1> QED BY <1>1, <1>2, <1>3, <1>4, <1>6, <1>7, <1>8 DEF Taker, OrderOK

(* The quote amounts of two sets of trades add up. *)
LEMMA QuoteUnion ==
  ASSUME NEW ts, IsFiniteSet(ts), ts \subseteq Trade, NEW fs, IsFiniteSet(fs), fs \subseteq Trade,
         ts \cap fs = {}, NEW i
  PROVE  QuoteSpent(ts \cup fs, i) = QuoteSpent(ts, i) + QuoteSpent(fs, i)
  <1> DEFINE own(S) == {x \in S : x.taker = i}
             A == own(ts)
             B == own(fs)
             f == [x \in A \cup B |-> x.quote]
  <1>1. IsFiniteSet(A) /\ IsFiniteSet(B) /\ A \cap B = {} BY FS_Subset
  <1>2. \A x \in A \cup B : f[x] \in Int BY DEF Trade
  <1>3. SumFunctionOnSet(f, A \cup B) = SumFunctionOnSet(f, A) + SumFunctionOnSet(f, B)
    <2> HIDE DEF A, B, f
    <2> QED BY <1>1, <1>2, SumUnion
  <1>4. QuoteSpent(ts, i) = SumFunctionOnSet(f, A)
    <2> DEFINE g == [x \in A |-> x.quote]
    <2>1. QuoteSpent(ts, i) = SumFunctionOnSet(g, A) BY DEF QuoteSpent
    <2>2. \A x \in A : f[x] = g[x] OBVIOUS
    <2> HIDE DEF A, B, f, g
    <2> QED BY <1>1, <2>1, <2>2, SumSame
  <1>5. QuoteSpent(fs, i) = SumFunctionOnSet(f, B)
    <2> DEFINE g == [x \in B |-> x.quote]
    <2>1. QuoteSpent(fs, i) = SumFunctionOnSet(g, B) BY DEF QuoteSpent
    <2>2. \A x \in B : f[x] = g[x] OBVIOUS
    <2> HIDE DEF A, B, f, g
    <2> QED BY <1>1, <2>1, <2>2, SumSame
  <1>6. QuoteSpent(ts \cup fs, i) = SumFunctionOnSet(f, A \cup B)
    <2>1. A \cup B = {x \in ts \cup fs : x.taker = i} OBVIOUS
    <2> QED BY <2>1 DEF QuoteSpent
  <1> QED BY <1>3, <1>4, <1>5, <1>6

(* An order that took none of the trades has spent nothing in them. *)
LEMMA QuoteNone ==
  ASSUME NEW ts, NEW i, \A x \in ts : x.taker # i
  PROVE  QuoteSpent(ts, i) = 0
  <1>1. {x \in ts : x.taker = i} = {} OBVIOUS
  <1> QED BY <1>1, SumEmpty DEF QuoteSpent

(* What is spent in one trade. *)
LEMMA QuoteOne ==
  ASSUME NEW x \in Trade
  PROVE  QuoteSpent({x}, x.taker) = x.quote
  <1> DEFINE f == [y \in {x} |-> y.quote]
  <1>1. {y \in {x} : y.taker = x.taker} = {x} OBVIOUS
  <1>2. QuoteSpent({x}, x.taker) = SumFunctionOnSet(f, {x}) BY <1>1 DEF QuoteSpent
  <1>3. f[x] = x.quote /\ x.quote \in Int BY DEF Trade
  <1> HIDE DEF f
  <1> QED BY <1>2, <1>3, SumSingle

(* Sums of trades are integers. *)
LEMMA TradeSums ==
  ASSUME NEW ts, IsFiniteSet(ts), ts \subseteq Trade, NEW i
  PROVE  AmountOf(ts, i) \in Int /\ QuoteSpent(ts, i) \in Int
  <1>1. AmountOf(ts, i) \in Int
    <2> DEFINE A == {x \in ts : i \in {x.maker, x.taker}}
               f == [x \in A |-> x.amount]
    <2>1. IsFiniteSet(A) /\ \A x \in A : f[x] \in Int BY FS_Subset DEF Trade
    <2>2. AmountOf(ts, i) = SumFunctionOnSet(f, A) BY DEF AmountOf, SumOver
    <2> HIDE DEF A, f
    <2> QED BY <2>1, <2>2, SumType
  <1>2. QuoteSpent(ts, i) \in Int
    <2> DEFINE A == {x \in ts : x.taker = i}
               f == [x \in A |-> x.quote]
    <2>1. IsFiniteSet(A) /\ \A x \in A : f[x] \in Int BY FS_Subset DEF Trade
    <2>2. QuoteSpent(ts, i) = SumFunctionOnSet(f, A) BY DEF QuoteSpent
    <2> HIDE DEF A, f
    <2> QED BY <2>1, <2>2, SumType
  <1> QED BY <1>1, <1>2

(* So is what a history is worth. *)
LEMMA EarnedInt ==
  ASSUME NEW ts, IsFiniteSet(ts), NEW b, TradesIn(ts, b), NEW u, NEW a \in Assets
  PROVE  EarnedBy(ts, b, u, a) \in Int
  <1> DEFINE A == HistoryOf(ts, b, u)
             f == [row \in A |-> Worth(row, a)]
  <1>1. IsFiniteSet(A) BY HistoryFinite
  <1>2. \A row \in A : Worth(row, a) \in Int BY RowWorth
  <1>3. EarnedBy(ts, b, u, a) = SumFunctionOnSet(f, A) BY DEF EarnedBy, SumOver
  <1> HIDE DEF A
  <1>4. \A row \in A : f[row] \in Int BY <1>2
  <1> HIDE DEF f
  <1> QED BY <1>1, <1>3, <1>4, SumType

(* What a well formed order accounts for is an integer. *)
LEMMA LockedInt ==
  ASSUME NEW ts, IsFiniteSet(ts), ts \subseteq Trade, NEW i, NEW o, OrderOK(o)
  PROVE  LockedFor(ts, i, o) \in Int
  <1>1. QuoteSpent(ts, i) \in Int BY TradeSums
  <1>2. ASSUME ~ IsMarketBuy(o)
        PROVE  o.amount - o.filled \in Nat
    BY <1>2 DEF OrderOK, Order
  <1>3. ASSUME ~ IsMarketBuy(o), o.side # "sell"
        PROVE  o.price \in Int
    BY <1>3 DEF OrderOK, Order, IsMarketBuy, Sides, Types, Prices
  <1>4. ASSUME ~ IsMarketBuy(o), o.side # "sell"
        PROVE  Cost(o.price, o.amount - o.filled) \in Int
    BY <1>2, <1>3, <1>4, CostInt
  <1> QED BY <1>1, <1>2, <1>4 DEF LockedFor, OrderOK

-----------------------------------------------------------------------------
(* What one step leaves alone *)

(* The books of a transaction are about the committed rows that it holds. *)
LEMMA BooksKept ==
  ASSUME NEW t, NEW b, NEW c, PurseOK(t, b, c), NEW b2, NEW c2,
         \A i \in t.rows : b2[i] = b[i], \A w \in t.purse : c2[w] = c[w]
  PROVE  PurseOK(t, b2, c2)
  <1>1. ASSUME NEW w PROVE LockChange(t, b2, w) = LockChange(t, b, w)
    <2>1. \A i \in t.rows : LockShift(t, b2, i) = LockShift(t, b, i) BY DEF LockShift
    <2> QED BY <2>1 DEF LockChange, SumOver
  <1>2. BookedOK(t, b, c) => BookedOK(t, b2, c2)
    BY <1>1 DEF BookedOK
  <1> QED BY <1>2 DEF PurseOK

(* A transaction that changes neither its fills nor its rows keeps its books. *)
LEMMA BooksMoved ==
  ASSUME NEW t, NEW r, NEW b, NEW c, PurseOK(t, b, c), Matching(t), Matching(r),
         r.id = t.id, r.view = t.view, r.rows = t.rows, r.fills = t.fills,
         r.funds = t.funds, r.purse = t.purse
  PROVE  PurseOK(r, b, c)
  <1>1. ASSUME NEW w PROVE LockChange(r, b, w) = LockChange(t, b, w)
    BY DEF LockChange, LockShift, SumOver
  <1> QED BY <1>1 DEF PurseOK, BookedOK, Taker

(* A session goes on and commits nothing. *)
LEMMA MoveBooks ==
  ASSUME HInv, LInv', NEW s \in Sessions, NEW t, Become(s, t),
         UNCHANGED <<orders, wallets, trades>>,
         PurseOK(t, orders, wallets),
         \A u \in Sessions \ {s} : t.purse \cap tx[u].purse = {}
  PROVE  HInv'
  <1>1. tx' = [tx EXCEPT ![s] = t] /\ tx \in [Sessions -> Tx] BY DEF Become, HInv, LInv, IInv
  <1>2. tx'[s] = t /\ \A u \in Sessions \ {s} : tx'[u] = tx[u] BY <1>1
  <1>3. \A u \in Sessions : PurseOK(tx'[u], orders', wallets') BY <1>2 DEF HInv
  <1>4. ASSUME NEW v \in Sessions, NEW u \in Sessions, v # u
        PROVE  tx'[v].purse \cap tx'[u].purse = {}
    BY <1>2, <1>4 DEF HInv
  <1> QED BY <1>3, <1>4 DEF HInv

(* A session commits. *)
LEMMA CommitBooks ==
  ASSUME HInv, LInv', NEW s \in Sessions, NEW r, Commit(s, r),
         r.rows = tx[s].rows,
         \A u \in Sessions \ {s} : r.purse \cap tx[u].purse = {},
         LedgerOK(orders', trades', wallets')
  PROVE  HInv'
  <1>1. tx' = [tx EXCEPT ![s] = IdleTx] /\ tx \in [Sessions -> Tx]
    BY DEF Commit, Become, HInv, LInv, IInv
  <1>2. tx'[s] = IdleTx /\ \A u \in Sessions \ {s} : tx'[u] = tx[u] BY <1>1
  <1>3. PurseOK(IdleTx, orders', wallets') /\ IdleTx.purse = {}
    BY DEF PurseOK, IdleTx, Matching
  <1>4. ASSUME NEW u \in Sessions \ {s} PROVE PurseOK(tx[u], orders', wallets')
    <2>1. PurseOK(tx[u], orders, wallets) BY DEF HInv
    <2>2. \A i \in tx[u].rows : orders'[i] = orders[i]
      <3>1. tx[u] \in Tx BY <1>1
      <3>2. tx[s].rows \cap tx[u].rows = {} BY DEF HInv, LInv, ApartOK
      <3> QED BY <3>1, <3>2 DEF Commit, Tx
    <2>3. \A w \in tx[u].purse : wallets'[w] = wallets[w]
      <3>1. tx[u] \in Tx BY <1>1
      <3> QED BY <3>1 DEF Commit, Tx
    <2> HIDE DEF PurseOK
    <2> QED BY <2>1, <2>2, <2>3, BooksKept
  <1>5. \A u \in Sessions : PurseOK(tx'[u], orders', wallets') BY <1>2, <1>3, <1>4
  <1>6. ASSUME NEW v \in Sessions, NEW u \in Sessions, v # u
        PROVE  tx'[v].purse \cap tx'[u].purse = {}
    BY <1>2, <1>3, <1>6 DEF HInv
  <1> QED BY <1>5, <1>6 DEF HInv

(* A transaction that is given up has locked nothing. *)
LEMMA GiveUpBooks ==
  ASSUME HInv, LInv', NEW s \in Sessions, Abandon(s)
  PROVE  HInv'
  <1>1. PurseOK(IdleTx, orders, wallets) /\ IdleTx.purse = {}
    BY DEF PurseOK, IdleTx, Matching
  <1> QED BY <1>1, MoveBooks DEF Abandon

(* Nor has one that begins. *)
LEMMA ArrivalBooks ==
  ASSUME HInv, LInv', NEW s \in Sessions, Arrive(s)
  PROVE  HInv'
  <1>a. PICK pc \in {"place", "cancel", "amend"} : \E user, req, id : Begin(s, pc, user, req, id)
    BY DEF Arrive, PlaceBegin, CancelBegin, AmendBegin
  <1>1. PICK user, req, id : Begin(s, pc, user, req, id) BY <1>a
  <1> DEFINE t == [IdleTx EXCEPT !.pc = pc, !.user = user, !.req = req, !.id = id,
                                 !.view = orders, !.funds = wallets]
  <1>2. Become(s, t) /\ UNCHANGED <<orders, wallets, trades>> BY <1>1 DEF Begin
  <1>3. t.pc = pc /\ t.purse = {} BY DEF IdleTx
  <1> HIDE DEF t
  <1>4. PurseOK(t, orders, wallets) BY <1>3 DEF PurseOK, Matching
  <1> QED BY <1>2, <1>3, <1>4, MoveBooks

(* A row is locked before the order is changed, and no wallet with it. *)
LEMMA RowLockBooks ==
  ASSUME HInv, LInv', NEW s \in Sessions, CancelLock(s) \/ AmendLock(s)
  PROVE  HInv'
  <1> DEFINE t == tx[s]
  <1>1. PICK from \in {"cancel", "amend"}, to \in {"canceling", "amending"} : LockOrder(s, from, to)
    BY DEF CancelLock, AmendLock
  <1>2. CASE Abandon(s) BY <1>2, GiveUpBooks
  <1>3. CASE ~ Abandon(s)
    <2> DEFINE r == [t EXCEPT !.pc = to, !.rows = {t.id}]
    <2>1. t.pc = from /\ Become(s, r) /\ UNCHANGED <<orders, wallets, trades>>
      BY <1>1, <1>3 DEF LockOrder
    <2>2. t \in Tx /\ PurseOK(t, orders, wallets) BY DEF HInv, LInv, IInv
    <2>3. t.purse = {} BY <2>1, <2>2 DEF PurseOK, Matching
    <2>4. r.pc = to /\ r.purse = {} BY <2>2, <2>3 DEF Tx
    <2> HIDE DEF r
    <2>5. PurseOK(r, orders, wallets) BY <2>4 DEF PurseOK, Matching
    <2> QED BY <2>1, <2>4, <2>5, MoveBooks
  <1> QED BY <1>2, <1>3

(* The end of a batch changes no row, no wallet and no trade. *)
LEMMA MatchNextBooks ==
  ASSUME HInv, LInv', NEW s \in Sessions, MatchNext(s)
  PROVE  HInv'
  <1> DEFINE t == tx[s]
             r == [t EXCEPT !.pc = "match", !.batch = {}]
  <1>1. t \in Tx /\ PurseOK(t, orders, wallets) /\ t.pc = "fill"
    BY DEF HInv, LInv, IInv, MatchNext
  <1>2. Become(s, r) /\ UNCHANGED <<orders, wallets, trades>> BY DEF MatchNext
  <1>3. /\ r.pc = "match" /\ r.id = t.id /\ r.view = t.view /\ r.rows = t.rows
        /\ r.fills = t.fills /\ r.funds = t.funds /\ r.purse = t.purse
    BY <1>1 DEF Tx
  <1> HIDE DEF r
  <1>4. Matching(t) /\ Matching(r) BY <1>1, <1>3 DEF Matching
  <1>5. PurseOK(r, orders, wallets) BY <1>1, <1>3, <1>4, BooksMoved
  <1>6. \A u \in Sessions \ {s} : r.purse \cap tx[u].purse = {} BY <1>3 DEF HInv
  <1> QED BY <1>2, <1>5, <1>6, MoveBooks

-----------------------------------------------------------------------------
(* PlaceOrder *)

(* What a locked row accounts for changes by an integer. *)
LEMMA ShiftInt ==
  ASSUME LInv, NEW s \in Sessions, Matching(tx[s]), IsFiniteSet(tx[s].fills),
         NEW i \in tx[s].rows
  PROVE  LockShift(tx[s], orders, i) \in Int
  <1> DEFINE t == tx[s]
  <1>1. t.fills \subseteq Trade BY MatchingFacts DEF Tx
  <1>2. OrderOK(t.view[i]) /\ (orders[i] # Null => OrderOK(orders[i]))
    BY MatchingFacts
  <1>3. LockedFor(t.fills, i, t.view[i]) \in Int BY <1>1, <1>2, LockedInt
  <1>4. orders[i] # Null => LockedFor(t.fills, i, orders[i]) \in Int BY <1>1, <1>2, LockedInt
  <1> QED BY <1>3, <1>4 DEF LockShift

(* The sum of these changes, over any function that agrees with them. *)
LEMMA ChangeIsSum ==
  ASSUME LInv, NEW s \in Sessions, Matching(tx[s]), IsFiniteSet(tx[s].fills), NEW w, NEW f,
         \A i \in tx[s].rows :
           f[i] = IF LockRow(tx[s].view[i]) = w THEN LockShift(tx[s], orders, i) ELSE 0
  PROVE  /\ LockChange(tx[s], orders, w) = SumFunctionOnSet(f, tx[s].rows)
         /\ \A i \in tx[s].rows : f[i] \in Int
         /\ LockChange(tx[s], orders, w) \in Int
  <1> DEFINE t == tx[s]
             g == [i \in t.rows |-> IF LockRow(t.view[i]) = w THEN LockShift(t, orders, i) ELSE 0]
  <1>1. IsFiniteSet(t.rows) BY MatchingFacts
  <1>2. LockChange(t, orders, w) = SumFunctionOnSet(g, t.rows) BY DEF LockChange, SumOver
  <1>3. \A i \in t.rows : f[i] = g[i] OBVIOUS
  <1>4. \A i \in t.rows : f[i] \in Int BY ShiftInt
  <1> HIDE DEF g
  <1>5. SumFunctionOnSet(f, t.rows) = SumFunctionOnSet(g, t.rows) BY <1>1, <1>3, SumSame
  <1>6. SumFunctionOnSet(f, t.rows) \in Int BY <1>1, <1>4, SumType
  <1> QED BY <1>2, <1>4, <1>5, <1>6

(* So that it is an integer. *)
LEMMA ChangeInt ==
  ASSUME LInv, NEW s \in Sessions, Matching(tx[s]), IsFiniteSet(tx[s].fills), NEW w
  PROVE  LockChange(tx[s], orders, w) \in Int
  <1> DEFINE f == [i \in tx[s].rows |->
                     IF LockRow(tx[s].view[i]) = w THEN LockShift(tx[s], orders, i) ELSE 0]
  <1>1. \A i \in tx[s].rows :
          f[i] = IF LockRow(tx[s].view[i]) = w THEN LockShift(tx[s], orders, i) ELSE 0
    OBVIOUS
  <1> HIDE DEF f
  <1> QED BY <1>1, ChangeIsSum

(* A new batch brings rows that are as they were committed. *)
LEMMA MatchSelectBooks ==
  ASSUME HInv, LInv', NEW s \in Sessions, MatchSelect(s)
  PROVE  HInv'
  <1> DEFINE t     == tx[s]
             batch == IF Exhausted(t) THEN {} ELSE SelectMakers(s)
             pc    == IF batch = {} THEN "finish" ELSE "fill"
             r     == [t EXCEPT !.pc = pc, !.batch = batch, !.rows = @ \cup batch]
  <1>1. t \in Tx /\ PurseOK(t, orders, wallets) /\ t.pc = "match" /\ LInv
    BY DEF HInv, LInv, IInv, MatchSelect
  <1>2. Become(s, r) /\ UNCHANGED <<orders, wallets, trades>> BY DEF MatchSelect
  <1>3. \A m \in batch : m \in Ids \ {t.id} /\ (m \in t.rows \/ t.view[m] = orders[m])
    BY <1>1, SelectedAreFree
  <1>4. pc \in {"finish", "fill"} OBVIOUS
  <1> HIDE DEF batch, pc
  <1>5. /\ r.pc = pc /\ r.id = t.id /\ r.view = t.view /\ r.rows = t.rows \cup batch
        /\ r.fills = t.fills /\ r.funds = t.funds /\ r.purse = t.purse
    BY <1>1 DEF Tx
  <1> HIDE DEF r
  <1>6. Matching(t) /\ Matching(r) /\ Taker(r) = Taker(t) BY <1>1, <1>4, <1>5 DEF Matching, Taker
  <1>7. tx'[s] = r BY <1>1, <1>2 DEF Become, LInv, IInv
  <1>8. BookedOK(t, orders, wallets) BY <1>1, <1>6 DEF PurseOK
  <1>9. /\ \A x \in t.fills : x.taker = t.id /\ x.maker \in t.rows
        /\ IsFiniteSet(t.rows) /\ t.rows \subseteq Ids /\ IsFiniteSet(t.fills)
    BY <1>1, <1>6, <1>8, MatchingFacts DEF BookedOK
  <1>10. IsFiniteSet(r.rows) /\ r.rows \subseteq Ids
    <2>1. IsFiniteSet(Ids) BY IdsFinite
    <2> QED BY <1>3, <1>5, <1>9, <2>1, FS_Subset
  <1>11. ASSUME NEW i \in r.rows \ t.rows
         PROVE  /\ t.view[i] = orders[i] /\ i # t.id
                /\ AmountOf(t.fills, i) = 0
    <2>1. t.view[i] = orders[i] /\ i # t.id BY <1>3, <1>5
    <2>2. \A x \in t.fills : i \notin {x.maker, x.taker} BY <1>9, <2>1
    <2> QED BY <2>1, <2>2, AmountNone
  <1>12. ASSUME NEW i \in r.rows \ t.rows
         PROVE  /\ orders[i] # Null /\ OrderOK(orders[i])
                /\ orders[i].filled \in Nat /\ LockShift(r, orders, i) = 0
    <2>1. i \in batch BY <1>5
    <2>2. t.view[i] # Null
      <3>1. ~ Exhausted(t) /\ i \in SelectMakers(s) BY <2>1 DEF batch
      <3> QED BY <3>1, SelectedAreMakers DEF IsMaker, IsLiveLimit
    <2>3. i \in Ids /\ orders[i] # Null /\ OrderOK(orders[i])
      BY <1>1, <1>10, <1>11, <2>2 DEF LInv, IInv, BookOK
    <2>4. LockedFor(t.fills, i, orders[i]) \in Int
      BY <1>1, <1>9, <2>3, LockedInt DEF Tx
    <2> QED BY <1>5, <1>11, <2>3, <2>4 DEF LockShift, OrderOK, Order
  <1>13. ASSUME NEW w PROVE LockChange(r, orders, w) = LockChange(t, orders, w)
    <2> DEFINE f == [i \in r.rows |-> IF LockRow(r.view[i]) = w THEN LockShift(r, orders, i) ELSE 0]
    <2>1. LockChange(r, orders, w) = SumFunctionOnSet(f, r.rows) BY DEF LockChange, SumOver
    <2>2. \A i \in t.rows :
            f[i] = IF LockRow(t.view[i]) = w THEN LockShift(t, orders, i) ELSE 0
      BY <1>5 DEF LockShift
    <2>3. \A i \in r.rows \ t.rows : f[i] = 0 BY <1>12
    <2> HIDE DEF f
    <2>4. /\ LockChange(t, orders, w) = SumFunctionOnSet(f, t.rows)
          /\ \A i \in t.rows : f[i] \in Int
          /\ LockChange(t, orders, w) \in Int
      BY <1>1, <1>6, <1>9, <2>2, ChangeIsSum
    <2>5. IsFiniteSet(r.rows \ t.rows) /\ r.rows = t.rows \cup (r.rows \ t.rows)
      BY <1>5, <1>10, FS_Subset
    <2>6. SumFunctionOnSet(f, r.rows \ t.rows) = 0 BY <2>3, <2>5, SumZero
    <2>7. \A i \in t.rows \cup (r.rows \ t.rows) : f[i] \in Int BY <2>3, <2>4
    <2>8. SumFunctionOnSet(f, t.rows \cup (r.rows \ t.rows))
            = SumFunctionOnSet(f, t.rows) + SumFunctionOnSet(f, r.rows \ t.rows)
      BY <1>9, <2>5, <2>7, SumUnion
    <2>9. SumFunctionOnSet(f, r.rows) = SumFunctionOnSet(f, t.rows \cup (r.rows \ t.rows))
      BY <2>5, Zenon
    <2> QED BY <2>1, <2>4, <2>6, <2>8, <2>9
  <1>14. \A i \in r.rows \ {r.id} : r.view[i].filled = orders[i].filled + AmountOf(r.fills, i)
    BY <1>5, <1>8, <1>11, <1>12 DEF BookedOK
  <1>15. BookedOK(r, orders, wallets)
    BY <1>5, <1>6, <1>8, <1>13, <1>14 DEF BookedOK
  <1>16. PurseOK(r, orders, wallets) BY <1>1, <1>5, <1>6, <1>15 DEF PurseOK
  <1>17. \A u \in Sessions \ {s} : r.purse \cap tx[u].purse = {} BY <1>5 DEF HInv
  <1> QED BY <1>2, <1>16, <1>17, MoveBooks

(* What is locked for a new order is what its row accounts for. *)
LEMMA InsertLocks ==
  ASSUME NEW u, NEW r, ReqOK(r), NEW i, OrderOK(NewOrder(u, r))
  PROVE  LockedFor({}, i, NewOrder(u, r)) = LockCost(r)
  <1> DEFINE o == NewOrder(u, r)
  <1>1. /\ o.side = r.side /\ o.type = r.type /\ o.price = r.price /\ o.filled = 0
        /\ o.qmax = r.qmax /\ o.status = "open"
        /\ o.amount = IF r.type = "market" /\ r.side = "buy" THEN Null ELSE r.amount
    BY DEF NewOrder
  <1>2. r.side \in Sides /\ r.type \in Types
        /\ (~ (r.type = "market" /\ r.side = "buy") => r.amount \in Nat)
        /\ (r.type = "market" /\ r.side = "buy" => r.qmax \in Nat)
    BY OrderServiceAssumption DEF ReqOK
  <1>3. QuoteSpent({}, i) = 0 BY QuoteNone
  <1> HIDE DEF o
  <1>4. CASE IsMarketBuy(o)
    <2>1. LockedFor({}, i, o) = o.qmax - 0 BY <1>3, <1>4 DEF LockedFor
    <2> QED BY <1>1, <1>2, <1>4, <2>1 DEF LockCost, IsMarketBuy, o
  <1>5. CASE ~ IsMarketBuy(o)
    <2>1. o.amount - o.filled = r.amount BY <1>1, <1>2, <1>5 DEF IsMarketBuy
    <2>2. LockedFor({}, i, o) = IF o.side = "sell" THEN r.amount ELSE Cost(o.price, r.amount)
      BY <1>1, <1>5, <2>1 DEF LockedFor
    <2> QED BY <1>1, <1>2, <1>5, <2>2 DEF LockCost, IsMarketBuy, o, Sides, Types
  <1> QED BY <1>4, <1>5

(* lockFunds takes from the balance what it adds to the funds in orders, and has seen that
   it is there. *)
LEMMA PlaceLockBooks ==
  ASSUME HInv, LInv', NEW s \in Sessions, PlaceLock(s)
  PROVE  /\ HInv'
         /\ LET r    == LockAndInsert(tx[s])
                cost == LockCost(tx[s].req)
                q    == LockRow(Taker(r))
            IN  /\ Become(s, r) /\ OrderOK(Taker(r)) /\ ReqOK(tx[s].req)
                /\ Taker(r) = NewOrder(tx[s].user, tx[s].req)
                /\ r.purse = {q} /\ q \in WalletRows /\ cost \in Int
                /\ r.funds[q].balance = wallets[q].balance - cost
                /\ wallets[q].balance >= cost
  <1> DEFINE t    == tx[s]
             r    == LockAndInsert(t)
             q    == <<t.user, LockedAsset(t.req.side)>>
             cost == LockCost(t.req)
             o    == NewOrder(t.user, t.req)
  <1>1. t \in Tx /\ TxOK(t) /\ PurseOK(t, orders, wallets) /\ t.pc = "place"
        /\ ProgressOK(t, orders, nextId)
    BY DEF HInv, LInv, IInv, PlaceLock
  <1>2. /\ t.purse = {} /\ t.fills = {} /\ orders[t.id] = Null
        /\ t.id \in Ids /\ t.user \in Users /\ ReqOK(t.req)
    BY <1>1 DEF PurseOK, ProgressOK, Matching, Placing, TxOK
  <1>3. Become(s, r) /\ UNCHANGED <<orders, wallets, trades>> /\ Ready(s) /\ Covers(t)
    BY DEF PlaceLock
  <1>4. q \in WalletRows /\ q \in Wallets /\ LockedAsset(t.req.side) \in Assets
    BY <1>3, ExchangeAssumption DEF Covers, LockedAsset, Assets
  <1>5. q \in WalletsNeeded(s) BY <1>1, <1>4 DEF WalletsNeeded
  <1>6. t.funds[q] = wallets[q] /\ \A u \in Sessions \ {s} : q \notin tx[u].purse
    BY <1>2, <1>3, <1>5 DEF Ready, Conflicts, Waiting, Blocks, WalletStale
  <1>7. /\ r.pc = "match" /\ r.id = t.id /\ r.rows = {t.id} /\ r.fills = {} /\ r.purse = {q}
        /\ r.view = [t.view EXCEPT ![t.id] = o]
        /\ r.funds = UpdateBalances(t.funds, t.user, LockedAsset(t.req.side), -cost, cost)
    BY <1>1, <1>2 DEF LockAndInsert, Tx
  <1> HIDE DEF r
  <1>8. OrderOK(o) BY <1>2, NewOrderOK
  <1>9. Taker(r) = o /\ LockRow(o) = q /\ o.filled = 0
    BY <1>1, <1>2, <1>7 DEF Taker, Tx, LockRow, NewOrder
  <1>10. cost \in Int /\ t.funds \in [Wallets -> Wallet] BY <1>1, <1>2, LockCostInt DEF Tx
  <1> HIDE DEF cost, o
  <1>11. /\ Total(r.funds[q]) = Total(wallets[q])
         /\ r.funds[q].inOrders = wallets[q].inOrders + cost
    <2>1. -cost \in Int /\ (-cost) + cost = 0 /\ cost \in Int BY <1>10
    <2>2. /\ Total(r.funds[q]) = Total(t.funds[q]) + 0
          /\ r.funds[q].inOrders = t.funds[q].inOrders + cost
      <3> DEFINE asset == LockedAsset(t.req.side)
                 user  == t.user
                 d     == -cost
                 w     == t.funds
                 v     == UpdateBalances(w, user, asset, d, cost)
      <3>0. /\ w \in [Wallets -> Wallet] /\ user \in Users /\ asset \in Assets
            /\ d \in Int /\ cost \in Int /\ <<user, asset>> \in WalletRows
        BY <1>2, <1>4, <1>10, <2>1
      <3> HIDE DEF asset, d, user, w
      <3>1. /\ Total(v[<<user, asset>>]) = Total(w[<<user, asset>>]) + (d + cost)
            /\ v[<<user, asset>>].inOrders = w[<<user, asset>>].inOrders + cost
        BY <3>0, UpdateRow
      <3>2. r.funds = v BY <1>7 DEF asset, d, user, w
      <3>3. d + cost = 0 BY <2>1 DEF d
      <3> QED BY <3>1, <3>2, <3>3 DEF asset, user, w
    <2>3. Total(t.funds[q]) \in Int
      <3> HIDE DEF q
      <3> QED BY <1>4, <1>10, RowInts
    <2> QED BY <1>6, <2>2, <2>3
  <1>12. LockChange(r, orders, q) = cost
    <2> DEFINE f == [i \in {t.id} |-> IF LockRow(r.view[i]) = q THEN LockShift(r, orders, i) ELSE 0]
    <2>1. LockChange(r, orders, q) = SumFunctionOnSet(f, {t.id}) BY <1>7 DEF LockChange, SumOver
    <2>2. r.view[t.id] = o BY <1>7, <1>9 DEF Taker
    <2>3. LockShift(r, orders, t.id) = LockedFor({}, t.id, o) - 0
      BY <1>2, <1>7, <2>2 DEF LockShift
    <2>4. LockedFor({}, t.id, o) = cost BY <1>2, <1>8, InsertLocks DEF o, cost
    <2>5. f[t.id] = cost BY <1>9, <1>10, <2>2, <2>3, <2>4
    <2> HIDE DEF f
    <2> QED BY <1>10, <2>1, <2>5, SumSingle
  <1>13. BookedOK(r, orders, wallets)
    <2>1. IsFiniteSet(r.fills) /\ TradesIn(r.fills, r.view) BY <1>7, FS_EmptySet DEF TradesIn
    <2>2. AmountOf(r.fills, r.id) = 0 BY <1>7, AmountNone
    <2>3. ASSUME NEW u \in Users, NEW a \in Assets, <<u, a>> \in r.purse
          PROVE  /\ Total(r.funds[<<u, a>>]) = Total(wallets[<<u, a>>]) + EarnedBy(r.fills, r.view, u, a)
                 /\ r.funds[<<u, a>>].inOrders = wallets[<<u, a>>].inOrders + LockChange(r, orders, <<u, a>>)
      <3>1. <<u, a>> = q BY <1>7, <2>3
      <3>2. EarnedBy(r.fills, r.view, u, a) = 0 BY <1>7, HistoryNone
      <3>3. Total(wallets[q]) \in Int
        <4>1. Total(t.funds[q]) \in Int
          <5> HIDE DEF q
          <5> QED BY <1>4, <1>10, RowInts
        <4> QED BY <1>6, <4>1
      <3> HIDE DEF q
      <3> QED BY <1>11, <1>12, <3>1, <3>2, <3>3
    <2>4. r.rows \ {r.id} = {} BY <1>7
    <2> QED BY <1>7, <1>9, <2>1, <2>2, <2>3, <2>4 DEF BookedOK
  <1>14. PurseOK(r, orders, wallets) BY <1>4, <1>7, <1>13 DEF PurseOK, Matching
  <1>15. \A u \in Sessions \ {s} : r.purse \cap tx[u].purse = {} BY <1>6, <1>7
  <1>16. HInv' BY <1>3, <1>14, <1>15, MoveBooks
  <1>17. /\ r.funds[q].balance = wallets[q].balance - cost
         /\ wallets[q].balance >= cost
    <2>1. /\ wallets[q].balance \in Int /\ wallets[q].inOrders \in Int
          /\ r.funds[q].balance \in Int /\ r.funds[q].inOrders \in Int
      <3>1. r \in Tx BY <1>3, <1>16 DEF HInv, LInv, IInv, Become
      <3> QED BY <1>4, <3>1 DEF HInv, LInv, IInv, FundsOK, Tx, Wallet
    <2>2. t.funds[q].balance >= cost BY <1>3 DEF Covers, cost
    <2> DEFINE now    == wallets[q]
               before == t.funds[q]
               after  == r.funds[q]
    <2>3. before = now BY <1>6
    <2>4. /\ after.balance + after.inOrders = now.balance + now.inOrders
          /\ after.inOrders = now.inOrders + cost
      BY <1>11 DEF Total
    <2> HIDE DEF now, before, after
    <2>5. after.balance = now.balance - cost
      <3>1. /\ now.balance \in Int /\ now.inOrders \in Int
            /\ after.balance \in Int /\ after.inOrders \in Int
        BY <2>1 DEF now, after
      <3> QED BY ONLY <1>10, <2>4, <3>1
    <2> QED BY <2>2, <2>3, <2>5 DEF now, before, after
  <1> QED BY <1>2, <1>3, <1>4, <1>7, <1>8, <1>9, <1>10, <1>16, <1>17 DEF r, o, cost

-----------------------------------------------------------------------------
(* One trade *)

(* The trade of t with m. *)
NewTrade(t, m) ==
  LET price  == t.view[m].price
      amount == TradeAmount(t, t.view[m])
  IN  [maker |-> m, taker |-> t.id, price |-> price, amount |-> amount,
       quote |-> Cost(price, amount), feeMaker |-> FeeMaker(price, amount),
       feeTaker |-> FeeTaker(price, amount)]

(* What a trade writes but for the two rows. *)
LEMMA FillPays ==
  ASSUME NEW t, t \in Tx, NEW m
  PROVE  LET r == Fill(t, m)
         IN  /\ r.fills = t.fills \cup {NewTrade(t, m)}
             /\ r.purse = t.purse \cup SettleRows(t.view[m], Taker(t))
             /\ r.funds = Settle(t.funds, t.view[m], Taker(t), t.view[m].price,
                                 TradeAmount(t, t.view[m]))
  <1> DEFINE r     == Fill(t, m)
             fills == t.fills \cup {NewTrade(t, m)}
             purse == t.purse \cup SettleRows(t.view[m], Taker(t))
             funds == Settle(t.funds, t.view[m], Taker(t), t.view[m].price,
                             TradeAmount(t, t.view[m]))
  <1>1. \E view, batch, spent, bought :
          r = [t EXCEPT !.view = view, !.funds = funds, !.purse = purse, !.fills = fills,
                        !.batch = batch, !.spent = spent, !.bought = bought]
    BY Zenon DEF Fill, NewTrade
  <1> HIDE DEF r, funds, purse, fills
  <1>2. r.fills = fills /\ r.purse = purse /\ r.funds = funds BY <1>1 DEF Tx
  <1> QED BY <1>2 DEF r, funds, purse, fills

(* The cost of a part and of the rest. *)
LEMMA CostMinus ==
  ASSUME NEW p \in Int, NEW a \in Int, NEW b \in Int
  PROVE  Cost(p, a - b) = Cost(p, a) - Cost(p, b)
  BY DEF Cost

(* What a trade unlocks is an integer. *)
LEMMA UnlocksInt ==
  ASSUME NEW o, OrderOK(o), NEW price \in Int, NEW amount \in Nat
  PROVE  Unlocks(o, price, amount) \in Int
  <1> DEFINE p == IF o.type = "market" THEN price ELSE o.price
  <1>1. p \in Int BY DEF OrderOK, Order, Types, Prices
  <1>2. Unlocks(o, price, amount) = IF o.side = "sell" THEN amount ELSE Cost(p, amount)
    BY DEF Unlocks
  <1> HIDE DEF p
  <1>3. Cost(p, amount) \in Int BY <1>1, CostInt
  <1> QED BY <1>2, <1>3

(* What a live maker accounts for shrinks by what a trade unlocks of it. *)
LEMMA MakerUnlocks ==
  ASSUME NEW o, OrderOK(o), o.type = "limit", o.status \in Live,
         NEW amount \in Nat, NEW ts, NEW fs, NEW i
  PROVE  LockedFor(fs, i, MakerAfter(o, amount))
           = LockedFor(ts, i, o) - Unlocks(o, o.price, amount)
  <1> DEFINE n == MakerAfter(o, amount)
  <1>1. /\ o \in Order /\ o.amount \in Nat /\ o.filled \in Nat /\ o.price \in Int
        /\ ~ IsMarketBuy(o)
    BY DEF OrderOK, IsMarketBuy, Order, Prices
  <1>2. /\ n.side = o.side /\ n.type = o.type /\ n.price = o.price /\ n.amount = o.amount
        /\ n.filled = o.filled + amount /\ n.status \in {"filled", "partially_filled"}
    BY <1>1 DEF MakerAfter, MakerStatus, Order
  <1> HIDE DEF n
  <1>3. ~ IsMarketBuy(n) BY <1>2 DEF IsMarketBuy
  <1>4. n.amount - n.filled = (o.amount - o.filled) - amount BY <1>1, <1>2
  <1>5. Cost(o.price, (o.amount - o.filled) - amount)
          = Cost(o.price, o.amount - o.filled) - Cost(o.price, amount)
    <2>1. o.amount - o.filled \in Int /\ o.price \in Int /\ amount \in Int BY <1>1
    <2> DEFINE left == o.amount - o.filled
    <2> HIDE DEF left
    <2>2. Cost(o.price, left - amount) = Cost(o.price, left) - Cost(o.price, amount)
      BY <2>1, CostMinus DEF left
    <2> QED BY <2>2 DEF left
  <1>6. LockedFor(fs, i, n) = IF n.side = "sell" THEN n.amount - n.filled
                                                 ELSE Cost(n.price, n.amount - n.filled)
    BY <1>2, <1>3 DEF LockedFor
  <1>7. LockedFor(ts, i, o) = IF o.side = "sell" THEN o.amount - o.filled
                                                 ELSE Cost(o.price, o.amount - o.filled)
    BY <1>1 DEF LockedFor, Live
  <1> QED BY <1>1, <1>2, <1>4, <1>5, <1>6, <1>7 DEF Unlocks, n

(* So does what the taker accounts for, by what the trade x unlocks of it. *)
LEMMA TakerUnlocks ==
  ASSUME NEW o, OrderOK(o), o.status \notin {"canceled", "rejected"}, NEW x \in Trade,
         NEW ts, IsFiniteSet(ts), ts \subseteq Trade, x \notin ts,
         x.quote = Cost(x.price, x.amount),
         NEW n, n.side = o.side, n.type = o.type, n.price = o.price, n.amount = o.amount,
         n.qmax = o.qmax, n.filled = o.filled + x.amount,
         n.status \notin {"canceled", "rejected"}
  PROVE  LockedFor(ts \cup {x}, x.taker, n)
           = LockedFor(ts, x.taker, o) - Unlocks(o, x.price, x.amount)
  <1>1. CASE IsMarketBuy(o)
    <2>1. QuoteSpent(ts \cup {x}, x.taker) = QuoteSpent(ts, x.taker) + x.quote
      <3>1. ts \cap {x} = {} /\ {x} \subseteq Trade /\ IsFiniteSet({x}) BY FS_Singleton
      <3> DEFINE fs == {x}
      <3> HIDE DEF fs
      <3>2. QuoteSpent(ts \cup fs, x.taker) = QuoteSpent(ts, x.taker) + QuoteSpent(fs, x.taker)
        BY <3>1, QuoteUnion DEF fs
      <3>3. QuoteSpent(fs, x.taker) = x.quote BY QuoteOne DEF fs
      <3> QED BY <3>2, <3>3 DEF fs
    <2>2. QuoteSpent(ts, x.taker) \in Int /\ x.quote \in Int /\ o.qmax \in Int
      BY <1>1, TradeSums DEF OrderOK, Trade
    <2>3. IsMarketBuy(n) BY <1>1 DEF IsMarketBuy
    <2>4. LockedFor(ts \cup {x}, x.taker, n) = n.qmax - QuoteSpent(ts \cup {x}, x.taker)
      BY <2>3 DEF LockedFor
    <2>5. LockedFor(ts, x.taker, o) = o.qmax - QuoteSpent(ts, x.taker) BY <1>1 DEF LockedFor
    <2>6. Unlocks(o, x.price, x.amount) = x.quote BY <1>1 DEF Unlocks, IsMarketBuy
    <2> QED BY <2>1, <2>2, <2>4, <2>5, <2>6
  <1>2. CASE ~ IsMarketBuy(o)
    <2>1. /\ o.amount \in Int /\ o.filled \in Int /\ x.amount \in Int
          /\ (o.side # "sell" => o.price \in Int /\ o.type # "market")
      BY <1>2 DEF OrderOK, Order, Trade, IsMarketBuy, Types, Sides, Prices
    <2>2. ~ IsMarketBuy(n) BY <1>2 DEF IsMarketBuy
    <2>3. n.amount - n.filled = (o.amount - o.filled) - x.amount BY <2>1
    <2>4. o.side # "sell" => Cost(o.price, (o.amount - o.filled) - x.amount)
                               = Cost(o.price, o.amount - o.filled) - Cost(o.price, x.amount)
      <3> DEFINE y == o.amount - o.filled
                 z == x.amount
                 p == o.price
      <3>1. y \in Int /\ z \in Int /\ (o.side # "sell" => p \in Int) BY <2>1
      <3> HIDE DEF y, z, p
      <3>2. o.side # "sell" => Cost(p, y - z) = Cost(p, y) - Cost(p, z) BY <3>1, CostMinus
      <3> QED BY <3>2 DEF y, z, p
    <2>5. LockedFor(ts \cup {x}, x.taker, n) = IF n.side = "sell" THEN n.amount - n.filled
                                                 ELSE Cost(n.price, n.amount - n.filled)
      BY <2>2 DEF LockedFor
    <2>6. LockedFor(ts, x.taker, o) = IF o.side = "sell" THEN o.amount - o.filled
                                                 ELSE Cost(o.price, o.amount - o.filled)
      BY <1>2 DEF LockedFor
    <2> QED BY <2>1, <2>3, <2>4, <2>5, <2>6 DEF Unlocks
  <1> QED BY <1>1, <1>2

(* A wallet that a transaction has not locked is one that its trades do not concern,
   and no funds of its orders are locked in it. *)
LEMMA Unconcerned ==
  ASSUME LInv, NEW s \in Sessions, Matching(tx[s]), PurseOK(tx[s], orders, wallets),
         NEW u \in Users, NEW a \in Assets, <<u, a>> \in WalletRows \ tx[s].purse
  PROVE  /\ EarnedBy(tx[s].fills, tx[s].view, u, a) = 0
         /\ LockChange(tx[s], orders, <<u, a>>) = 0
  <1> DEFINE t == tx[s]
             q == <<u, a>>
  <1>1. BookedOK(t, orders, wallets) BY DEF PurseOK
  <1>2. /\ t.rows \subseteq Ids /\ IsFiniteSet(t.rows) /\ Taker(t) = t.view[t.id]
        /\ \A i \in t.rows \ {t.id} : RowOK(t, i, orders) /\ OrderOK(orders[i])
        /\ \A x \in t.fills : x.taker = t.id
        /\ t.fills \subseteq Trade /\ IsFiniteSet(t.fills)
    <2>1. t \in Tx BY MatchingFacts
    <2> QED BY <1>1, <2>1, MatchingFacts DEF BookedOK, Tx
  <1>3. ASSUME NEW x \in t.fills PROVE t.view[x.maker].user # u /\ Taker(t).user # u
    <2>1. SettleRows(t.view[x.maker], Taker(t)) \subseteq t.purse BY <1>1 DEF BookedOK
    <2> QED BY <2>1 DEF SettleRows
  <1>4. EarnedBy(t.fills, t.view, u, a) = 0
    <2>1. \A x \in t.fills : \A i \in {x.maker, x.taker} : t.view[i].user # u BY <1>2, <1>3
    <2> QED BY <2>1, HistoryNone
  <1>5. ASSUME NEW i \in t.rows
        PROVE  (IF LockRow(t.view[i]) = q THEN LockShift(t, orders, i) ELSE 0) = 0
    <2> SUFFICES ASSUME LockRow(t.view[i]) = q PROVE LockShift(t, orders, i) = 0
      OBVIOUS
    <2>1. i # t.id BY <1>1, <1>2 DEF BookedOK
    <2>2. t.view[i].user = u BY DEF LockRow
    <2>3. \A x \in t.fills : i \notin {x.maker, x.taker} BY <1>2, <1>3, <2>1, <2>2
    <2>4. AmountOf(t.fills, i) = 0 BY <2>3, AmountNone
    <2>5. RowOK(t, i, orders) /\ OrderOK(orders[i]) /\ orders[i] # Null /\ orders[i].filled \in Nat
      BY <1>2, <2>1 DEF RowOK, OrderOK, Order
    <2>6. t.view[i].filled = orders[i].filled BY <1>1, <2>1, <2>4, <2>5 DEF BookedOK
    <2>7. t.view[i] = orders[i] BY <2>5, <2>6, LockedRow
    <2>8. LockedFor(t.fills, i, orders[i]) \in Int BY <1>2, <2>5, LockedInt
    <2> QED BY <2>5, <2>7, <2>8 DEF LockShift
  <1>6. LockChange(t, orders, q) = 0
    <2> DEFINE f == [i \in t.rows |-> IF LockRow(t.view[i]) = q THEN LockShift(t, orders, i) ELSE 0]
    <2>1. LockChange(t, orders, q) = SumFunctionOnSet(f, t.rows) BY DEF LockChange, SumOver
    <2>2. \A i \in t.rows : f[i] = 0 BY <1>5
    <2> HIDE DEF f
    <2> QED BY <1>2, <2>1, <2>2, SumZero
  <1> QED BY <1>4, <1>6

(* The row n is o, filled by the amount of x. *)
FilledWith(n, o, x) ==
  /\ n.side = o.side /\ n.type = o.type /\ n.price = o.price /\ n.amount = o.amount
  /\ n.qmax = o.qmax /\ n.user = o.user
  /\ n.filled = o.filled + x.amount /\ n.status \in {"partially_filled", "filled"}

(* A trade changes what the rows of a transaction account for by what it unlocks. *)
LEMMA FillUnlocks ==
  ASSUME LInv, NEW s \in Sessions, Matching(tx[s]), IsFiniteSet(tx[s].fills),
         NEW m \in tx[s].rows \ {tx[s].id}, NEW r, NEW x \in Trade, x \notin tx[s].fills,
         x.maker = m, x.taker = tx[s].id, x.price = tx[s].view[m].price,
         x.quote = Cost(x.price, x.amount),
         tx[s].view[m].type = "limit", tx[s].view[m].status \in Live,
         r.id = tx[s].id, r.rows = tx[s].rows, r.fills = tx[s].fills \cup {x},
         r.view[m] = MakerAfter(tx[s].view[m], x.amount),
         FilledWith(r.view[r.id], Taker(tx[s]), x),
         \A i \in Ids \ {m, tx[s].id} : r.view[i] = tx[s].view[i],
         NEW w
  PROVE  LockChange(r, orders, w) = LockChange(tx[s], orders, w)
           - (IF LockRow(tx[s].view[m]) = w THEN Unlocks(tx[s].view[m], x.price, x.amount) ELSE 0)
           - (IF LockRow(Taker(tx[s])) = w THEN Unlocks(Taker(tx[s]), x.price, x.amount) ELSE 0)
  <1> DEFINE t == tx[s]
             f == [i \in t.rows |-> IF LockRow(t.view[i]) = w THEN LockShift(t, orders, i) ELSE 0]
             g == [i \in t.rows |-> IF LockRow(r.view[i]) = w THEN LockShift(r, orders, i) ELSE 0]
             um == Unlocks(t.view[m], x.price, x.amount)
             ut == Unlocks(Taker(t), x.price, x.amount)
  <1>1. /\ t \in Tx /\ t.rows \subseteq Ids /\ IsFiniteSet(t.rows)
        /\ t.id \in t.rows /\ orders[t.id] = Null
        /\ Taker(t) = t.view[t.id] /\ OrderOK(Taker(t)) /\ Taker(t) \in Order
        /\ \A i \in t.rows \ {t.id} :
             OrderOK(orders[i]) /\ OrderOK(t.view[i]) /\ t.view[i] \in Order /\ orders[i] # Null
        /\ \A y \in t.fills : y.taker = t.id
        /\ MatchingOK(t, orders)
    BY MatchingFacts DEF RowOK
  <1>2. t.fills \subseteq Trade /\ x.amount \in Nat /\ x.price \in Int /\ m # t.id /\ m \in t.rows
    BY <1>1 DEF Tx, Trade, Prices
  <1>3. Taker(t).status \notin {"canceled", "rejected"} BY <1>1 DEF MatchingOK, ArrivingOK
  <1>4. ASSUME NEW i \in t.rows \ {t.id}, NEW o
        PROVE  LockedFor(r.fills, i, o) = LockedFor(t.fills, i, o)
    <2>1. QuoteSpent(t.fills, i) = 0 /\ QuoteSpent(r.fills, i) = 0 BY <1>1, QuoteNone
    <2> QED BY <2>1 DEF LockedFor
  <1>5. ASSUME NEW i \in t.rows PROVE f[i] \in Int
    BY ShiftInt
  <1>6. \A i \in t.rows \ {m, t.id} : g[i] = f[i]
    <2> TAKE i \in t.rows \ {m, t.id}
    <2>1. r.view[i] = t.view[i] BY <1>1
    <2>2. LockShift(r, orders, i) = LockShift(t, orders, i) BY <1>4, <2>1 DEF LockShift
    <2> QED BY <2>1, <2>2
  <1>7. g[m] = f[m] - (IF LockRow(t.view[m]) = w THEN um ELSE 0) /\ um \in Int
    <2>1. LockedFor(r.fills, m, r.view[m]) = LockedFor(t.fills, m, t.view[m]) - um
      BY <1>1, <1>2, MakerUnlocks
    <2>2. LockRow(r.view[m]) = LockRow(t.view[m])
      BY <1>1, <1>2 DEF MakerAfter, LockRow, Order
    <2>3. LockedFor(r.fills, m, orders[m]) = LockedFor(t.fills, m, orders[m])
          /\ LockedFor(t.fills, m, orders[m]) \in Int
          /\ LockedFor(t.fills, m, t.view[m]) \in Int
      BY <1>1, <1>2, <1>4, LockedInt
    <2>4. um \in Int BY <1>1, <1>2, UnlocksInt
    <2> QED BY <1>1, <1>2, <2>1, <2>2, <2>3, <2>4 DEF LockShift
  <1>8. g[t.id] = f[t.id] - (IF LockRow(Taker(t)) = w THEN ut ELSE 0) /\ ut \in Int
    <2> DEFINE n == r.view[t.id]
    <2>1. /\ n.side = Taker(t).side /\ n.type = Taker(t).type /\ n.price = Taker(t).price
          /\ n.amount = Taker(t).amount /\ n.qmax = Taker(t).qmax /\ n.user = Taker(t).user
          /\ n.filled = Taker(t).filled + x.amount /\ n.status \notin {"canceled", "rejected"}
      BY DEF FilledWith
    <2> HIDE DEF n
    <2>2. LockedFor(r.fills, t.id, n) = LockedFor(t.fills, t.id, Taker(t)) - ut
      <3> DEFINE o  == Taker(t)
                 ts == t.fills
      <3>1. OrderOK(o) /\ o.status \notin {"canceled", "rejected"} BY <1>1, <1>3
      <3>2. IsFiniteSet(ts) /\ ts \subseteq Trade /\ x \notin ts BY <1>2
      <3>3. /\ n.side = o.side /\ n.type = o.type /\ n.price = o.price /\ n.amount = o.amount
            /\ n.qmax = o.qmax /\ n.filled = o.filled + x.amount
            /\ n.status \notin {"canceled", "rejected"}
        BY <2>1
      <3> HIDE DEF o, ts
      <3>4. LockedFor(ts \cup {x}, x.taker, n) = LockedFor(ts, x.taker, o) - Unlocks(o, x.price, x.amount)
        BY ONLY <3>1, <3>2, <3>3, x \in Trade, x.quote = Cost(x.price, x.amount), TakerUnlocks
      <3> QED BY <3>4 DEF o, ts
    <2>3. LockedFor(t.fills, t.id, Taker(t)) \in Int BY <1>1, <1>2, LockedInt
    <2>4. LockRow(n) = LockRow(Taker(t)) BY <2>1 DEF LockRow
    <2>5. ut \in Int BY <1>1, <1>2, UnlocksInt
    <2> QED BY <1>1, <2>2, <2>3, <2>4, <2>5 DEF LockShift, n
  <1>9. LockChange(t, orders, w) = SumFunctionOnSet(f, t.rows)
        /\ LockChange(r, orders, w) = SumFunctionOnSet(g, t.rows)
    BY DEF LockChange, SumOver
  <1> HIDE DEF f, g, um, ut
  <1>10. SumFunctionOnSet(f, t.rows) \in Int BY <1>1, <1>5, SumType
  <1>11. f[m] \in Int /\ f[t.id] \in Int BY <1>1, <1>2, <1>5
  <1>12. \A i \in t.rows : g[i] \in Int BY <1>5, <1>6, <1>7, <1>8, <1>11
  <1>13. SumFunctionOnSet(g, t.rows)
           = SumFunctionOnSet(f, t.rows) + (g[m] - f[m]) + (g[t.id] - f[t.id])
    <2>1. m \in t.rows /\ t.id \in t.rows /\ m # t.id BY <1>1, <1>2
    <2>2. \A i \in t.rows : f[i] \in Int /\ g[i] \in Int BY <1>5, <1>12
    <2> DEFINE S == t.rows
               j == t.id
    <2> HIDE DEF S, j
    <2>3. SumFunctionOnSet(g, S) = SumFunctionOnSet(f, S) + (g[m] - f[m]) + (g[j] - f[j])
      BY <1>1, <1>6, <2>1, <2>2, SumChangeTwo DEF S, j
    <2> QED BY <2>3 DEF S, j
  <1> QED BY <1>7, <1>8, <1>9, <1>10, <1>11, <1>13 DEF um, ut

(* Both sides' orders, and no other, are filled by the amount of the trade. *)
LEMMA FillAdds ==
  ASSUME NEW ts, IsFiniteSet(ts), ts \subseteq Trade, NEW x \in Trade, x \notin ts, NEW i
  PROVE  AmountOf(ts \cup {x}, i)
           = AmountOf(ts, i) + (IF i \in {x.maker, x.taker} THEN x.amount ELSE 0)
  <1> DEFINE fs == {x}
  <1>1. IsFiniteSet(fs) /\ fs \subseteq Trade /\ ts \cap fs = {} BY FS_Singleton
  <1>2. AmountOf(fs, i) = IF i \in {x.maker, x.taker} THEN x.amount ELSE 0
    <2>1. CASE i \in {x.maker, x.taker} BY <2>1, AmountOne
    <2>2. CASE i \notin {x.maker, x.taker} BY <2>2, AmountNone
    <2> QED BY <2>1, <2>2
  <1> HIDE DEF fs
  <1>3. AmountOf(ts \cup fs, i) = AmountOf(ts, i) + AmountOf(fs, i) BY <1>1, AmountUnion
  <1> QED BY <1>2, <1>3 DEF fs

(* A trade more is worth its two sides more. *)
LEMMA FillEarns ==
  ASSUME NEW ts, IsFiniteSet(ts), NEW b, TradesIn(ts, b), NEW x, x \notin ts, TradesIn({x}, b),
         NEW u, NEW a \in Assets
  PROVE  EarnedBy(ts \cup {x}, b, u, a)
           = EarnedBy(ts, b, u, a) + (SideWorth(x, x.maker, b, u, a) + SideWorth(x, x.taker, b, u, a))
  <1> DEFINE fs == {x}
  <1>1. IsFiniteSet(fs) /\ ts \cap fs = {} BY FS_Singleton
  <1>2. EarnedBy(fs, b, u, a) = SideWorth(x, x.maker, b, u, a) + SideWorth(x, x.taker, b, u, a)
    BY HistoryOne
  <1> HIDE DEF fs
  <1>3. EarnedBy(ts \cup fs, b, u, a) = EarnedBy(ts, b, u, a) + EarnedBy(fs, b, u, a)
    BY <1>1, HistoryUnion DEF fs
  <1> QED BY <1>2, <1>3 DEF fs

(* What is known of a trade that a session makes. *)
LEMMA TradeFacts ==
  ASSUME HInv, NEW s \in Sessions, tx[s].pc = "fill", NEW m \in tx[s].batch, Trades(tx[s], m)
  PROVE  LET t == tx[s]
             x == NewTrade(t, m)
             r == Fill(t, m)
         IN  /\ Matching(t) /\ Matching(r) /\ BookedOK(t, orders, wallets)
             /\ x \in Trade /\ x \notin t.fills
             /\ m \in t.rows \ {t.id} /\ OrderOK(t.view[m]) /\ OrderOK(Taker(t))
             /\ t.view[m].type = "limit" /\ t.view[m].status \in Live
             /\ t.view[m].side = Opposite(Taker(t).side)
             /\ r.id = t.id /\ r.rows = t.rows /\ r.fills = t.fills \cup {x}
             /\ r.view[m] = MakerAfter(t.view[m], x.amount)
             /\ r.view[m].status = "filled"
             /\ Taker(r) = r.view[r.id]
             /\ \E status \in {"partially_filled", "filled"} :
                  Taker(r) = [Taker(t) EXCEPT !.filled = Taker(t).filled + x.amount,
                                              !.status = status]
             /\ \A i \in Ids \ {m, t.id} : r.view[i] = t.view[i]
             /\ \A i \in t.rows : /\ t.view[i] \in Order /\ r.view[i] \in Order
                                  /\ r.view[i].user = t.view[i].user
                                  /\ r.view[i].side = t.view[i].side
  <1> DEFINE t == tx[s]
             amount == TradeAmount(t, t.view[m])
             x == NewTrade(t, m)
             r == Fill(t, m)
  <1>1. TxOK(t) /\ t \in Tx /\ LInv /\ PurseOK(t, orders, wallets) BY DEF HInv, LInv, IInv
  <1>2. Matching(t) BY DEF Matching
  <1>3. Traded(t, m, r, amount) BY <1>1, FillWrites
  <1>4. BookedOK(t, orders, wallets) BY <1>1, <1>2 DEF PurseOK
  <1>5. /\ t.rows \subseteq Ids /\ t.batch \subseteq t.rows \ {t.id} /\ t.id \in t.rows
        /\ Taker(t) = t.view[t.id] /\ Taker(t) \in Order
        /\ \A i \in t.rows \ {t.id} : t.view[i] \in Order
    BY <1>1, <1>2, MatchingFacts DEF MatchingOK
  <1>6. x.maker = m /\ x.taker = t.id /\ x.amount = amount BY DEF NewTrade
  <1>7. x \in Trade
    <2>1. amount \in Nat /\ t.view[m].price \in Prices /\ t.view[m].price \in Int
          /\ m \in Ids /\ t.id \in Ids
      BY <1>3 DEF Traded, IsMaker, IsLiveLimit, OrderOK, Prices
    <2>2. Cost(t.view[m].price, amount) \in Int /\ FeeMaker(t.view[m].price, amount) \in Int
          /\ FeeTaker(t.view[m].price, amount) \in Int
      BY <2>1, CostInt
    <2> QED BY <2>1, <2>2 DEF NewTrade, Trade
  <1>8. /\ t.view[m].type = "limit" /\ t.view[m].status \in Live
        /\ t.view[m].side = Opposite(Taker(t).side)
    BY <1>3 DEF Traded, IsMaker, IsLiveLimit
  <1>9. x \notin t.fills BY <1>4, <1>6, <1>8 DEF BookedOK, Live
  <1>10. r.fills = t.fills \cup {x} BY <1>1, FillPays
  <1> HIDE DEF r, x, amount
  <1>11. r.view[m].status = "filled" /\ r.view[m] \in Order
         /\ r.view[m].user = t.view[m].user /\ r.view[m].side = t.view[m].side
    <2>1. r.view[m] = MakerAfter(t.view[m], amount) /\ t.view[m] \in Order /\ amount \in Nat
          /\ t.view[m].filled + amount <= t.view[m].amount /\ t.view[m].amount \in Nat
      BY <1>3, <1>8 DEF Traded, OrderOK, IsMarketBuy
    <2>2. t.view[m].filled + amount \in Nat BY <2>1 DEF Order
    <2>3. MakerStatus(t.view[m], t.view[m].filled + amount) = "filled"
      BY <2>1, <2>2 DEF MakerStatus
    <2> QED BY <2>1, <2>2, <2>3 DEF MakerAfter, Order, Statuses
  <1>12. /\ r.pc = "fill" /\ r.id = t.id /\ r.rows = t.rows
         /\ Taker(r) = [Taker(t) EXCEPT !.filled = Taker(t).filled + amount,
              !.status = TakerStatus(Taker(t), Taker(t).filled + amount, r.spent)]
         /\ OrderOK(Taker(r)) /\ OrderOK(Taker(t)) /\ OrderOK(t.view[m])
         /\ \A i \in Ids \ {m, t.id} : r.view[i] = t.view[i]
         /\ r.view[m] = MakerAfter(t.view[m], amount)
    BY <1>3 DEF Traded
  <1>13. TakerStatus(Taker(t), Taker(t).filled + amount, r.spent) \in {"partially_filled", "filled"}
    BY DEF TakerStatus
  <1>14. Taker(r) = r.view[r.id] /\ Taker(r) \in Order /\ Taker(r).user = Taker(t).user
         /\ Taker(r).side = Taker(t).side
    BY <1>5, <1>12 DEF Taker, OrderOK, Order
  <1>15. ASSUME NEW i \in t.rows
         PROVE  /\ t.view[i] \in Order /\ r.view[i] \in Order
                /\ r.view[i].user = t.view[i].user /\ r.view[i].side = t.view[i].side
    <2>1. CASE i = m BY <1>5, <1>11, <2>1
    <2>2. CASE i = t.id BY <1>5, <1>12, <1>14, <2>2
    <2>3. CASE i \notin {m, t.id} BY <1>5, <1>12, <2>3
    <2> QED BY <2>1, <2>2, <2>3
  <1> QED BY <1>2, <1>4, <1>5, <1>6, <1>7, <1>8, <1>9, <1>10, <1>11, <1>12, <1>13, <1>14, <1>15
          DEF Matching, r, x

(* A trade moves between the wallets that it locks what its history will list. *)
LEMMA MatchFillBooks ==
  ASSUME HInv, LInv', NEW s \in Sessions, MatchFill(s)
  PROVE  HInv'
  <1> DEFINE t == tx[s]
  <1>1. PICK m \in t.batch : Trades(t, m) /\ Become(s, Fill(t, m)) BY DEF MatchFill
  <1> DEFINE r == Fill(t, m)
             x == NewTrade(t, m)
  <1>2. t.pc = "fill" /\ Ready(s) /\ UNCHANGED <<orders, wallets, trades>> /\ Become(s, r)
    BY <1>1 DEF MatchFill
  <1>3. t \in Tx /\ TxOK(t) /\ LInv /\ PurseOK(t, orders, wallets) BY DEF HInv, LInv, IInv
  <1>4. /\ Matching(t) /\ Matching(r) /\ BookedOK(t, orders, wallets)
        /\ x \in Trade /\ x \notin t.fills
        /\ m \in t.rows \ {t.id} /\ OrderOK(t.view[m]) /\ OrderOK(Taker(t))
        /\ t.view[m].type = "limit" /\ t.view[m].status \in Live
        /\ t.view[m].side = Opposite(Taker(t).side)
        /\ r.id = t.id /\ r.rows = t.rows /\ r.fills = t.fills \cup {x}
        /\ r.view[m] = MakerAfter(t.view[m], x.amount)
        /\ r.view[m].status = "filled"
        /\ Taker(r) = r.view[r.id]
        /\ \E status \in {"partially_filled", "filled"} :
             Taker(r) = [Taker(t) EXCEPT !.filled = Taker(t).filled + x.amount, !.status = status]
        /\ \A i \in Ids \ {m, t.id} : r.view[i] = t.view[i]
        /\ \A i \in t.rows : /\ t.view[i] \in Order /\ r.view[i] \in Order
                             /\ r.view[i].user = t.view[i].user
                             /\ r.view[i].side = t.view[i].side
    BY <1>1, <1>2, TradeFacts
  <1>5. /\ x.maker = m /\ x.taker = t.id /\ x.price = t.view[m].price
        /\ x.quote = Cost(x.price, x.amount) /\ x.feeMaker = FeeMaker(x.price, x.amount)
        /\ x.feeTaker = FeeTaker(x.price, x.amount) /\ x.amount = TradeAmount(t, t.view[m])
    BY DEF NewTrade
  <1>6. /\ r.purse = t.purse \cup SettleRows(t.view[m], Taker(t))
        /\ r.funds = Settle(t.funds, t.view[m], Taker(t), x.price, x.amount)
    BY <1>3, <1>5, FillPays
  <1> HIDE DEF r, x
  <1>7. /\ t.rows \subseteq Ids /\ t.id \in t.rows /\ Taker(t) = t.view[t.id] /\ Taker(t) \in Order
        /\ \A y \in t.fills : y.taker = t.id /\ y.maker \in t.rows \ {t.id}
        /\ \A i \in t.rows \ {t.id} : orders[i] # Null /\ orders[i] \in Order
        /\ t.fills \subseteq Trade
    BY <1>3, <1>4, MatchingFacts DEF RowOK, Tx
  <1>8. /\ IsFiniteSet(t.fills) /\ TradesIn(t.fills, t.view)
        /\ LockRow(Taker(t)) \in t.purse
        /\ \A y \in t.fills : /\ t.view[y.maker].status = "filled"
                             /\ SettleRows(t.view[y.maker], Taker(t)) \subseteq t.purse
        /\ \A i \in t.rows \ {t.id} : t.view[i].filled = orders[i].filled + AmountOf(t.fills, i)
        /\ Taker(t).filled = AmountOf(t.fills, t.id)
    BY <1>4 DEF BookedOK
  <1>9. x.amount \in Nat BY <1>4 DEF Trade
  <1>10. TradesIn({x}, t.view) /\ TradesIn({x}, r.view) /\ TradesIn(t.fills, r.view)
    <2>1. t.view[m].side # Taker(t).side BY <1>4, <1>7 DEF Opposite, Order
    <2>2. m \in t.rows /\ t.id \in t.rows /\ t.view[t.id] = Taker(t) BY <1>4, <1>7
    <2>3. TradesIn({x}, t.view) BY <1>4, <1>5, <2>1, <2>2 DEF TradesIn
    <2>4. r.view[m] \in Order /\ r.view[t.id] \in Order /\ r.view[m].side # r.view[t.id].side
      BY <1>4, <2>1, <2>2
    <2>5. TradesIn({x}, r.view) BY <1>4, <1>5, <2>4 DEF TradesIn
    <2>6. \A y \in t.fills : y.maker \in t.rows /\ y.taker \in t.rows BY <1>7
    <2>7. TradesIn(t.fills, r.view) BY <1>4, <1>8, <2>6 DEF TradesIn
    <2> QED BY <2>3, <2>5, <2>7
  <1>11. IsFiniteSet(r.fills) /\ TradesIn(r.fills, r.view)
    <2>1. r.fills = t.fills \cup {x} BY <1>4
    <2>2. IsFiniteSet(r.fills) BY <1>8, <2>1, FS_AddElement
    <2>3. TradesIn(r.fills, r.view) BY <1>10, <2>1 DEF TradesIn
    <2> QED BY <2>2, <2>3
  <1>12. Taker(r).user = Taker(t).user /\ LockRow(Taker(r)) = LockRow(Taker(t))
         /\ Taker(r).filled = Taker(t).filled + x.amount
    <2>1. Taker(r).user = Taker(t).user /\ Taker(r).side = Taker(t).side BY <1>4, <1>7
    <2>2. Taker(r).filled = Taker(t).filled + x.amount BY <1>4, <1>7 DEF Order
    <2> QED BY <2>1, <2>2 DEF LockRow
  <1>13. LockRow(Taker(r)) \in r.purse BY <1>6, <1>8, <1>12
  <1>14. \A y \in r.fills : /\ r.view[y.maker].status = "filled"
                           /\ SettleRows(r.view[y.maker], Taker(r)) \subseteq r.purse
    <2>1. ASSUME NEW y \in t.fills
          PROVE  r.view[y.maker].status = "filled"
                 /\ SettleRows(r.view[y.maker], Taker(r)) \subseteq r.purse
      <3>1. y.maker # m BY <1>4, <1>8 DEF Live
      <3>2. r.view[y.maker] = t.view[y.maker] BY <1>4, <1>7, <3>1
      <3> QED BY <1>6, <1>8, <1>12, <3>2 DEF SettleRows
    <2>2. SettleRows(r.view[m], Taker(r)) \subseteq r.purse
      BY <1>4, <1>6, <1>12 DEF SettleRows
    <2> QED BY <1>4, <1>5, <2>1, <2>2
  <1>15. ASSUME NEW i PROVE AmountOf(r.fills, i)
                  = AmountOf(t.fills, i) + (IF i \in {m, t.id} THEN x.amount ELSE 0)
    <2> DEFINE ts == t.fills
    <2>1. IsFiniteSet(ts) /\ ts \subseteq Trade /\ x \notin ts BY <1>4, <1>7, <1>8
    <2> HIDE DEF ts
    <2>2. AmountOf(ts \cup {x}, i)
            = AmountOf(ts, i) + (IF i \in {x.maker, x.taker} THEN x.amount ELSE 0)
      BY ONLY <2>1, <1>4, FillAdds
    <2> QED BY <1>4, <1>5, <2>2 DEF ts
  <1>16. \A i \in r.rows \ {r.id} : r.view[i].filled = orders[i].filled + AmountOf(r.fills, i)
    <2> TAKE i \in r.rows \ {r.id}
    <2>1. AmountOf(t.fills, i) \in Int /\ orders[i].filled \in Nat
      BY <1>4, <1>7, <1>8, TradeSums DEF Order
    <2>4. i \in t.rows \ {t.id} BY <1>4
    <2>5. t.view[i].filled = orders[i].filled + AmountOf(t.fills, i) BY <1>8, <2>4
    <2>2. CASE i = m
      <3>1. r.view[m].filled = t.view[m].filled + x.amount
        <4>1. t.view[m] \in Order BY <1>4
        <4>2. r.view[m] = MakerAfter(t.view[m], x.amount) BY <1>4
        <4> QED BY <4>1, <4>2 DEF MakerAfter, Order
      <3>2. AmountOf(r.fills, m) = AmountOf(t.fills, m) + x.amount BY <1>15
      <3> QED BY <1>9, <2>1, <2>2, <2>5, <3>1, <3>2
    <2>3. CASE i # m
      <3>1. r.view[i] = t.view[i] BY <1>4, <1>7, <2>3, <2>4
      <3>2. AmountOf(r.fills, i) = AmountOf(t.fills, i) + 0 BY <1>15, <2>3, <2>4
      <3> QED BY <2>1, <2>5, <3>1, <3>2
    <2> QED BY <2>2, <2>3
  <1>17. Taker(r).filled = AmountOf(r.fills, r.id) BY <1>4, <1>8, <1>12, <1>15
  <1>18. ASSUME NEW u \in Users, NEW a \in Assets, <<u, a>> \in r.purse
         PROVE  /\ <<u, a>> \in WalletRows
                /\ <<u, a>> \in t.purse \/ \A v \in Sessions \ {s} : <<u, a>> \notin tx[v].purse
                /\ Total(t.funds[<<u, a>>]) = Total(wallets[<<u, a>>]) + EarnedBy(t.fills, t.view, u, a)
                /\ t.funds[<<u, a>>].inOrders
                     = wallets[<<u, a>>].inOrders + LockChange(t, orders, <<u, a>>)
    <2>1. CASE <<u, a>> \in t.purse BY <1>3, <1>4, <2>1 DEF PurseOK, BookedOK
    <2>2. CASE <<u, a>> \notin t.purse
      <3>1. <<u, a>> \in SettleRows(t.view[m], Taker(t)) BY <1>6, <1>18, <2>2
      <3>2. <<u, a>> \in WalletRows BY <3>1 DEF SettleRows
      <3>3. <<u, a>> \in WalletsNeeded(s) BY <1>1, <1>2, <3>1 DEF WalletsNeeded
      <3>4. t.funds[<<u, a>>] = wallets[<<u, a>>]
            /\ \A v \in Sessions \ {s} : <<u, a>> \notin tx[v].purse
        BY <1>2, <2>2, <3>3 DEF Ready, Conflicts, Waiting, Blocks, WalletStale
      <3>5. EarnedBy(t.fills, t.view, u, a) = 0 /\ LockChange(t, orders, <<u, a>>) = 0
        BY <1>3, <1>4, <2>2, <3>2, Unconcerned
      <3>6. wallets[<<u, a>>].inOrders \in Int /\ Total(wallets[<<u, a>>]) \in Int
        <4>1. wallets \in [Wallets -> Wallet] BY <1>3 DEF LInv, IInv, FundsOK
        <4> QED BY <3>2, <4>1, ExchangeAssumption DEF Wallet, Total
      <3> QED BY <3>2, <3>4, <3>5, <3>6
    <2> QED BY <2>1, <2>2
  <1>19. ASSUME NEW u \in Users, NEW a \in Assets, <<u, a>> \in r.purse
         PROVE  /\ Total(r.funds[<<u, a>>]) = Total(wallets[<<u, a>>]) + EarnedBy(r.fills, r.view, u, a)
                /\ r.funds[<<u, a>>].inOrders
                     = wallets[<<u, a>>].inOrders + LockChange(r, orders, <<u, a>>)
    <2> DEFINE q   == <<u, a>>
               row == Settle(t.funds, t.view[m], Taker(t), x.price, x.amount)[q]
               um  == IF LockRow(t.view[m]) = q THEN Unlocks(t.view[m], x.price, x.amount) ELSE 0
               ut  == IF LockRow(Taker(t)) = q THEN Unlocks(Taker(t), x.price, x.amount) ELSE 0
               sm  == SideWorth(x, x.maker, t.view, u, a)
               st  == SideWorth(x, x.taker, t.view, u, a)
    <2>1. q \in WalletRows BY <1>18, <1>19
    <2>2. /\ Total(row) = Total(t.funds[q]) + sm + st
          /\ row.inOrders = t.funds[q].inOrders - um - ut
      <3>1. FundsOK(t.funds) /\ x.maker # x.taker /\ t.view[x.maker] = t.view[m]
            /\ t.view[x.taker] = Taker(t)
        BY <1>3, <1>4, <1>5, <1>7 DEF Tx, FundsOK
      <3>2. /\ x.quote = Cost(t.view[m].price, x.amount)
            /\ x.feeMaker = FeeMaker(t.view[m].price, x.amount)
            /\ x.feeTaker = FeeTaker(t.view[m].price, x.amount)
        BY <1>5
      <3> QED BY <1>4, <1>5, <1>9, <2>1, <3>1, <3>2, SettleRow
    <2>3. EarnedBy(r.fills, r.view, u, a) = EarnedBy(t.fills, t.view, u, a) + (sm + st)
      <3>1. EarnedBy(r.fills, r.view, u, a) = EarnedBy(t.fills, r.view, u, a) +
              (SideWorth(x, x.maker, r.view, u, a) + SideWorth(x, x.taker, r.view, u, a))
        BY <1>4, <1>8, <1>10, FillEarns
      <3>2. HistoryOf(t.fills, r.view, u) = HistoryOf(t.fills, t.view, u)
        <4>1. \A y \in t.fills : \A i \in {y.maker, y.taker} :
                 r.view[i] # Null /\ r.view[i].user = t.view[i].user /\ r.view[i].side = t.view[i].side
          BY <1>4, <1>7, ExchangeAssumption
        <4> QED BY <1>8, <4>1, HistorySame
      <3>3. SideWorth(x, x.maker, r.view, u, a) = sm /\ SideWorth(x, x.taker, r.view, u, a) = st
        BY <1>4, <1>5, <1>7 DEF SideWorth, SideRow
      <3> QED BY <3>1, <3>2, <3>3 DEF EarnedBy
    <2>4. LockChange(r, orders, q) = LockChange(t, orders, q) - um - ut
      <3>1. PICK status \in {"partially_filled", "filled"} :
              r.view[r.id] = [Taker(t) EXCEPT !.filled = Taker(t).filled + x.amount, !.status = status]
        BY <1>4
      <3>2. /\ LInv /\ s \in Sessions /\ Matching(tx[s]) /\ IsFiniteSet(tx[s].fills)
            /\ m \in tx[s].rows \ {tx[s].id} /\ x \in Trade /\ x \notin tx[s].fills
            /\ x.maker = m /\ x.taker = tx[s].id /\ x.price = tx[s].view[m].price
            /\ x.quote = Cost(x.price, x.amount)
            /\ tx[s].view[m].type = "limit" /\ tx[s].view[m].status \in Live
            /\ r.id = tx[s].id /\ r.rows = tx[s].rows /\ r.fills = tx[s].fills \cup {x}
            /\ r.view[m] = MakerAfter(tx[s].view[m], x.amount)
            /\ FilledWith(r.view[r.id], Taker(tx[s]), x)
            /\ \A i \in Ids \ {m, tx[s].id} : r.view[i] = tx[s].view[i]
        <4>1. FilledWith(r.view[r.id], Taker(t), x) BY <1>7, <3>1 DEF Order, FilledWith
        <4> QED BY <1>3, <1>4, <1>5, <1>8, <3>1, <4>1
      <3> HIDE DEF q
      <3>3. LockChange(r, orders, q) = LockChange(tx[s], orders, q)
           - (IF LockRow(tx[s].view[m]) = q THEN Unlocks(tx[s].view[m], x.price, x.amount) ELSE 0)
           - (IF LockRow(Taker(tx[s])) = q THEN Unlocks(Taker(tx[s]), x.price, x.amount) ELSE 0)
        BY ONLY <3>2, FillUnlocks
      <3> QED BY <3>3
    <2>5. /\ EarnedBy(t.fills, t.view, u, a) \in Int /\ sm + st \in Int
          /\ EarnedBy(r.fills, r.view, u, a) \in Int
      <3>1. EarnedBy({x}, t.view, u, a) = sm + st BY <1>10, HistoryOne
      <3>2. EarnedBy({x}, t.view, u, a) \in Int BY <1>10, EarnedInt, FS_Singleton
      <3> QED BY <1>8, <1>11, <3>1, <3>2, EarnedInt
    <2>6. LockChange(t, orders, q) \in Int
      <3> HIDE DEF q
      <3> QED BY <1>3, <1>4, <1>8, ChangeInt
    <2>7. um \in Int /\ ut \in Int
      <3>1. x.price \in Int BY <1>4 DEF Trade, Prices
      <3> QED BY <1>4, <1>9, <3>1, UnlocksInt
    <2>8. wallets[q].inOrders \in Int /\ Total(wallets[q]) \in Int /\ sm \in Int /\ st \in Int
      <3>1. wallets \in [Wallets -> Wallet] BY <1>3 DEF LInv, IInv, FundsOK
      <3>2. Worth(SideRow(x, x.maker, t.view), a) \in Int
            /\ Worth(SideRow(x, x.taker, t.view), a) \in Int
        <4>1. \A y \in {x.maker, x.taker} : y \in t.rows BY <1>4, <1>5, <1>7
        <4> QED BY <1>4, <4>1 DEF Worth, SideRow, HistoryFee, Trade, Order, Sides, Assets
      <3> QED BY <2>1, <3>1, <3>2, ExchangeAssumption DEF Wallet, Total, SideWorth
    <2>9. /\ Total(t.funds[q]) = Total(wallets[q]) + EarnedBy(t.fills, t.view, u, a)
          /\ t.funds[q].inOrders = wallets[q].inOrders + LockChange(t, orders, q)
      BY <1>18, <1>19
    <2>10. r.funds[q] = row BY <1>6
    <2> HIDE DEF q, row, um, ut, sm, st
    <2>11. Total(r.funds[q]) = Total(wallets[q]) + EarnedBy(r.fills, r.view, u, a)
      BY <2>2, <2>3, <2>5, <2>8, <2>9, <2>10
    <2>12. r.funds[q].inOrders = wallets[q].inOrders + LockChange(r, orders, q)
      BY <2>2, <2>4, <2>6, <2>7, <2>8, <2>9, <2>10
    <2> QED BY <2>11, <2>12 DEF q
  <1>20. BookedOK(r, orders, wallets)
    BY <1>11, <1>13, <1>14, <1>16, <1>17, <1>19 DEF BookedOK
  <1>21. r.purse \subseteq WalletRows /\ \A v \in Sessions \ {s} : r.purse \cap tx[v].purse = {}
    <2>1. r.purse \subseteq WalletRows BY <1>3, <1>6 DEF PurseOK, SettleRows
    <2>2. ASSUME NEW v \in Sessions \ {s}, NEW w \in r.purse PROVE w \notin tx[v].purse
      <3>1. CASE w \in t.purse BY <3>1 DEF HInv
      <3>2. CASE w \notin t.purse
        <4>1. PICK u \in Users, a \in Assets : w = <<u, a>>
          BY <2>1, ExchangeAssumption DEF Wallets
        <4> QED BY <1>18, <3>2, <4>1
      <3> QED BY <3>1, <3>2
    <2> QED BY <2>1, <2>2
  <1>22. PurseOK(r, orders, wallets) BY <1>4, <1>20, <1>21 DEF PurseOK
  <1> QED BY <1>2, <1>21, <1>22, MoveBooks

-----------------------------------------------------------------------------
(* Commits *)

(* What transaction r is about to commit is in balance: its trades are its own, between
   rows that it holds; they account for what those rows are filled more than the
   committed ones, and for what its wallets have more. *)
PostsWell(r) ==
  /\ r.rows \subseteq Ids
  /\ IsFiniteSet(r.fills) /\ TradesIn(r.fills, r.view)
  /\ \A x \in r.fills : x.maker \in r.rows /\ x.taker \in r.rows /\ orders[x.taker] = Null
  /\ \A i \in r.rows :
       /\ OrderOK(r.view[i]) /\ LockRow(r.view[i]) \in WalletRows
       /\ orders[i] = Null => r.view[i].filled = AmountOf(r.fills, i)
       /\ orders[i] # Null => /\ r.view[i].user = orders[i].user
                              /\ r.view[i].side = orders[i].side
                              /\ r.view[i].type = orders[i].type
                              /\ r.view[i].filled = orders[i].filled + AmountOf(r.fills, i)
  /\ \A u \in Users, a \in Assets : <<u, a>> \in WalletRows =>
       Total(wallets'[<<u, a>>]) = Total(wallets[<<u, a>>]) + EarnedBy(r.fills, r.view, u, a)

(* The committed trades still account for the committed orders and wallets. *)
LEMMA PostedLedger ==
  ASSUME HInv, NEW r, PostsWell(r),
         orders' = [i \in Ids |-> IF i \in r.rows THEN r.view[i] ELSE orders[i]],
         trades' = trades \cup r.fills
  PROVE  LedgerOK(orders', trades', wallets')
  <1>1. /\ IsFiniteSet(trades) /\ TradesIn(trades, orders) /\ trades \subseteq Trade
        /\ BookOK(orders) /\ wallets \in [Wallets -> Wallet]
    BY DEF HInv, LedgerOK, LInv, IInv, FundsOK
  <1>2. /\ IsFiniteSet(r.fills) /\ TradesIn(r.fills, r.view) /\ r.fills \subseteq Trade
        /\ r.rows \subseteq Ids
    BY DEF PostsWell, TradesIn
  <1>3. trades \cap r.fills = {} BY <1>1, ExchangeAssumption DEF PostsWell, TradesIn
  <1>4. IsFiniteSet(trades') BY <1>1, <1>2, FS_Union
  <1>5. ASSUME NEW i \in r.rows
        PROVE  /\ orders'[i] = r.view[i] /\ r.view[i] \in Order /\ r.view[i] # Null
               /\ orders[i] # Null => r.view[i].user = orders[i].user /\ r.view[i].side = orders[i].side
    BY <1>2, ExchangeAssumption DEF PostsWell, OrderOK
  <1>6. \A x \in trades : \A i \in {x.maker, x.taker} :
          /\ i \in Ids /\ orders[i] # Null /\ orders[i] \in Order
          /\ orders'[i] # Null /\ orders'[i] \in Order
          /\ orders'[i].user = orders[i].user /\ orders'[i].side = orders[i].side
    <2> TAKE x \in trades
    <2> TAKE i \in {x.maker, x.taker}
    <2>1. i \in Ids /\ orders[i] # Null /\ orders[i] \in Order
      BY <1>1, ExchangeAssumption DEF TradesIn, Trade
    <2>2. CASE i \in r.rows BY <1>5, <2>1, <2>2
    <2>3. CASE i \notin r.rows BY <2>1, <2>3
    <2> QED BY <2>1, <2>2, <2>3
  <1>7. \A x \in r.fills : \A i \in {x.maker, x.taker} : i \in r.rows /\ orders'[i] = r.view[i]
        /\ orders'[i] # Null
    BY <1>5 DEF PostsWell
  <1>8. TradesIn(trades, orders') BY <1>1, <1>6 DEF TradesIn
  <1>9. TradesIn(r.fills, orders') BY <1>2, <1>7 DEF TradesIn
  <1>10. TradesIn(trades', orders') BY <1>8, <1>9 DEF TradesIn
  <1>11. ASSUME NEW i \in Ids, orders'[i] # Null
         PROVE  LockRow(orders'[i]) \in WalletRows /\ orders'[i].filled = AmountOf(trades', i)
    <2>1. AmountOf(trades', i) = AmountOf(trades, i) + AmountOf(r.fills, i)
      BY <1>1, <1>2, <1>3, AmountUnion
    <2>2. AmountOf(trades, i) \in Int /\ AmountOf(r.fills, i) \in Int BY <1>1, <1>2, TradeSums
    <2>3. CASE i \notin r.rows
      <3>1. orders'[i] = orders[i] BY <2>3
      <3>2. LockRow(orders[i]) \in WalletRows /\ orders[i].filled = AmountOf(trades, i)
        BY <1>11, <3>1 DEF HInv, LedgerOK
      <3>3. \A x \in r.fills : i \notin {x.maker, x.taker} BY <2>3 DEF PostsWell
      <3>4. AmountOf(r.fills, i) = 0 BY <3>3, AmountNone
      <3> QED BY <2>1, <2>2, <3>1, <3>2, <3>4
    <2>4. CASE i \in r.rows /\ orders[i] = Null
      <3>1. orders'[i].filled = AmountOf(r.fills, i) /\ LockRow(orders'[i]) \in WalletRows
        BY <1>5, <2>4 DEF PostsWell
      <3>2. \A x \in trades : i \notin {x.maker, x.taker} BY <1>6, <2>4
      <3>3. AmountOf(trades, i) = 0 BY <3>2, AmountNone
      <3> QED BY <2>1, <2>2, <3>1, <3>3
    <2>5. CASE i \in r.rows /\ orders[i] # Null
      <3>1. orders'[i].filled = orders[i].filled + AmountOf(r.fills, i)
            /\ LockRow(orders'[i]) \in WalletRows
        BY <1>5, <2>5 DEF PostsWell
      <3>2. orders[i].filled = AmountOf(trades, i) BY <2>5 DEF HInv, LedgerOK
      <3> QED BY <2>1, <3>1, <3>2
    <2> QED BY <2>3, <2>4, <2>5
  <1>12. ASSUME NEW u \in Users, NEW a \in Assets, <<u, a>> \in WalletRows
         PROVE  Total(wallets'[<<u, a>>]) = OpeningFunds[<<u, a>>].balance + EarnedBy(trades', orders', u, a)
    <2>1. EarnedBy(trades', orders', u, a) = EarnedBy(trades, orders', u, a) + EarnedBy(r.fills, orders', u, a)
      BY <1>1, <1>2, <1>3, <1>8, <1>9, HistoryUnion
    <2>2. HistoryOf(trades, orders', u) = HistoryOf(trades, orders, u)
      BY <1>1, <1>6, HistorySame
    <2>3. HistoryOf(r.fills, orders', u) = HistoryOf(r.fills, r.view, u)
      BY <1>2, <1>7, HistorySame
    <2>4. EarnedBy(trades', orders', u, a) = EarnedBy(trades, orders, u, a) + EarnedBy(r.fills, r.view, u, a)
      BY <2>1, <2>2, <2>3 DEF EarnedBy
    <2>5. Total(wallets'[<<u, a>>]) = Total(wallets[<<u, a>>]) + EarnedBy(r.fills, r.view, u, a)
      BY <1>12 DEF PostsWell
    <2>6. Total(wallets[<<u, a>>]) = OpeningFunds[<<u, a>>].balance + EarnedBy(trades, orders, u, a)
      BY <1>12 DEF HInv, LedgerOK
    <2>7. /\ EarnedBy(trades, orders, u, a) \in Int /\ EarnedBy(r.fills, r.view, u, a) \in Int
          /\ OpeningFunds[<<u, a>>].balance \in Int
      <3>1. <<u, a>> \in Wallets BY <1>12, ExchangeAssumption
      <3> QED BY <1>1, <1>2, <3>1, EarnedInt, OrderServiceAssumption DEF OpeningFunds
    <2> QED BY <2>4, <2>5, <2>6, <2>7
  <1> QED BY <1>4, <1>10, <1>11, <1>12 DEF LedgerOK

(* What the orders of the wallet q account for, as a sum over all ids. *)
LocksIn(ts, b, q) ==
  [i \in Ids |-> IF b[i] # Null /\ LockRow(b[i]) = q THEN LockedFor(ts, i, b[i]) ELSE 0]

(* Summed over the orders of the wallet or over all ids, that is the same. *)
LEMMA LocksSum ==
  ASSUME NEW ts, IsFiniteSet(ts), ts \subseteq Trade, NEW b, BookOK(b), NEW u, NEW a
  PROVE  LET S == {i \in {j \in Ids : b[j] # Null} : b[i].user = u /\ LockedAsset(b[i].side) = a}
         IN  /\ SumFunctionOnSet([i \in S |-> LockedFor(ts, i, b[i])], S)
                  = SumFunctionOnSet(LocksIn(ts, b, <<u, a>>), Ids)
             /\ \A i \in Ids : LocksIn(ts, b, <<u, a>>)[i] \in Int
  <1> DEFINE f == LocksIn(ts, b, <<u, a>>)
             B == {i \in {j \in Ids : b[j] # Null} : b[i].user = u /\ LockedAsset(b[i].side) = a}
             g == [i \in B |-> LockedFor(ts, i, b[i])]
  <1>1. IsFiniteSet(Ids) BY IdsFinite
  <1>2. B \subseteq Ids /\ IsFiniteSet(B) BY <1>1, FS_Subset
  <1>3. \A i \in B : f[i] = g[i] /\ f[i] \in Int
    <2> TAKE i \in B
    <2>1. i \in Ids /\ b[i] # Null /\ LockRow(b[i]) = <<u, a>> BY DEF LockRow
    <2>2. LockedFor(ts, i, b[i]) \in Int BY <2>1, LockedInt DEF BookOK
    <2> QED BY <2>1, <2>2 DEF LocksIn
  <1>4. \A i \in Ids \ B : f[i] = 0 BY DEF LockRow, LocksIn
  <1> HIDE DEF f, B, g
  <1>5. SumFunctionOnSet(f, B) = SumFunctionOnSet(g, B) BY <1>2, <1>3, SumSame
  <1>6. SumFunctionOnSet(f, Ids) = SumFunctionOnSet(f, B) BY <1>1, <1>2, <1>3, <1>4, SumWithin
  <1>7. \A i \in Ids : f[i] \in Int BY <1>3, <1>4
  <1>8. SumFunctionOnSet(g, B) = SumFunctionOnSet(f, Ids) BY <1>5, <1>6
  <1> QED BY <1>7, <1>8 DEF f, g, B

(* The commit changes what the orders of a wallet account for by what its transaction
   has changed of the rows that it holds. *)
LEMMA PostedLocks ==
  ASSUME HInv, NEW r, PostsWell(r),
         orders' = [i \in Ids |-> IF i \in r.rows THEN r.view[i] ELSE orders[i]],
         trades' = trades \cup r.fills, BookOK(orders'), IsFiniteSet(trades'), trades' \subseteq Trade,
         NEW u, NEW a
  PROVE  /\ BackedBy(u, a)' - BackedBy(u, a) = LockChange(r, orders, <<u, a>>)
         /\ BackedBy(u, a) \in Int /\ BackedBy(u, a)' \in Int
  <1> DEFINE q   == <<u, a>>
             all == trades'
             f == LocksIn(trades, orders, q)
             g == LocksIn(all, orders', q)
             h == [i \in Ids |-> g[i] - f[i]]
             k == [i \in r.rows |-> IF LockRow(r.view[i]) = q THEN LockShift(r, orders, i) ELSE 0]
  <1>1. /\ IsFiniteSet(trades) /\ trades \subseteq Trade /\ BookOK(orders) /\ TradesIn(trades, orders)
    BY DEF HInv, LedgerOK, LInv, IInv
  <1>2. /\ IsFiniteSet(r.fills) /\ r.fills \subseteq Trade /\ r.rows \subseteq Ids
        /\ \A x \in r.fills : x.taker \in r.rows /\ orders[x.taker] = Null
    BY DEF PostsWell, TradesIn
  <1>3. trades \cap r.fills = {} BY <1>1, <1>2, ExchangeAssumption DEF TradesIn
  <1>4. IsFiniteSet(Ids) BY IdsFinite
  <1>5. BackedBy(u, a) = SumFunctionOnSet(f, Ids) /\ \A i \in Ids : f[i] \in Int
    BY <1>1, LocksSum DEF BackedBy, SumOver, LocksOf, Placed
  <1>6. BackedBy(u, a)' = SumFunctionOnSet(g, Ids) /\ \A i \in Ids : g[i] \in Int
    <2> DEFINE b == orders'
               S == {i \in {j \in Ids : b[j] # Null} : b[i].user = u /\ LockedAsset(b[i].side) = a}
    <2>1. BackedBy(u, a)' = SumFunctionOnSet([i \in S |-> LockedFor(all, i, b[i])], S)
      BY DEF BackedBy, SumOver, LocksOf, Placed
    <2>2. BookOK(b) /\ IsFiniteSet(all) /\ all \subseteq Trade OBVIOUS
    <2>3. g = LocksIn(all, b, q) OBVIOUS
    <2> HIDE DEF all, b, g
    <2>4. /\ SumFunctionOnSet([i \in S |-> LockedFor(all, i, b[i])], S)
               = SumFunctionOnSet(LocksIn(all, b, <<u, a>>), Ids)
          /\ \A i \in Ids : LocksIn(all, b, <<u, a>>)[i] \in Int
      BY ONLY <2>2, LocksSum
    <2> QED BY <2>1, <2>3, <2>4
  <1>7. ASSUME NEW i PROVE QuoteSpent(all, i) = QuoteSpent(trades, i) + QuoteSpent(r.fills, i)
    <2>1. all = trades \cup r.fills OBVIOUS
    <2> HIDE DEF all
    <2> QED BY <1>1, <1>2, <1>3, <2>1, QuoteUnion
  <1>7a. g = LocksIn(all, orders', q) OBVIOUS
  <1> HIDE DEF all, g
  <1>8. ASSUME NEW i PROVE QuoteSpent(trades, i) \in Int /\ QuoteSpent(r.fills, i) \in Int
    BY <1>1, <1>2, TradeSums
  <1>9. ASSUME NEW i \in Ids \ r.rows PROVE h[i] = 0
    <2>1. orders'[i] = orders[i] OBVIOUS
    <2>2. QuoteSpent(r.fills, i) = 0 BY <1>2, QuoteNone
    <2>3. QuoteSpent(all, i) = QuoteSpent(trades, i) BY <1>7, <1>8, <2>2
    <2>4. LockedFor(all, i, orders'[i]) = LockedFor(trades, i, orders[i])
      BY <2>1, <2>3 DEF LockedFor
    <2>5. g[i] = f[i] BY <1>7a, <2>1, <2>4 DEF LocksIn
    <2> QED BY <1>5, <2>5
  <1>10. ASSUME NEW i \in r.rows PROVE h[i] = k[i]
    <2>1. i \in Ids /\ orders'[i] = r.view[i] /\ r.view[i] # Null /\ OrderOK(r.view[i])
      BY <1>2, ExchangeAssumption DEF PostsWell, OrderOK
    <2>2. CASE orders[i] = Null
      <3>1. QuoteSpent(trades, i) = 0
        <4>1. \A x \in trades : x.taker # i BY <1>1, <2>2, ExchangeAssumption DEF TradesIn
        <4> QED BY <4>1, QuoteNone
      <3>2. QuoteSpent(all, i) = QuoteSpent(r.fills, i) BY <1>7, <1>8, <3>1
      <3>3. LockedFor(all, i, r.view[i]) = LockedFor(r.fills, i, r.view[i])
        BY <3>2 DEF LockedFor
      <3>4. LockedFor(r.fills, i, r.view[i]) \in Int BY <1>2, <2>1, LockedInt
      <3> QED BY <1>7a, <2>1, <2>2, <3>3, <3>4 DEF LocksIn, LockShift
    <2>3. CASE orders[i] # Null
      <3>1. OrderOK(orders[i]) /\ LockRow(r.view[i]) = LockRow(orders[i])
            /\ (IsMarketBuy(r.view[i]) <=> IsMarketBuy(orders[i]))
        BY <1>1, <2>1, <2>3 DEF PostsWell, BookOK, LockRow, IsMarketBuy
      <3>2. QuoteSpent(r.fills, i) = 0 BY <1>2, <2>3, QuoteNone
      <3>3. QuoteSpent(all, i) = QuoteSpent(trades, i) BY <1>7, <1>8, <3>2
      <3>4. LockedFor(all, i, r.view[i]) - LockedFor(trades, i, orders[i])
              = LockedFor(r.fills, i, r.view[i]) - LockedFor(r.fills, i, orders[i])
        <4>1. CASE IsMarketBuy(orders[i])
          <5>1. r.view[i].qmax \in Int /\ orders[i].qmax \in Int
            BY <2>1, <3>1, <4>1 DEF OrderOK
          <5>2. /\ LockedFor(all, i, r.view[i]) = r.view[i].qmax - QuoteSpent(trades, i)
                /\ LockedFor(trades, i, orders[i]) = orders[i].qmax - QuoteSpent(trades, i)
                /\ LockedFor(r.fills, i, r.view[i]) = r.view[i].qmax - 0
                /\ LockedFor(r.fills, i, orders[i]) = orders[i].qmax - 0
            BY <3>1, <3>2, <3>3, <4>1 DEF LockedFor
          <5> QED BY <1>8, <5>1, <5>2
        <4>2. CASE ~ IsMarketBuy(orders[i])
          <5>1. /\ LockedFor(all, i, r.view[i]) = LockedFor(r.fills, i, r.view[i])
                /\ LockedFor(trades, i, orders[i]) = LockedFor(r.fills, i, orders[i])
            BY <3>1, <4>2 DEF LockedFor
          <5> QED BY <5>1
        <4> QED BY <4>1, <4>2
      <3> QED BY <1>7a, <2>1, <2>3, <3>1, <3>4 DEF LocksIn, LockShift
    <2> QED BY <2>2, <2>3
  <1>11. LockChange(r, orders, q) = SumFunctionOnSet(k, r.rows) BY DEF LockChange, SumOver
  <1>12. \A i \in Ids : h[i] = g[i] - f[i] /\ h[i] \in Int BY <1>5, <1>6
  <1>13. IsFiniteSet(r.rows) BY <1>2, <1>4, FS_Subset
  <1> HIDE DEF f, g, h, k, q
  <1>14. SumFunctionOnSet(h, Ids) = SumFunctionOnSet(g, Ids) - SumFunctionOnSet(f, Ids)
    BY <1>4, <1>5, <1>6, <1>12, SumMinus
  <1>15. SumFunctionOnSet(h, Ids) = SumFunctionOnSet(h, r.rows)
    BY <1>2, <1>4, <1>9, <1>12, SumWithin
  <1>16. SumFunctionOnSet(h, r.rows) = SumFunctionOnSet(k, r.rows) BY <1>10, <1>13, SumSame
  <1>17. SumFunctionOnSet(f, Ids) \in Int /\ SumFunctionOnSet(g, Ids) \in Int
    BY <1>4, <1>5, <1>6, SumType
  <1> QED BY <1>5, <1>6, <1>11, <1>14, <1>15, <1>16, <1>17 DEF q

(* A refund returns what the order accounts for, which is nothing from then on. *)
LEMMA RefundBooks ==
  ASSUME NEW t, t \in Tx, t.id \in Ids, OrderOK(Taker(t)), ~ IsMarketBuy(Taker(t)),
         Taker(t).status \notin {"canceled", "rejected"}, LockRow(Taker(t)) \in WalletRows,
         NEW status \in {"canceled", "rejected"}, NEW ts, NEW i, NEW q \in WalletRows
  PROVE  LET o == Taker(t)
             r == RefundRemaining(t, o, o.amount - o.filled, status)
         IN  /\ r.purse = t.purse \cup {LockRow(o)}
             /\ Total(r.funds[q]) = Total(t.funds[q])
             /\ r.funds[q].inOrders = t.funds[q].inOrders
                  + (IF LockRow(o) = q THEN 0 - LockedFor(ts, i, o) ELSE 0)
             /\ LockedFor(ts, i, o) \in Int
  <1> DEFINE o         == Taker(t)
             remaining == o.amount - o.filled
             r         == RefundRemaining(t, o, remaining, status)
             refund    == RefundAmount(t, o, remaining)
             asset     == LockedAsset(o.side)
  <1>1. /\ o \in Order /\ o.amount \in Nat /\ o.filled \in Nat /\ remaining \in Nat
        /\ o.user \in Users /\ asset \in Assets /\ o.side \in Sides
        /\ (o.side = "buy" => o.price \in Int /\ o.type = "limit")
    BY DEF OrderOK, Order, IsMarketBuy, Sides, Types, Prices, LockedAsset, Assets
  <1>2. /\ r.funds = UpdateBalances(t.funds, o.user, asset, refund, -refund)
        /\ r.purse = t.purse \cup {LockRow(o)}
    BY DEF RefundRemaining, Tx, LockRow
  <1>3. LockedFor(ts, i, o) = refund
    <2>1. refund = IF o.side = "sell" THEN remaining ELSE Cost(o.price, remaining)
      BY <1>1 DEF RefundAmount, Sides
    <2> QED BY <2>1 DEF LockedFor
  <1>4. refund \in Int
    <2>1. o.side = "buy" => Cost(o.price, remaining) \in Int BY <1>1, CostInt
    <2>2. refund = IF o.side = "sell" THEN remaining ELSE Cost(o.price, remaining)
      BY <1>1 DEF RefundAmount, Sides
    <2> QED BY <1>1, <2>1, <2>2 DEF Sides
  <1>6. t.funds \in [Wallets -> Wallet] BY DEF Tx
  <1> HIDE DEF r, refund, remaining
  <1>7. /\ Total(r.funds[q]) = Total(t.funds[q])
        /\ r.funds[q].inOrders = t.funds[q].inOrders + (IF LockRow(o) = q THEN 0 - refund ELSE 0)
    <2> DEFINE d == -refund
               v == UpdateBalances(t.funds, o.user, asset, refund, d)
               u == o.user
    <2>1. d \in Int /\ refund + d = 0 /\ d = 0 - refund BY <1>4
    <2>2. r.funds = v BY <1>2
    <2>3. q \in Wallets BY ExchangeAssumption
    <2>4. Total(t.funds[q]) \in Int /\ t.funds[q].inOrders \in Int BY <1>6, <2>3 DEF Total, Wallet
    <2>5. LockRow(o) = <<u, asset>> BY DEF LockRow
    <2>6. u \in Users /\ asset \in Assets BY <1>1
    <2> HIDE DEF d, asset, u, o
    <2>7. /\ Total(v[q]) = Total(t.funds[q]) + (IF q = <<u, asset>> THEN refund + d ELSE 0)
          /\ v[q].inOrders = t.funds[q].inOrders + (IF q = <<u, asset>> THEN d ELSE 0)
      BY <1>4, <1>6, <2>1, <2>6, UpdateRow DEF u
    <2> QED BY <2>1, <2>2, <2>4, <2>5, <2>7
  <1> QED BY <1>2, <1>3, <1>4, <1>7 DEF r, remaining

(* The end of a new order: what it does not use goes back to the balance. *)
LEMMA EndBooks ==
  ASSUME NEW t, TxOK(t), t.pc = "finish", ArrivingOK(t), LockRow(Taker(t)) \in t.purse,
         LockRow(Taker(t)) \in WalletRows, IsFiniteSet(t.fills), NEW q \in WalletRows
  PROVE  LET r == ApplyTIF(t)
         IN  /\ r.purse = t.purse
             /\ Total(r.funds[q]) = Total(t.funds[q])
             /\ r.funds[q].inOrders = t.funds[q].inOrders
                  + (IF LockRow(Taker(t)) = q
                     THEN LockedFor(t.fills, t.id, r.view[t.id]) - LockedFor(t.fills, t.id, Taker(t))
                     ELSE 0)
  <1> DEFINE o         == Taker(t)
             r         == ApplyTIF(t)
             remaining == TakerAmount(t) - o.filled
             status    == FinalStatus(o)
             left      == LockedFor(t.fills, t.id, o)
  <1>1. /\ t \in Tx /\ t.id \in Ids /\ OrderOK(o) /\ o \in Order /\ o = t.view[t.id]
        /\ (IsMarketBuy(o) => t.bought = o.filled)
        /\ o.status \notin {"canceled", "rejected"} /\ t.fills \subseteq Trade
    BY DEF TxOK, TakerOK, BookOK, Taker, OrderOK, ArrivingOK, Tx
  <1>2. left \in Int BY <1>1, LockedInt
  <1>3. t.funds[q].inOrders \in Int
    <2>1. q \in Wallets BY ExchangeAssumption
    <2> QED BY <1>1, <2>1 DEF Tx, Wallet
  <1>4. CASE r = t
    <2>1. LockedFor(t.fills, t.id, r.view[t.id]) - LockedFor(t.fills, t.id, Taker(t)) = 0
      BY <1>1, <1>2, <1>4
    <2> HIDE DEF r
    <2> QED BY <1>3, <1>4, <2>1 DEF r
  <1>5. CASE r # t
    <2>1. /\ r = RefundRemaining(t, o, remaining, status) /\ status # Null
          /\ TakerAmount(t) # Null /\ ~ (remaining <= 0)
      BY <1>5 DEF ApplyTIF
    <2>2. status \in {"canceled", "rejected"}
      BY <1>1, <2>1 DEF FinalStatus, Order, TIFs, Types
    <2>3. ~ IsMarketBuy(o) /\ TakerAmount(t) = o.amount
      <3> SUFFICES ASSUME IsMarketBuy(o) PROVE FALSE BY DEF TakerAmount
      <3>1. o.filled \in Nat /\ o.amount = Null /\ t.bought = o.filled
        BY <1>1 DEF OrderOK, Order
      <3>2. t.bought > 0 => remaining = 0 BY <3>1 DEF TakerAmount
      <3>3. ~ (t.bought > 0) => TakerAmount(t) = Null BY <3>1 DEF TakerAmount
      <3> QED BY <2>1, <3>2, <3>3
    <2>4. r.view = [t.view EXCEPT ![t.id] = [o EXCEPT !.status = status]]
      <3> HIDE DEF o, remaining, status
      <3> QED BY <1>1, <2>1, RefundWrites DEF o
    <2>5. r.view[t.id] = [o EXCEPT !.status = status] BY <1>1, <2>4 DEF Tx
    <2>6. r = RefundRemaining(t, o, o.amount - o.filled, status) BY <2>1, <2>3
    <2> HIDE DEF r, remaining, status
    <2>7. LET v == RefundRemaining(t, Taker(t), Taker(t).amount - Taker(t).filled, status)
          IN  /\ v.purse = t.purse \cup {LockRow(Taker(t))}
              /\ Total(v.funds[q]) = Total(t.funds[q])
              /\ v.funds[q].inOrders = t.funds[q].inOrders
                   + (IF LockRow(Taker(t)) = q THEN 0 - LockedFor(t.fills, t.id, Taker(t)) ELSE 0)
              /\ LockedFor(t.fills, t.id, Taker(t)) \in Int
      <3>1. /\ t \in Tx /\ t.id \in Ids /\ OrderOK(Taker(t)) /\ ~ IsMarketBuy(Taker(t))
            /\ Taker(t).status \notin {"canceled", "rejected"}
            /\ LockRow(Taker(t)) \in WalletRows /\ q \in WalletRows
            /\ status \in {"canceled", "rejected"}
        BY <1>1, <2>2, <2>3
      <3> HIDE DEF o, left
      <3> QED BY ONLY <3>1, RefundBooks
    <2>8. LockedFor(t.fills, t.id, r.view[t.id]) = 0
      <3> DEFINE n == r.view[t.id]
      <3>1. n.status = status /\ n.side = o.side /\ n.type = o.type BY <1>1, <2>5 DEF Order
      <3> HIDE DEF n
      <3>2. ~ IsMarketBuy(n) BY <2>3, <3>1 DEF IsMarketBuy
      <3>3. LockedFor(t.fills, t.id, n) = 0 BY <2>2, <3>1, <3>2 DEF LockedFor
      <3> QED BY <3>3 DEF n
    <2> QED BY <2>6, <2>7, <2>8 DEF r
  <1> QED BY <1>4, <1>5

(* The row of a new order is as matching left it, ended or not, and its transaction
   still accounts for everything. *)
LEMMA PlacePosts ==
  ASSUME HInv, LInv', NEW s \in Sessions, PlaceFinish(s)
  PROVE  LET r == ApplyTIF(tx[s])
         IN  /\ PostsWell(r) /\ r.rows = tx[s].rows
             /\ r.purse = tx[s].purse /\ r.purse \subseteq WalletRows
             /\ \A u \in Users, a \in Assets : <<u, a>> \in WalletRows =>
                  wallets'[<<u, a>>].inOrders
                    = wallets[<<u, a>>].inOrders + LockChange(r, orders, <<u, a>>)
             /\ \A i \in Placed : orders'[i].price = orders[i].price
  <1> DEFINE t == tx[s]
             r == ApplyTIF(t)
             o == Taker(t)
  <1>1. LInv /\ t.pc = "finish" /\ Matching(t) /\ Commit(s, r)
    BY DEF HInv, PlaceFinish, Matching
  <1>2. /\ t \in Tx /\ TxOK(t) /\ MatchingOK(t, orders) /\ ArrivingOK(t)
        /\ t.rows \subseteq Ids /\ IsFiniteSet(t.rows)
        /\ t.id \in t.rows /\ orders[t.id] = Null /\ o = t.view[t.id] /\ OrderOK(o) /\ o \in Order
        /\ \A i \in t.rows \ {t.id} :
             /\ RowOK(t, i, orders) /\ OrderOK(orders[i])
             /\ OrderOK(t.view[i]) /\ t.view[i] # Null
        /\ \A x \in t.fills : x.taker = t.id /\ x.maker \in t.rows \ {t.id}
    BY <1>1, MatchingFacts DEF MatchingOK
  <1>3. PurseOK(t, orders, wallets) /\ BookedOK(t, orders, wallets)
    BY <1>1 DEF HInv, PurseOK
  <1>4. /\ t.purse \subseteq WalletRows /\ IsFiniteSet(t.fills) /\ TradesIn(t.fills, t.view)
        /\ LockRow(o) \in t.purse /\ o.filled = AmountOf(t.fills, t.id)
        /\ \A i \in t.rows \ {t.id} : t.view[i].filled = orders[i].filled + AmountOf(t.fills, i)
    BY <1>3 DEF PurseOK, BookedOK
  <1>5. /\ r.rows = t.rows /\ r.fills = t.fills
        /\ \A i \in Ids \ {t.id} : r.view[i] = t.view[i]
        /\ \E status \in {Taker(t).status, "canceled", "rejected"} :
             r.view[t.id] = [Taker(t) EXCEPT !.status = status]
        /\ Settled(r.view[t.id])
    BY <1>1, <1>2, EndsWrites
  <1>6. /\ r.view[t.id].user = o.user /\ r.view[t.id].side = o.side
        /\ r.view[t.id].filled = o.filled /\ r.view[t.id] # Null
    <2> HIDE DEF r
    <2>1. PICK status \in {o.status, "canceled", "rejected"} :
            r.view[t.id] = [o EXCEPT !.status = status]
      BY <1>5
    <2>2. r.view[t.id].user = o.user /\ r.view[t.id].side = o.side
          /\ r.view[t.id].filled = o.filled
      BY <1>2, <2>1 DEF Order
    <2>3. r.view[t.id] \in Order
      BY <1>2, <2>1 DEF Order, Statuses
    <2> QED BY <2>2, <2>3, ExchangeAssumption
  <1>7. /\ orders' = [i \in Ids |-> IF i \in r.rows THEN r.view[i] ELSE orders[i]]
        /\ wallets' = [w \in Wallets |-> IF w \in r.purse THEN r.funds[w] ELSE wallets[w]]
    BY <1>1 DEF Commit
  <1>8. r.purse = t.purse
    <2>1. PICK q \in WalletRows : q = LockRow(o) BY <1>4
    <2> HIDE DEF r
    <2> QED BY <1>1, <1>2, <1>4, <2>1, EndBooks DEF r
  <1> HIDE DEF r, o
  <1>9. \A i \in t.rows : OrderOK(r.view[i])
    <2> TAKE i \in t.rows
    <2>1. i \in Ids /\ orders'[i] = r.view[i] BY <1>2, <1>5, <1>7
    <2>2. r.view[i] # Null BY <1>2, <1>5, <1>6, <2>1
    <2>3. BookOK(orders') BY DEF LInv, IInv
    <2> QED BY <2>1, <2>2, <2>3 DEF BookOK
  <1>10. \A i \in t.rows : /\ r.view[i].user = t.view[i].user /\ r.view[i].side = t.view[i].side
                           /\ r.view[i].filled = t.view[i].filled /\ r.view[i] # Null
    BY <1>2, <1>5, <1>6
  <1>11. \A i \in t.rows : LockRow(r.view[i]) = LockRow(t.view[i]) BY <1>10 DEF LockRow
  <1>12. /\ TradesIn(r.fills, r.view)
         /\ \A u : HistoryOf(r.fills, r.view, u) = HistoryOf(t.fills, t.view, u)
    <2>1. \A x \in t.fills : \A i \in {x.maker, x.taker} : i \in t.rows BY <1>2
    <2>2. \A x \in t.fills : \A i \in {x.maker, x.taker} :
            r.view[i] # Null /\ r.view[i].user = t.view[i].user /\ r.view[i].side = t.view[i].side
      BY <1>10, <2>1
    <2>3. \A u : HistoryOf(t.fills, r.view, u) = HistoryOf(t.fills, t.view, u)
      BY <1>4, <2>2, HistorySame
    <2>4. \A x \in t.fills : \A i \in {x.maker, x.taker} : r.view[i] \in Order
      BY <1>9, <2>1 DEF OrderOK
    <2>5. TradesIn(t.fills, r.view)
      BY <1>4, <2>2, <2>4 DEF TradesIn
    <2> QED BY <1>5, <2>3, <2>5
  <1>13. ASSUME NEW u \in Users, NEW a \in Assets, <<u, a>> \in WalletRows
         PROVE  LockChange(r, orders, <<u, a>>) = LockChange(t, orders, <<u, a>>)
                  + (IF LockRow(o) = <<u, a>>
                     THEN LockedFor(t.fills, t.id, r.view[t.id]) - LockedFor(t.fills, t.id, o) ELSE 0)
    <2> DEFINE q == <<u, a>>
               f == [i \in t.rows |-> IF LockRow(t.view[i]) = q THEN LockShift(t, orders, i) ELSE 0]
               g == [i \in t.rows |-> IF LockRow(r.view[i]) = q THEN LockShift(r, orders, i) ELSE 0]
    <2>1. t.fills \subseteq Trade BY <1>4 DEF TradesIn
    <2>2. \A i \in t.rows : LockedFor(t.fills, i, r.view[i]) \in Int BY <1>4, <1>9, <2>1, LockedInt
    <2>3. \A i \in t.rows : LockedFor(t.fills, i, t.view[i]) \in Int BY <1>2, <1>4, <2>1, LockedInt
    <2>4. \A i \in t.rows : orders[i] # Null => LockedFor(t.fills, i, orders[i]) \in Int
      BY <1>2, <1>4, <2>1, LockedInt
    <2>5. \A i \in t.rows : f[i] \in Int /\ g[i] \in Int
      BY <1>5, <2>2, <2>3, <2>4 DEF LockShift
    <2>6. \A i \in t.rows \ {t.id} : g[i] = f[i]
      BY <1>2, <1>5 DEF LockShift
    <2>7. g[t.id] - f[t.id]
            = IF LockRow(o) = q
              THEN LockedFor(t.fills, t.id, r.view[t.id]) - LockedFor(t.fills, t.id, o) ELSE 0
      BY <1>2, <1>5, <1>11, <2>2, <2>3 DEF LockShift
    <2>8. LockChange(t, orders, q) = SumFunctionOnSet(f, t.rows) BY DEF LockChange, SumOver
    <2>9. LockChange(r, orders, q) = SumFunctionOnSet(g, t.rows) BY <1>5 DEF LockChange, SumOver
    <2> HIDE DEF f, g
    <2>10. SumFunctionOnSet(g, t.rows) = SumFunctionOnSet(f, t.rows) + (g[t.id] - f[t.id])
      BY <1>2, <2>5, <2>6, SumChangeOne
    <2> QED BY <2>7, <2>8, <2>9, <2>10
  <1>14. ASSUME NEW u \in Users, NEW a \in Assets, <<u, a>> \in WalletRows
         PROVE  /\ Total(wallets'[<<u, a>>])
                     = Total(wallets[<<u, a>>]) + EarnedBy(r.fills, r.view, u, a)
                /\ wallets'[<<u, a>>].inOrders
                     = wallets[<<u, a>>].inOrders + LockChange(r, orders, <<u, a>>)
    <2> DEFINE q == <<u, a>>
    <2>1. q \in Wallets BY <1>14, ExchangeAssumption
    <2>2. EarnedBy(r.fills, r.view, u, a) = EarnedBy(t.fills, t.view, u, a)
      BY <1>12 DEF EarnedBy
    <2>3. /\ wallets[q].inOrders \in Int /\ Total(wallets[q]) \in Int
          /\ t.funds[q].inOrders \in Int
      BY <1>2, <2>1 DEF HInv, LInv, IInv, FundsOK, Wallet, Total, Tx
    <2>4. LockChange(t, orders, q) \in Int BY <1>1, <1>4, ChangeInt
    <2>5. CASE q \in t.purse
      <3>1. wallets'[q] = r.funds[q] BY <1>7, <1>8, <2>1, <2>5
      <3>2. /\ Total(r.funds[q]) = Total(t.funds[q])
            /\ r.funds[q].inOrders = t.funds[q].inOrders
                 + (IF LockRow(Taker(t)) = q
                    THEN LockedFor(t.fills, t.id, r.view[t.id]) - LockedFor(t.fills, t.id, Taker(t))
                    ELSE 0)
        <4>1. q \in WalletRows /\ LockRow(Taker(t)) \in t.purse /\ LockRow(Taker(t)) \in WalletRows
          BY <1>4, <1>14 DEF o
        <4>2. IsFiniteSet(t.fills) /\ TxOK(t) /\ t.pc = "finish" /\ ArrivingOK(t)
          BY <1>1, <1>2, <1>4
        <4> QED BY <4>1, <4>2, EndBooks DEF r
      <3>3. /\ Total(t.funds[q]) = Total(wallets[q]) + EarnedBy(t.fills, t.view, u, a)
            /\ t.funds[q].inOrders = wallets[q].inOrders + LockChange(t, orders, q)
        BY <1>3, <2>5 DEF BookedOK
      <3>4. LockedFor(t.fills, t.id, r.view[t.id]) \in Int /\ LockedFor(t.fills, t.id, o) \in Int
        BY <1>2, <1>4, <1>9, LockedInt DEF TradesIn
      <3> QED BY <1>13, <1>14, <2>2, <2>3, <2>4, <3>1, <3>2, <3>3, <3>4 DEF o
    <2>6. CASE q \notin t.purse
      <3>1. wallets'[q] = wallets[q] BY <1>7, <1>8, <2>1, <2>6
      <3>2. EarnedBy(t.fills, t.view, u, a) = 0 /\ LockChange(t, orders, q) = 0
        BY <1>1, <1>3, <1>14, <2>6, Unconcerned
      <3>3. LockRow(o) # q BY <1>4, <2>6
      <3> QED BY <1>13, <1>14, <2>2, <2>3, <3>1, <3>2, <3>3
    <2> QED BY <2>5, <2>6
  <1>15. PostsWell(r)
    <2>1. r.rows \subseteq Ids /\ IsFiniteSet(r.fills) /\ TradesIn(r.fills, r.view)
      BY <1>2, <1>4, <1>5, <1>12
    <2>2. \A x \in r.fills : x.maker \in r.rows /\ x.taker \in r.rows /\ orders[x.taker] = Null
      BY <1>2, <1>5
    <2>3. ASSUME NEW i \in r.rows
          PROVE  /\ OrderOK(r.view[i]) /\ LockRow(r.view[i]) \in WalletRows
                 /\ orders[i] = Null => r.view[i].filled = AmountOf(r.fills, i)
                 /\ orders[i] # Null => /\ r.view[i].user = orders[i].user
                                        /\ r.view[i].side = orders[i].side
                                        /\ r.view[i].type = orders[i].type
                                        /\ r.view[i].filled = orders[i].filled + AmountOf(r.fills, i)
      <3>1. i \in t.rows /\ OrderOK(r.view[i]) BY <1>5, <1>9
      <3>2. CASE i = t.id
        <4>1. LockRow(r.view[i]) = LockRow(o) BY <1>2, <1>11, <3>1, <3>2
        <4> QED BY <1>2, <1>4, <1>5, <1>6, <3>1, <3>2, <4>1
      <3>3. CASE i # t.id
        <4>1. r.view[i] = t.view[i] /\ i \in Ids BY <1>2, <1>5, <3>1, <3>3
        <4>2. /\ t.view[i].user = orders[i].user /\ t.view[i].side = orders[i].side
              /\ t.view[i].type = orders[i].type
          BY <1>2, <3>1, <3>3, LockedRow
        <4>3. orders[i] # Null BY <1>2, <3>1, <3>3 DEF RowOK
        <4>4. LockRow(orders[i]) \in WalletRows BY <4>1, <4>3 DEF HInv, LedgerOK
        <4>5. LockRow(r.view[i]) = LockRow(orders[i]) BY <4>1, <4>2 DEF LockRow
        <4> QED BY <1>4, <1>5, <3>1, <3>3, <4>1, <4>2, <4>3, <4>4, <4>5
      <3> QED BY <3>2, <3>3
    <2> QED BY <1>14, <2>1, <2>2, <2>3 DEF PostsWell
  <1>16. ASSUME NEW i \in Placed PROVE orders'[i].price = orders[i].price
    <2>1. i \in Ids /\ orders[i] # Null BY DEF Placed
    <2>2. CASE i \in t.rows
      <3>1. i # t.id BY <1>2, <2>1
      <3>2. orders'[i] = t.view[i] BY <1>5, <1>7, <2>1, <2>2, <3>1
      <3>3. t.view[i].price = orders[i].price BY <1>2, <2>2, <3>1, LockedRow
      <3> QED BY <3>2, <3>3
    <2>3. CASE i \notin t.rows BY <1>5, <1>7, <2>1, <2>3
    <2> QED BY <2>2, <2>3
  <1> QED BY <1>4, <1>5, <1>8, <1>14, <1>15, <1>16 DEF r

(* A cancel or an amend writes one row and trades nothing. *)
LEMMA OneRowPosts ==
  ASSUME HInv, NEW r, NEW i \in Ids, r.rows = {i}, r.fills = {}, orders[i] # Null,
         OrderOK(r.view[i]), r.view[i].user = orders[i].user, r.view[i].side = orders[i].side,
         r.view[i].type = orders[i].type, r.view[i].filled = orders[i].filled,
         \A u \in Users, a \in Assets : <<u, a>> \in WalletRows =>
           Total(wallets'[<<u, a>>]) = Total(wallets[<<u, a>>])
  PROVE  /\ PostsWell(r)
         /\ \A q : LockChange(r, orders, q)
              = IF LockRow(orders[i]) = q
                THEN LockedFor({}, i, r.view[i]) - LockedFor({}, i, orders[i]) ELSE 0
  <1>1. OrderOK(orders[i]) /\ LockRow(orders[i]) \in WalletRows /\ wallets \in [Wallets -> Wallet]
    BY DEF HInv, LInv, IInv, BookOK, LedgerOK, FundsOK
  <1>2. LockRow(r.view[i]) = LockRow(orders[i]) BY DEF LockRow
  <1>3. IsFiniteSet(r.fills) /\ TradesIn(r.fills, r.view) BY FS_EmptySet DEF TradesIn
  <1>4. AmountOf(r.fills, i) = 0 BY AmountNone
  <1>5. r.view[i].filled = orders[i].filled + AmountOf(r.fills, i)
    BY <1>1, <1>4 DEF OrderOK, Order
  <1>6. ASSUME NEW u \in Users, NEW a \in Assets, <<u, a>> \in WalletRows
        PROVE  Total(wallets'[<<u, a>>]) = Total(wallets[<<u, a>>]) + EarnedBy(r.fills, r.view, u, a)
    <2>1. EarnedBy(r.fills, r.view, u, a) = 0 BY HistoryNone
    <2>2. Total(wallets[<<u, a>>]) \in Int
      BY <1>1, <1>6, ExchangeAssumption DEF Total, Wallet
    <2> QED BY <1>6, <2>1, <2>2
  <1>7. PostsWell(r) BY <1>1, <1>2, <1>3, <1>5, <1>6 DEF PostsWell
  <1>8. ASSUME NEW q
        PROVE  LockChange(r, orders, q)
                 = IF LockRow(orders[i]) = q
                   THEN LockedFor({}, i, r.view[i]) - LockedFor({}, i, orders[i]) ELSE 0
    <2> DEFINE f == [j \in {i} |-> IF LockRow(r.view[j]) = q THEN LockShift(r, orders, j) ELSE 0]
    <2>1. LockChange(r, orders, q) = SumFunctionOnSet(f, {i}) BY DEF LockChange, SumOver
    <2>2. LockedFor({}, i, r.view[i]) \in Int /\ LockedFor({}, i, orders[i]) \in Int
      <3>1. IsFiniteSet({}) /\ {} \subseteq Trade BY FS_EmptySet
      <3> QED BY <1>1, <3>1, LockedInt
    <2>3. f[i] = IF LockRow(orders[i]) = q
                 THEN LockedFor({}, i, r.view[i]) - LockedFor({}, i, orders[i]) ELSE 0
      BY <1>2 DEF LockShift
    <2>4. f[i] \in Int BY <2>2, <2>3
    <2> HIDE DEF f
    <2> QED BY <2>1, <2>3, <2>4, SumSingle
  <1> QED BY <1>7, <1>8

(* What CancelOrder commits. *)
Canceled(t) == [CancelRefund(t) EXCEPT !.view[t.id].status = "canceled"]

(* An order is canceled, and all that it accounted for is available again. *)
LEMMA CancelPosts ==
  ASSUME HInv, LInv', NEW s \in Sessions, tx[s].pc = "canceling", Ready(s), OwnerMay(tx[s]), NEW r,
         r = Canceled(tx[s]), Commit(s, r)
  PROVE  /\ PostsWell(r) /\ r.rows = tx[s].rows /\ r.purse \subseteq WalletRows
         /\ \A u \in Sessions \ {s} : r.purse \cap tx[u].purse = {}
         /\ \A u \in Users, a \in Assets : <<u, a>> \in WalletRows =>
              wallets'[<<u, a>>].inOrders
                = wallets[<<u, a>>].inOrders + LockChange(r, orders, <<u, a>>)
         /\ \A i \in Placed : orders'[i].price = orders[i].price
         /\ orders'[tx[s].id].status = "canceled"
         /\ \A q \in WalletRows :
              /\ Total(wallets'[q]) = Total(wallets[q])
              /\ wallets'[q].inOrders = wallets[q].inOrders
                   - (IF LockRow(orders[tx[s].id]) = q /\ ~ IsMarketBuy(orders[tx[s].id])
                      THEN LockedFor({}, tx[s].id, orders[tx[s].id]) ELSE 0)
  <1> DEFINE t == tx[s]
             o == orders[t.id]
             c == CancelRefund(t)
             n == r.view[t.id]
  <1>1. /\ t \in Tx /\ TxOK(t) /\ t.id \in Ids /\ t.rows = {t.id} /\ t.fills = {}
        /\ Taker(t) = o /\ o # Null /\ OrderOK(o) /\ o \in Order /\ Lifecycle!IsLive(o)
        /\ LInv
    BY ChangedRow DEF HInv
  <1>2. /\ r.rows = t.rows /\ r.fills = {} /\ r.purse = c.purse /\ r.funds = c.funds
        /\ r.view[t.id] = [c.view[t.id] EXCEPT !.status = "canceled"]
        /\ c.view[t.id] = o \/ c.view[t.id] = [o EXCEPT !.status = "canceled"]
    <2>1. /\ c.rows = t.rows /\ c.fills = t.fills
          /\ c.view = t.view \/ c.view = [t.view EXCEPT ![t.id] = [o EXCEPT !.status = "canceled"]]
      <3>1. CASE Refunds(t)
        <4> DEFINE remaining == Taker(t).amount - Taker(t).filled
        <4>1. c = RefundRemaining(t, Taker(t), remaining, "canceled") BY <3>1 DEF CancelRefund
        <4> HIDE DEF c, remaining, o
        <4> QED BY <1>1, <4>1, RefundWrites
      <3>2. CASE ~ Refunds(t) BY <3>2 DEF CancelRefund
      <3> QED BY <3>1, <3>2
    <2>2. c \in Tx /\ r = [c EXCEPT !.view[t.id].status = "canceled"]
      BY <1>1, CancelRefundTyped DEF Canceled
    <2> HIDE DEF c
    <2>3. /\ r.rows = t.rows /\ r.fills = {} /\ r.view = [c.view EXCEPT ![t.id].status = "canceled"]
          /\ r.purse = c.purse /\ r.funds = c.funds
      BY <1>1, <2>1, <2>2 DEF Tx
    <2>4. c.view[t.id] = o \/ c.view[t.id] = [o EXCEPT !.status = "canceled"]
      BY <1>1, <2>1 DEF Tx, Taker
    <2>5. r.view[t.id] = [c.view[t.id] EXCEPT !.status = "canceled"]
      BY <1>1, <2>2, <2>3 DEF Tx
    <2> QED BY <2>3, <2>4, <2>5
  <1>3. /\ n.user = o.user /\ n.side = o.side /\ n.type = o.type /\ n.filled = o.filled
        /\ n.price = o.price /\ n.amount = o.amount /\ n.qmax = o.qmax
        /\ n.status = "canceled" /\ n \in Order
    <2> HIDE DEF c
    <2> QED BY <1>1, <1>2 DEF Order, Statuses
  <1>4. OrderOK(n) /\ (IsMarketBuy(n) <=> IsMarketBuy(o))
    <2> HIDE DEF n
    <2> QED BY <1>1, <1>3 DEF OrderOK, IsMarketBuy
  <1>5. LockRow(o) \in WalletRows /\ t.purse = {} /\ wallets \in [Wallets -> Wallet]
    BY <1>1 DEF HInv, LedgerOK, PurseOK, Matching, LInv, IInv, FundsOK
  <1>6. ASSUME Refunds(t)
        PROVE  /\ t.funds[LockRow(o)] = wallets[LockRow(o)]
               /\ \A u \in Sessions \ {s} : LockRow(o) \notin tx[u].purse
    <2>1. LockRow(o) \in WalletsNeeded(s)
      BY <1>1, <1>5, <1>6 DEF WalletsNeeded, OwnerMay, LockRow
    <2> QED BY <1>5, <2>1 DEF Ready, Conflicts, Waiting, Blocks, WalletStale
  <1>7. ~ IsMarketBuy(n) => LockedFor({}, t.id, n) = 0
    <2> HIDE DEF n
    <2> QED BY <1>3 DEF LockedFor
  <1>8. /\ r.purse \subseteq {LockRow(o)} /\ (~ Refunds(t) => r.purse = {})
        /\ \A q \in WalletRows :
             /\ Total(wallets'[q]) = Total(wallets[q])
             /\ wallets'[q].inOrders = wallets[q].inOrders
                  + (IF LockRow(o) = q
                     THEN LockedFor({}, t.id, n) - LockedFor({}, t.id, o) ELSE 0)
    <2>1. wallets' = [w \in Wallets |-> IF w \in r.purse THEN r.funds[w] ELSE wallets[w]]
      BY DEF Commit
    <2>2. \A q \in WalletRows : /\ q \in Wallets /\ Total(wallets[q]) \in Int
                                /\ wallets[q].inOrders \in Int
      BY <1>5, ExchangeAssumption DEF Total, Wallet
    <2> HIDE DEF n
    <2>3. CASE Refunds(t)
      <3> DEFINE v == RefundRemaining(t, Taker(t), Taker(t).amount - Taker(t).filled, "canceled")
      <3>1. ~ IsMarketBuy(o) BY <1>1, <2>3, ExchangeAssumption DEF Refunds, OrderOK
      <3>2. /\ t \in Tx /\ t.id \in Ids /\ OrderOK(Taker(t)) /\ ~ IsMarketBuy(Taker(t))
            /\ Taker(t).status \notin {"canceled", "rejected"}
            /\ LockRow(Taker(t)) \in WalletRows
        BY <1>1, <1>5, <3>1 DEF Lifecycle!IsLive
      <3>3. ASSUME NEW q \in WalletRows
            PROVE  /\ v.purse = t.purse \cup {LockRow(Taker(t))}
                   /\ Total(v.funds[q]) = Total(t.funds[q])
                   /\ v.funds[q].inOrders = t.funds[q].inOrders
                        + (IF LockRow(Taker(t)) = q THEN 0 - LockedFor({}, t.id, Taker(t)) ELSE 0)
                   /\ LockedFor({}, t.id, Taker(t)) \in Int
        <4>1. "canceled" \in {"canceled", "rejected"} OBVIOUS
        <4> QED BY ONLY <3>2, <3>3, <4>1, RefundBooks
      <3>4. c = v BY <2>3 DEF CancelRefund
      <3>5. r.purse = {LockRow(o)} /\ r.funds = v.funds
        <4> HIDE DEF c, v
        <4> QED BY <1>1, <1>2, <1>5, <3>3, <3>4
      <3> HIDE DEF c, v
      <3>6. ASSUME NEW q \in WalletRows
            PROVE  /\ Total(wallets'[q]) = Total(wallets[q])
                   /\ wallets'[q].inOrders = wallets[q].inOrders
                        + (IF LockRow(o) = q
                           THEN LockedFor({}, t.id, n) - LockedFor({}, t.id, o) ELSE 0)
        <4>1. CASE q = LockRow(o)
          <5>1. wallets'[q] = v.funds[q] /\ t.funds[q] = wallets[q]
            BY <1>6, <2>1, <2>2, <2>3, <3>5, <4>1
          <5>2. LockedFor({}, t.id, n) = 0 BY <1>4, <1>7, <3>1
          <5> QED BY <1>1, <3>3, <4>1, <5>1, <5>2
        <4>2. CASE q # LockRow(o)
          <5>1. wallets'[q] = wallets[q] BY <2>1, <2>2, <3>5, <4>2
          <5> QED BY <2>2, <4>2, <5>1
        <4> QED BY <4>1, <4>2
      <3> QED BY <2>3, <3>5, <3>6
    <2>4. CASE ~ Refunds(t)
      <3>1. r.purse = {} BY <1>2, <1>5, <2>4 DEF CancelRefund
      <3>2. \A q \in WalletRows : wallets'[q] = wallets[q] BY <2>1, <2>2, <3>1
      <3>3. LockedFor({}, t.id, n) - LockedFor({}, t.id, o) = 0
        <4>1. IsFiniteSet({}) /\ {} \subseteq Trade BY FS_EmptySet
        <4>2. LockedFor({}, t.id, o) \in Int BY <1>1, <4>1, LockedInt
        <4>3. CASE IsMarketBuy(o)
          <5>1. LockedFor({}, t.id, n) = LockedFor({}, t.id, o) BY <1>3, <1>4, <4>3 DEF LockedFor
          <5> QED BY <4>2, <5>1
        <4>4. CASE ~ IsMarketBuy(o)
          <5>1. o.amount - o.filled = 0
            BY <1>1, <2>4, <4>4, ExchangeAssumption DEF Refunds, OrderOK, Order
          <5>2. o.side # "sell" => o.price \in Int
            BY <1>1, <4>4 DEF OrderOK, Order, IsMarketBuy, Sides, Types, Prices
          <5>3. o.side # "sell" => Cost(o.price, 0) = 0 BY <5>2 DEF Cost
          <5>4. LockedFor({}, t.id, o) = 0
            BY <1>1, <4>4, <5>1, <5>3 DEF LockedFor, Lifecycle!IsLive
          <5> QED BY <1>4, <1>7, <4>4, <5>4
        <4> QED BY <4>3, <4>4
      <3> QED BY <2>2, <2>4, <3>1, <3>2, <3>3
    <2> QED BY <2>3, <2>4
  <1>9. \A u \in Sessions \ {s} : r.purse \cap tx[u].purse = {} BY <1>6, <1>8
  <1>10. /\ PostsWell(r)
         /\ \A q : LockChange(r, orders, q)
              = IF LockRow(orders[t.id]) = q
                THEN LockedFor({}, t.id, r.view[t.id]) - LockedFor({}, t.id, orders[t.id]) ELSE 0
    <2>1. \A u \in Users, a \in Assets : <<u, a>> \in WalletRows =>
            Total(wallets'[<<u, a>>]) = Total(wallets[<<u, a>>])
      BY <1>8
    <2>2. /\ HInv /\ t.id \in Ids /\ r.rows = {t.id} /\ r.fills = {} /\ orders[t.id] # Null
          /\ OrderOK(r.view[t.id]) /\ r.view[t.id].user = orders[t.id].user
          /\ r.view[t.id].side = orders[t.id].side /\ r.view[t.id].type = orders[t.id].type
          /\ r.view[t.id].filled = orders[t.id].filled
      BY <1>1, <1>2, <1>3, <1>4
    <2> HIDE DEF c
    <2> QED BY ONLY <2>1, <2>2, OneRowPosts
  <1>11. \A i \in Placed : orders'[i].price = orders[i].price
    <2>1. orders' = [i \in Ids |-> IF i \in r.rows THEN r.view[i] ELSE orders[i]] BY DEF Commit
    <2>2. r.rows = {t.id} /\ r.view[t.id].price = o.price BY <1>1, <1>2, <1>3
    <2> HIDE DEF c
    <2>3. ASSUME NEW i \in Placed PROVE orders'[i].price = orders[i].price
      <3>1. i \in Ids BY DEF Placed
      <3>2. CASE i = t.id BY <2>1, <2>2, <3>1, <3>2
      <3>3. CASE i # t.id BY <2>1, <2>2, <3>1, <3>3
      <3> QED BY <3>2, <3>3
    <2> QED BY <2>3
  <1>12. orders'[t.id].status = "canceled" BY <1>1, <1>2, <1>3 DEF Commit
  <1>13. ASSUME NEW q \in WalletRows
         PROVE  wallets'[q].inOrders = wallets[q].inOrders
                  - (IF LockRow(o) = q /\ ~ IsMarketBuy(o) THEN LockedFor({}, t.id, o) ELSE 0)
    <2>1. wallets[q].inOrders \in Int BY <1>5, ExchangeAssumption DEF Wallet
    <2>2. LockedFor({}, t.id, o) \in Int
      <3>1. IsFiniteSet({}) /\ {} \subseteq Trade BY FS_EmptySet
      <3> QED BY <1>1, <3>1, LockedInt
    <2>3. IsMarketBuy(o) => LockedFor({}, t.id, n) = LockedFor({}, t.id, o)
      BY <1>3, <1>4 DEF LockedFor
    <2>4. ~ IsMarketBuy(o) => LockedFor({}, t.id, n) = 0 BY <1>4, <1>7
    <2> QED BY <1>8, <2>1, <2>2, <2>3, <2>4
  <1> QED BY <1>2, <1>5, <1>8, <1>9, <1>10, <1>11, <1>12, <1>13

(* What an amend moves is what the order accounts for anew, but for the remainder that
   it had, which stays locked at the old price. *)
LEMMA AmendMoves ==
  ASSUME NEW p \in Int, NEW np \in Int, NEW x \in Int, NEW y \in Int
  PROVE  /\ 2000 * (np * (y - x)) = Cost(np, y) - Cost(p, x) + Cost(p - np, x)
         /\ 2000 * (np * (y - x)) \in Int /\ Cost(p - np, x) \in Int
         /\ Cost(np, y) \in Int /\ Cost(p, x) \in Int
  <1>1. np * (y - x) = np * y - np * x OBVIOUS
  <1>2. (p - np) * x = p * x - np * x OBVIOUS
  <1>3. np * y \in Int /\ np * x \in Int /\ p * x \in Int OBVIOUS
  <1> HIDE DEF Cost
  <1>4. /\ Cost(np, y) = 2000 * (np * y) /\ Cost(p, x) = 2000 * (p * x)
        /\ Cost(p - np, x) = 2000 * ((p - np) * x)
    BY DEF Cost
  <1> QED BY <1>1, <1>2, <1>3, <1>4

(* An order is amended: what moves is what its row accounts for anew, but for the
   remainder that stays locked at the old price. *)
LEMMA AmendPosts ==
  ASSUME HInv, NEW s \in Sessions, tx[s].pc = "amending", Ready(s), CanAmend(tx[s]),
         AmendCovered(tx[s]), NEW r, r = Amended(tx[s]), Commit(s, r)
  PROVE  /\ PostsWell(r) /\ r.rows = tx[s].rows /\ r.purse \subseteq WalletRows
         /\ \A u \in Sessions \ {s} : r.purse \cap tx[u].purse = {}
         /\ tx[s].id \in Placed /\ Repricing(tx[s].id) \in Int
         /\ \A u \in Users, a \in Assets : <<u, a>> \in WalletRows =>
              wallets'[<<u, a>>].inOrders
                = wallets[<<u, a>>].inOrders + LockChange(r, orders, <<u, a>>)
                  + (IF LockRow(orders[tx[s].id]) = <<u, a>> THEN Repricing(tx[s].id) ELSE 0)
         /\ \A i \in Placed \ {tx[s].id} : orders'[i] = orders[i]
         /\ AmendCost(tx[s]) \in Int
         /\ AmendCost(tx[s]) > 0
              => wallets[LockRow(orders[tx[s].id])].balance >= AmendCost(tx[s])
         /\ \A q \in WalletRows :
              /\ Total(wallets'[q]) = Total(wallets[q])
              /\ wallets'[q].inOrders = wallets[q].inOrders
                   + (IF LockRow(orders[tx[s].id]) = q THEN AmendCost(tx[s]) ELSE 0)
  <1> DEFINE t == tx[s]
             o == orders[t.id]
             n == r.view[t.id]
             d == AmendDelta(t)
             k == AmendCost(t)
  <1>1. /\ t \in Tx /\ TxOK(t) /\ t.id \in Ids /\ t.rows = {t.id} /\ t.fills = {}
        /\ Taker(t) = o /\ o # Null /\ OrderOK(o) /\ o \in Order /\ Lifecycle!IsLive(o)
        /\ LInv /\ o.type = "limit" /\ o.user = t.user /\ t.req.amount >= o.filled
        /\ OwnerMay(t)
    BY ChangedRow DEF HInv, CanAmend, OwnerMay
  <1>2. /\ t.req.amount \in Nat /\ NewPrice(t) \in Prices /\ o.price \in Prices
        /\ o.amount \in Nat /\ o.filled \in Nat /\ o.side \in Sides
    <2>1. t.req \in AmendReqs BY <1>1 DEF TxOK
    <2> QED BY <1>1, <2>1, OrderServiceAssumption DEF NewPrice, OrderOK, Order, IsMarketBuy
  <1>3. /\ NewPrice(t) \in Int /\ o.price \in Int BY <1>2 DEF Prices
  <1>4. LockRow(o) \in WalletRows /\ t.purse = {} /\ wallets \in [Wallets -> Wallet]
    BY <1>1 DEF HInv, LedgerOK, PurseOK, Matching, LInv, IInv, FundsOK
  <1>5. LockRow(o) = <<t.user, LockedAsset(o.side)>> /\ t.user \in Users /\ LockedAsset(o.side) \in Assets
    BY <1>1 DEF LockRow, TxOK, LockedAsset, Assets
  <1>6. ASSUME d # 0
        PROVE  /\ t.funds[LockRow(o)] = wallets[LockRow(o)]
               /\ \A u \in Sessions \ {s} : LockRow(o) \notin tx[u].purse
    <2>1. LockRow(o) \in WalletsNeeded(s)
      BY <1>1, <1>4, <1>5, <1>6 DEF WalletsNeeded
    <2> QED BY <1>4, <2>1 DEF Ready, Conflicts, Waiting, Blocks, WalletStale
  <1>7. /\ r.rows = {t.id} /\ r.fills = {}
        /\ n = [o EXCEPT !.price = NewPrice(t), !.amount = t.req.amount]
        /\ d = 0 => r.purse = {}
        /\ d # 0 => /\ r.purse = {LockRow(o)}
                    /\ r.funds = UpdateBalances(t.funds, t.user, LockedAsset(o.side), -k, k)
    <2> HIDE DEF o, d, k
    <2> QED BY <1>1, <1>4, <1>5 DEF Amended, Tx, o, d, k
  <1>8. /\ n.user = o.user /\ n.side = o.side /\ n.type = o.type /\ n.filled = o.filled
        /\ n.status = o.status /\ n.price = NewPrice(t) /\ n.amount = t.req.amount /\ n \in Order
    <2>1. n \in Order BY <1>1, <1>2, <1>7 DEF Order
    <2> HIDE DEF n
    <2> QED BY <1>1, <1>7, <2>1 DEF Order
  <1> HIDE DEF n
  <1>9. OrderOK(n) /\ ~ IsMarketBuy(n) /\ ~ IsMarketBuy(o)
    BY <1>1, <1>2, <1>8 DEF OrderOK, IsMarketBuy
  <1>10. orders' = [i \in Ids |-> IF i \in r.rows THEN r.view[i] ELSE orders[i]]
         /\ wallets' = [w \in Wallets |-> IF w \in r.purse THEN r.funds[w] ELSE wallets[w]]
    BY DEF Commit
  <1>11. orders'[t.id] = n BY <1>1, <1>7, <1>10 DEF n
  <1>12. /\ k \in Int /\ Repricing(t.id) \in Int
         /\ k = LockedFor({}, t.id, n) - LockedFor({}, t.id, o) + Repricing(t.id)
         /\ d = 0 => k = 0
         /\ LockedFor({}, t.id, n) \in Int /\ LockedFor({}, t.id, o) \in Int
    <2> DEFINE x == o.amount - o.filled
               y == t.req.amount - o.filled
    <2>1. d = y - x /\ x \in Int /\ y \in Int BY <1>1, <1>2 DEF AmendDelta
    <2>2. n.amount - n.filled = y BY <1>8
    <2>3. o.status \notin {"canceled", "rejected"} /\ n.status \notin {"canceled", "rejected"}
      BY <1>1, <1>8 DEF Lifecycle!IsLive
    <2> HIDE DEF x, y, d
    <2>4. CASE o.side = "sell"
      <3>1. k = d BY <1>1, <2>4 DEF AmendCost, d
      <3>2. LockedFor({}, t.id, n) = y /\ LockedFor({}, t.id, o) = x
        BY <1>8, <1>9, <2>2, <2>3, <2>4 DEF LockedFor, x
      <3>3. Repricing(t.id) = 0 BY <2>4 DEF Repricing
      <3> QED BY <2>1, <3>1, <3>2, <3>3
    <2>5. CASE o.side = "buy"
      <3>1. k = 2000 * (NewPrice(t) * d) BY <1>1, <2>5 DEF AmendCost, d
      <3>2. LockedFor({}, t.id, n) = Cost(NewPrice(t), y) /\ LockedFor({}, t.id, o) = Cost(o.price, x)
        BY <1>8, <1>9, <2>2, <2>3, <2>5 DEF LockedFor, x
      <3>3. Repricing(t.id) = Cost(o.price - NewPrice(t), x)
        BY <1>1, <1>8, <1>11, <2>5 DEF Repricing, x
      <3> DEFINE np == NewPrice(t)
                 p  == o.price
      <3>4. np \in Int /\ p \in Int BY <1>3
      <3> HIDE DEF np, p
      <3>5. /\ 2000 * (np * (y - x)) = Cost(np, y) - Cost(p, x) + Cost(p - np, x)
            /\ 2000 * (np * (y - x)) \in Int /\ Cost(p - np, x) \in Int
            /\ Cost(np, y) \in Int /\ Cost(p, x) \in Int
        BY <2>1, <3>4, AmendMoves
      <3>6. k = 2000 * (np * (y - x)) BY <2>1, <3>1 DEF np
      <3>7. d = 0 => k = 0
        <4>1. np * 0 = 0 BY <3>4
        <4> QED BY <3>1, <4>1 DEF np
      <3> HIDE DEF k
      <3> QED BY <3>2, <3>3, <3>5, <3>6, <3>7 DEF np, p
    <2> QED BY <1>2, <2>4, <2>5 DEF Sides
  <1> HIDE DEF k, d
  <1>13. ASSUME NEW q \in WalletRows
         PROVE  /\ Total(wallets'[q]) = Total(wallets[q])
                /\ wallets'[q].inOrders = wallets[q].inOrders + (IF LockRow(o) = q THEN k ELSE 0)
    <2>1. /\ q \in Wallets /\ Total(wallets[q]) \in Int /\ wallets[q].inOrders \in Int
          /\ t.funds \in [Wallets -> Wallet]
      BY <1>1, <1>4, ExchangeAssumption DEF Total, Wallet, Tx
    <2>2. CASE d # 0 /\ q = LockRow(o)
      <3> DEFINE asset == LockedAsset(o.side)
                 u == t.user
                 m == -k
                 v == UpdateBalances(t.funds, u, asset, m, k)
      <3>1. wallets'[q] = v[q] /\ t.funds[q] = wallets[q]
        BY <1>6, <1>7, <1>10, <2>1, <2>2
      <3>2. m \in Int /\ m + k = 0 /\ u \in Users /\ asset \in Assets /\ q = <<u, asset>>
        BY <1>5, <1>12, <2>2
      <3> HIDE DEF m, asset, u
      <3>3. /\ Total(v[q]) = Total(t.funds[q]) + (IF q = <<u, asset>> THEN m + k ELSE 0)
            /\ v[q].inOrders = t.funds[q].inOrders + (IF q = <<u, asset>> THEN k ELSE 0)
        BY <1>12, <2>1, <3>2, UpdateRow
      <3> QED BY <2>1, <2>2, <3>1, <3>2, <3>3
    <2>3. CASE d = 0 \/ q # LockRow(o)
      <3>1. wallets'[q] = wallets[q] BY <1>7, <1>10, <2>1, <2>3
      <3> QED BY <1>12, <2>1, <2>3, <3>1
    <2> QED BY <2>2, <2>3
  <1>14. /\ PostsWell(r)
         /\ \A q : LockChange(r, orders, q)
              = IF LockRow(orders[t.id]) = q
                THEN LockedFor({}, t.id, r.view[t.id]) - LockedFor({}, t.id, orders[t.id]) ELSE 0
    <2>1. \A u \in Users, a \in Assets : <<u, a>> \in WalletRows =>
            Total(wallets'[<<u, a>>]) = Total(wallets[<<u, a>>])
      BY <1>13
    <2>2. /\ HInv /\ t.id \in Ids /\ r.rows = {t.id} /\ r.fills = {} /\ orders[t.id] # Null
          /\ OrderOK(r.view[t.id]) /\ r.view[t.id].user = orders[t.id].user
          /\ r.view[t.id].side = orders[t.id].side /\ r.view[t.id].type = orders[t.id].type
          /\ r.view[t.id].filled = orders[t.id].filled
      BY <1>1, <1>7, <1>8, <1>9 DEF n
    <2> QED BY ONLY <2>1, <2>2, OneRowPosts
  <1>15. \A u \in Users, a \in Assets : <<u, a>> \in WalletRows =>
           wallets'[<<u, a>>].inOrders
             = wallets[<<u, a>>].inOrders + LockChange(r, orders, <<u, a>>)
               + (IF LockRow(orders[t.id]) = <<u, a>> THEN Repricing(t.id) ELSE 0)
    <2> TAKE u \in Users, a \in Assets
    <2> HAVE <<u, a>> \in WalletRows
    <2> DEFINE q == <<u, a>>
    <2>1. wallets[q].inOrders \in Int BY <1>4, ExchangeAssumption DEF Wallet
    <2>2. wallets'[q].inOrders = wallets[q].inOrders + (IF LockRow(o) = q THEN k ELSE 0) BY <1>13
    <2>3. LockChange(r, orders, q)
            = IF LockRow(o) = q THEN LockedFor({}, t.id, n) - LockedFor({}, t.id, o) ELSE 0
      BY <1>14 DEF n
    <2> QED BY <1>12, <2>1, <2>2, <2>3
  <1>16. \A u \in Sessions \ {s} : r.purse \cap tx[u].purse = {} BY <1>6, <1>7
  <1>17. \A i \in Placed \ {t.id} : orders'[i] = orders[i] BY <1>7, <1>10 DEF Placed
  <1>18. k > 0 => wallets[LockRow(o)].balance >= k
    <2>1. d # 0 => (k > 0 => t.funds[LockRow(o)].balance >= k)
      BY <1>1, <1>5 DEF AmendCovered, d, k
    <2> QED BY <1>6, <1>12, <2>1
  <1> QED BY <1>1, <1>4, <1>7, <1>12, <1>13, <1>14, <1>15, <1>16, <1>17, <1>18 DEF Placed, k

-----------------------------------------------------------------------------
(* What an amend leaves behind, summed over the orders of a wallet *)

(* An order that keeps its price leaves nothing behind. *)
LEMMA SamePrice ==
  ASSUME HInv, NEW i \in Placed, orders'[i].price = orders[i].price
  PROVE  Repricing(i) = 0
  <1>1. OrderOK(orders[i]) BY DEF HInv, LInv, IInv, BookOK, Placed
  <1>2. CASE orders[i].type = "limit" /\ orders[i].side = "buy"
    <2> DEFINE x == orders[i].amount - orders[i].filled
               p == orders[i].price
    <2>1. x \in Int /\ p \in Int
      BY <1>1, <1>2 DEF OrderOK, Order, IsMarketBuy, Prices
    <2>2. Repricing(i) = Cost(p - p, x) BY <1>2 DEF Repricing
    <2> HIDE DEF x, p
    <2>3. p - p = 0 BY <2>1
    <2>4. Cost(0, x) = 0 BY <2>1 DEF Cost
    <2> QED BY <2>2, <2>3, <2>4
  <1> QED BY <1>2 DEF Repricing

(* What a commit leaves locked at old prices, of the orders of a wallet. *)
LeftBehind(u, a) == SumOver(LocksOf(u, a), Repricing)

(* A commit that reprices no order leaves nothing behind, and one that reprices order i
   only what that order does. *)
LEMMA RepricingSum ==
  ASSUME HInv, NEW i, NEW z \in Int, i \in Placed => Repricing(i) = z,
         \A j \in Placed \ {i} : Repricing(j) = 0, NEW u, NEW a
  PROVE  LeftBehind(u, a) = IF i \in LocksOf(u, a) THEN z ELSE 0
  <1> DEFINE S == LocksOf(u, a)
             f == [j \in S |-> Repricing(j)]
  <1>1. IsFiniteSet(S) /\ S \subseteq Placed
    <2>1. IsFiniteSet(Ids) BY IdsFinite
    <2>2. S \subseteq Placed /\ Placed \subseteq Ids BY DEF LocksOf, Placed
    <2> HIDE DEF S
    <2> QED BY <2>1, <2>2, FS_Subset
  <1>2. LeftBehind(u, a) = SumFunctionOnSet(f, S) BY DEF LeftBehind, SumOver
  <1>3. \A j \in S : f[j] = IF j = i THEN z ELSE 0 BY <1>1
  <1> HIDE DEF S, f
  <1>4. CASE i \in S
    <2>1. {i} \in SUBSET S BY <1>4
    <2>2. \A j \in {i} : f[j] \in Int BY <1>3, <1>4
    <2>3. \A j \in S \ {i} : f[j] = 0 BY <1>3
    <2>4. SumFunctionOnSet(f, S) = SumFunctionOnSet(f, {i}) BY <1>1, <2>1, <2>2, <2>3, SumWithin
    <2>5. SumFunctionOnSet(f, {i}) = f[i] BY <2>2, SumSingle
    <2> QED BY <1>2, <1>3, <1>4, <2>4, <2>5 DEF S
  <1>5. CASE i \notin S
    <2>1. \A j \in S : f[j] = 0 BY <1>3, <1>5
    <2> QED BY <1>1, <1>2, <1>5, <2>1, SumZero DEF S
  <1> QED BY <1>4, <1>5

(* What LockedFundsFollowOrders says of a commit. *)
FundsFollow ==
  \A u \in Users, a \in Assets :
    wallets'[<<u, a>>].inOrders - wallets[<<u, a>>].inOrders
      = BackedBy(u, a)' - BackedBy(u, a) + LeftBehind(u, a)

(* What a commit changes is an integer. *)
LEMMA PostedInt ==
  ASSUME HInv, NEW r, PostsWell(r), NEW q
  PROVE  LockChange(r, orders, q) \in Int
  <1> DEFINE f == [i \in r.rows |-> IF LockRow(r.view[i]) = q THEN LockShift(r, orders, i) ELSE 0]
  <1>1. IsFiniteSet(r.rows) /\ r.fills \subseteq Trade /\ IsFiniteSet(r.fills)
    BY IdsFinite, FS_Subset DEF PostsWell, TradesIn
  <1>2. \A i \in r.rows : LockShift(r, orders, i) \in Int
    <2> TAKE i \in r.rows
    <2>1. OrderOK(r.view[i]) /\ i \in Ids BY DEF PostsWell
    <2>2. orders[i] # Null => OrderOK(orders[i]) BY <2>1 DEF HInv, LInv, IInv, BookOK
    <2>3. LockedFor(r.fills, i, r.view[i]) \in Int BY <1>1, <2>1, LockedInt
    <2>4. orders[i] # Null => LockedFor(r.fills, i, orders[i]) \in Int BY <1>1, <2>2, LockedInt
    <2> QED BY <2>3, <2>4 DEF LockShift
  <1>3. \A i \in r.rows : f[i] \in Int BY <1>2
  <1>4. LockChange(r, orders, q) = SumFunctionOnSet(f, r.rows) BY DEF LockChange, SumOver
  <1> HIDE DEF f
  <1> QED BY <1>1, <1>3, <1>4, SumType

(* A commit that is in balance keeps the ledger, and the locked funds follow the orders. *)
LEMMA PostedBooks ==
  ASSUME HInv, LInv', NEW s \in Sessions, NEW r, Commit(s, r), PostsWell(r),
         r.rows = tx[s].rows, r.purse \subseteq WalletRows,
         \A u \in Sessions \ {s} : r.purse \cap tx[u].purse = {},
         \A u \in Users, a \in Assets : <<u, a>> \in WalletRows =>
           wallets'[<<u, a>>].inOrders
             = wallets[<<u, a>>].inOrders + LockChange(r, orders, <<u, a>>)
               + LeftBehind(u, a),
         \A u, a : LeftBehind(u, a) \in Int
  PROVE  HInv' /\ FundsFollow
  <1>1. /\ orders' = [i \in Ids |-> IF i \in r.rows THEN r.view[i] ELSE orders[i]]
        /\ wallets' = [w \in Wallets |-> IF w \in r.purse THEN r.funds[w] ELSE wallets[w]]
        /\ trades' = trades \cup r.fills
    BY DEF Commit
  <1>2. LedgerOK(orders', trades', wallets') BY <1>1, PostedLedger
  <1>3. HInv' BY <1>2, CommitBooks
  <1>4. IsFiniteSet(trades') /\ trades' \subseteq Trade /\ BookOK(orders')
    BY <1>2 DEF LedgerOK, LInv, IInv
  <1>5. ASSUME NEW u \in Users, NEW a \in Assets
        PROVE  wallets'[<<u, a>>].inOrders - wallets[<<u, a>>].inOrders
                 = BackedBy(u, a)' - BackedBy(u, a) + LeftBehind(u, a)
    <2> DEFINE q == <<u, a>>
    <2>1. /\ BackedBy(u, a)' - BackedBy(u, a) = LockChange(r, orders, q)
          /\ BackedBy(u, a) \in Int /\ BackedBy(u, a)' \in Int
      BY <1>1, <1>4, PostedLocks
    <2>2. LockChange(r, orders, q) \in Int BY <2>1
    <2>3. q \in Wallets /\ wallets[q].inOrders \in Int
      BY DEF Wallets, HInv, LInv, IInv, FundsOK, Wallet
    <2>4. CASE q \in WalletRows
      <3>1. /\ LeftBehind(u, a) \in Int
            /\ wallets'[q].inOrders
                 = wallets[q].inOrders + LockChange(r, orders, q) + LeftBehind(u, a)
        BY <2>4
      <3> QED BY <2>1, <2>2, <2>3, <3>1
    <2>5. CASE q \notin WalletRows
      <3>1. wallets'[q] = wallets[q]
        <4>1. q \notin r.purse BY <2>5
        <4> HIDE DEF q
        <4> QED BY <1>1, <2>3, <4>1
      <3>2. LocksOf(u, a) = {} BY <2>5 DEF HInv, LedgerOK, LocksOf, Placed, LockRow
      <3>3. LeftBehind(u, a) = 0 BY <3>2, SumEmpty DEF LeftBehind, SumOver
      <3>4. LockChange(r, orders, q) = 0
        <4> DEFINE f == [i \in r.rows |-> IF LockRow(r.view[i]) = q THEN LockShift(r, orders, i) ELSE 0]
        <4>1. IsFiniteSet(r.rows)
          <5>1. IsFiniteSet(Ids) BY IdsFinite
          <5> QED BY <5>1, FS_Subset DEF PostsWell
        <4>2. LockChange(r, orders, q) = SumFunctionOnSet(f, r.rows) BY DEF LockChange, SumOver
        <4>3. \A i \in r.rows : LockRow(r.view[i]) \in WalletRows BY DEF PostsWell
        <4> HIDE DEF q
        <4>4. \A i \in r.rows : f[i] = 0 BY <2>5, <4>3
        <4> HIDE DEF f
        <4> QED BY <4>1, <4>2, <4>4, SumZero
      <3>5. BackedBy(u, a)' - BackedBy(u, a) + LeftBehind(u, a) = 0 BY <2>1, <3>3, <3>4
      <3>6. wallets'[q].inOrders - wallets[q].inOrders = 0 BY <2>3, <3>1
      <3> QED BY <3>5, <3>6
    <2> QED BY <2>4, <2>5
  <1> QED BY <1>3, <1>5 DEF FundsFollow

-----------------------------------------------------------------------------
(* What every step keeps *)

(* A step that commits nothing leaves the committed rows alone; one that commits is in
   balance. *)
LEMMA SessionBooks ==
  ASSUME HInv, LInv', NEW s \in Sessions, Arrive(s) \/ Step(s) \/ Rollback(s)
  PROVE  HInv' /\ (committed' # committed => FundsFollow)
  <1> DEFINE t == tx[s]
  <1>1. ASSUME Abandon(s) PROVE HInv' /\ (committed' # committed => FundsFollow)
    <2>1. HInv' BY <1>1, GiveUpBooks
    <2> QED BY <1>1, <2>1 DEF Abandon, committed
  <1>2. CASE Arrive(s)
    <2>1. HInv' BY <1>2, ArrivalBooks
    <2>2. PICK pc, user, req, id : Begin(s, pc, user, req, id)
      BY <1>2 DEF Arrive, PlaceBegin, CancelBegin, AmendBegin
    <2>3. UNCHANGED committed BY <2>2 DEF Begin, committed
    <2> QED BY <2>1, <2>3
  <1>3. CASE Rollback(s) \/ Fail(s) \/ PlaceRefuse(s)
    BY <1>1, <1>3 DEF Rollback, Fail, PlaceRefuse
  <1>4. CASE PlaceLock(s) \/ MatchSelect(s) \/ MatchFill(s) \/ MatchNext(s)
    <2>1. HInv' BY <1>4, PlaceLockBooks, MatchSelectBooks, MatchFillBooks, MatchNextBooks
    <2>2. UNCHANGED committed
      BY <1>4 DEF PlaceLock, MatchSelect, MatchFill, MatchNext, committed
    <2> QED BY <2>1, <2>2
  <1>5. CASE CancelLock(s) \/ AmendLock(s)
    <2>1. HInv' BY <1>5, RowLockBooks
    <2>2. UNCHANGED committed
      BY <1>5 DEF CancelLock, AmendLock, LockOrder, Abandon, committed
    <2> QED BY <2>1, <2>2
  <1>6. ASSUME \A i \in Placed : orders'[i].price = orders[i].price
        PROVE  \A u, a : LeftBehind(u, a) = 0
    <2>1. \A i \in Placed : Repricing(i) = 0 BY <1>6, SamePrice
    <2> TAKE u, a
    <2>2. LeftBehind(u, a) = IF Null \in LocksOf(u, a) THEN 0 ELSE 0
      BY <2>1, RepricingSum
    <2> QED BY <2>2
  <1>7. \A u \in Users, a \in Assets : <<u, a>> \in WalletRows => wallets[<<u, a>>].inOrders \in Int
    BY ExchangeAssumption DEF HInv, LInv, IInv, FundsOK, Wallet
  <1>8. CASE PlaceFinish(s)
    <2> DEFINE r == ApplyTIF(t)
    <2>1. Commit(s, r) BY <1>8 DEF PlaceFinish
    <2>2. /\ PostsWell(r) /\ r.rows = t.rows
          /\ r.purse = t.purse /\ r.purse \subseteq WalletRows
          /\ \A u \in Users, a \in Assets : <<u, a>> \in WalletRows =>
               wallets'[<<u, a>>].inOrders
                 = wallets[<<u, a>>].inOrders + LockChange(r, orders, <<u, a>>)
          /\ \A i \in Placed : orders'[i].price = orders[i].price
      BY <1>8, PlacePosts
    <2> HIDE DEF r
    <2>3. \A u, a : LeftBehind(u, a) = 0 BY <1>6, <2>2
    <2>4. \A u \in Sessions \ {s} : r.purse \cap tx[u].purse = {} BY <2>2 DEF HInv
    <2>5. \A u \in Users, a \in Assets : <<u, a>> \in WalletRows =>
            wallets'[<<u, a>>].inOrders
              = wallets[<<u, a>>].inOrders + LockChange(r, orders, <<u, a>>) + LeftBehind(u, a)
      <3> TAKE u \in Users, a \in Assets
      <3> HAVE <<u, a>> \in WalletRows
      <3>1. LockChange(r, orders, <<u, a>>) \in Int BY <2>2, PostedInt
      <3> QED BY <1>7, <2>2, <2>3, <3>1
    <2>6. \A u, a : LeftBehind(u, a) \in Int BY <2>3
    <2> QED BY <2>1, <2>2, <2>4, <2>5, <2>6, PostedBooks
  <1>9. CASE CancelFinish(s)
    <2> DEFINE r == Canceled(t)
    <2>1. CASE OwnerMay(t)
      <3>1. t.pc = "canceling" /\ Ready(s) /\ Commit(s, r) BY <1>9, <2>1 DEF CancelFinish, Canceled
      <3>2. r = Canceled(tx[s]) OBVIOUS
      <3> HIDE DEF r
      <3>3. /\ PostsWell(r) /\ r.rows = t.rows /\ r.purse \subseteq WalletRows
            /\ \A u \in Sessions \ {s} : r.purse \cap tx[u].purse = {}
            /\ \A u \in Users, a \in Assets : <<u, a>> \in WalletRows =>
                 wallets'[<<u, a>>].inOrders
                   = wallets[<<u, a>>].inOrders + LockChange(r, orders, <<u, a>>)
            /\ \A i \in Placed : orders'[i].price = orders[i].price
        BY <2>1, <3>1, <3>2, CancelPosts
      <3>4. \A u, a : LeftBehind(u, a) = 0
        <4>1. \A i \in Placed : orders'[i].price = orders[i].price BY <3>3
        <4> QED BY ONLY <1>6, <4>1
      <3>5. \A u \in Users, a \in Assets : <<u, a>> \in WalletRows =>
              wallets'[<<u, a>>].inOrders
                = wallets[<<u, a>>].inOrders + LockChange(r, orders, <<u, a>>) + LeftBehind(u, a)
        <4> TAKE u \in Users, a \in Assets
        <4> HAVE <<u, a>> \in WalletRows
        <4>1. LockChange(r, orders, <<u, a>>) \in Int BY <3>3, PostedInt
        <4> QED BY <1>7, <3>3, <3>4, <4>1
      <3>6. \A u, a : LeftBehind(u, a) \in Int BY <3>4
      <3> QED BY <3>1, <3>3, <3>5, <3>6, PostedBooks
    <2>2. CASE ~ OwnerMay(t) BY <1>1, <1>9, <2>2 DEF CancelFinish
    <2> QED BY <2>1, <2>2
  <1>10. CASE AmendFinish(s)
    <2> DEFINE r == Amended(t)
    <2>1. CASE CanAmend(t) /\ AmendCovered(t)
      <3>1. t.pc = "amending" /\ Ready(s) /\ Commit(s, r) BY <1>10, <2>1 DEF AmendFinish
      <3>2. r = Amended(tx[s]) OBVIOUS
      <3> HIDE DEF r
      <3>3. /\ PostsWell(r) /\ r.rows = t.rows /\ r.purse \subseteq WalletRows
            /\ \A u \in Sessions \ {s} : r.purse \cap tx[u].purse = {}
            /\ t.id \in Placed /\ Repricing(t.id) \in Int
            /\ \A u \in Users, a \in Assets : <<u, a>> \in WalletRows =>
                 wallets'[<<u, a>>].inOrders
                   = wallets[<<u, a>>].inOrders + LockChange(r, orders, <<u, a>>)
                     + (IF LockRow(orders[t.id]) = <<u, a>> THEN Repricing(t.id) ELSE 0)
            /\ \A i \in Placed \ {t.id} : orders'[i] = orders[i]
        BY <2>1, <3>1, <3>2, AmendPosts
      <3>4. \A i \in Placed \ {t.id} : Repricing(i) = 0
        <4> TAKE i \in Placed \ {t.id}
        <4>1. orders'[i].price = orders[i].price BY <3>3
        <4>2. HInv /\ i \in Placed OBVIOUS
        <4> QED BY ONLY <4>1, <4>2, SamePrice
      <3>5. \A u, a : /\ LeftBehind(u, a) = IF LockRow(orders[t.id]) = <<u, a>> THEN Repricing(t.id) ELSE 0
                      /\ LeftBehind(u, a) \in Int
        <4> TAKE u, a
        <4> DEFINE z == Repricing(t.id)
                   i == t.id
        <4>1. z \in Int /\ (i \in Placed => Repricing(i) = z) BY <3>3
        <4>2. \A j \in Placed \ {i} : Repricing(j) = 0 BY <3>4
        <4> HIDE DEF z, i
        <4>3. LeftBehind(u, a) = IF i \in LocksOf(u, a) THEN z ELSE 0
          BY <4>1, <4>2, RepricingSum
        <4>4. i \in LocksOf(u, a) <=> LockRow(orders[i]) = <<u, a>>
          BY <3>3 DEF LocksOf, LockRow, i
        <4> QED BY <4>1, <4>3, <4>4 DEF z, i
      <3>6. \A u \in Users, a \in Assets : <<u, a>> \in WalletRows =>
              wallets'[<<u, a>>].inOrders
                = wallets[<<u, a>>].inOrders + LockChange(r, orders, <<u, a>>) + LeftBehind(u, a)
        BY <3>3, <3>5
      <3>7. \A u, a : LeftBehind(u, a) \in Int BY <3>5
      <3> QED BY <3>1, <3>3, <3>6, <3>7, PostedBooks
    <2>2. CASE ~ (CanAmend(t) /\ AmendCovered(t)) BY <1>1, <1>10, <2>2 DEF AmendFinish
    <2> QED BY <2>1, <2>2
  <1> QED BY <1>2, <1>3, <1>4, <1>5, <1>8, <1>9, <1>10 DEF Step

(* HInv holds at the start: there is nothing to account for. *)
LEMMA StartsBalanced == Init => HInv
  <1> SUFFICES ASSUME Init PROVE HInv OBVIOUS
  <1>1. LInv BY StartsWell
  <1>2. trades = {} /\ wallets = OpeningFunds /\ \A i \in Ids : orders[i] = Null
    BY DEF Init, NoOrders
  <1>3. \A s \in Sessions : tx[s] = IdleTx BY DEF Init
  <1>4. IdleTx.pc = "idle" /\ IdleTx.purse = {} BY DEF IdleTx
  <1>5. \A s \in Sessions : PurseOK(tx[s], orders, wallets)
    BY <1>3, <1>4 DEF PurseOK, Matching
  <1>6. \A s, u \in Sessions : s # u => tx[s].purse \cap tx[u].purse = {}
    BY <1>3, <1>4
  <1>7. ASSUME NEW u \in Users, NEW a \in Assets, <<u, a>> \in WalletRows
        PROVE  Total(wallets[<<u, a>>])
                 = OpeningFunds[<<u, a>>].balance + EarnedBy(trades, orders, u, a)
    <2>1. EarnedBy(trades, orders, u, a) = 0 BY <1>2, HistoryNone
    <2>2. <<u, a>> \in Wallets BY <1>7, ExchangeAssumption
    <2>3. /\ OpeningFunds[<<u, a>>].balance \in Int /\ OpeningFunds[<<u, a>>].inOrders = 0
      BY <2>2, OrderServiceAssumption DEF OpeningFunds
    <2> QED BY <1>2, <2>1, <2>3 DEF Total
  <1>8. LedgerOK(orders, trades, wallets)
    BY <1>2, <1>7, FS_EmptySet DEF LedgerOK, TradesIn
  <1> QED BY <1>1, <1>5, <1>6, <1>8 DEF HInv

(* Every step keeps HInv, and the locked funds follow the orders. *)
LEMMA NextBalances ==
  HInv /\ [Next]_vars => HInv' /\ [committed' # committed => FundsFollow]_vars
  <1> SUFFICES ASSUME HInv, [Next]_vars
               PROVE  HInv' /\ [committed' # committed => FundsFollow]_vars
    OBVIOUS
  <1>1. LInv' BY NextSteps DEF HInv
  <1>2. CASE UNCHANGED vars
    <2>1. HInv' BY <1>1, <1>2 DEF vars, HInv
    <2> QED BY <1>2, <2>1
  <1>3. ASSUME NEW s \in Sessions, Arrive(s) \/ Step(s) \/ Rollback(s)
        PROVE  HInv' /\ [committed' # committed => FundsFollow]_vars
    BY <1>1, <1>3, SessionBooks
  <1> QED BY <1>2, <1>3 DEF Next

(* HInv holds in every state of every execution. *)
THEOREM LedgerInvariance == Spec => []HInv
  BY StartsBalanced, NextBalances, PTL DEF Spec

(* An order's filled_amount is what its committed trades sum up to: no fill is lost to a
   concurrent transaction, and none is recorded twice. *)
THEOREM FillsAreTrades == Spec => []FillsMatchTrades
  <1>1. HInv => FillsMatchTrades BY DEF HInv, LedgerOK, Placed, FillsMatchTrades
  <1> QED BY <1>1, LedgerInvariance, PTL

(* Every commit changes in_orders by what its user's order rows account for, but for the
   remainder of an amended buy, which stays locked at the old price. *)
THEOREM LockedFundsAccount == Spec => LockedFundsFollowOrders
  <1>1. HInv /\ [Next]_vars =>
          [committed' # committed => \A u \in Users, a \in Assets :
             wallets'[<<u, a>>].inOrders - wallets[<<u, a>>].inOrders
               = BackedBy(u, a)' - BackedBy(u, a) + SumOver(LocksOf(u, a), Repricing)]_vars
    BY NextBalances DEF FundsFollow, LeftBehind
  <1> QED BY <1>1, StartsBalanced, NextBalances, PTL DEF Spec, LockedFundsFollowOrders

-----------------------------------------------------------------------------
(* What GetByUserId lists *)

(* The joins of an order with itself, one for each side that the user has, and those of
   the maker with the taker and of the taker with the maker. *)
Once(u) == {j \in Joined(u) : j[2] = j[3]}
MakerTwice(u) == {<<x, x.maker, x.taker>> : x \in SelfTrades(u)}
TakerTwice(u) == {<<x, x.taker, x.maker>> : x \in SelfTrades(u)}

(* A join has a row of the history of the user. *)
LEMMA JoinedRow ==
  ASSUME NEW u, NEW j \in Joined(u)
  PROVE  /\ j = <<j[1], j[2], j[3]>> /\ j[1] \in trades
         /\ {j[2], j[3]} \subseteq {j[1].maker, j[1].taker}
         /\ {j[2], j[3]} \subseteq OrdersOf(u)
         /\ HistoryRow(j) = SideRow(j[1], j[2], orders)
         /\ HistoryRow(j) \in HistoryOf(trades, orders, u)
  <1>1. /\ j = <<j[1], j[2], j[3]>> /\ j[1] \in trades /\ j[2] \in OrdersOf(u) /\ j[3] \in OrdersOf(u)
        /\ {j[2], j[3]} \subseteq {j[1].maker, j[1].taker}
    BY DEF Joined
  <1>2. HistoryRow(j) = SideRow(j[1], j[2], orders) BY DEF HistoryRow, SideRow
  <1>3. <<j[1], j[2]>> \in SidesOf(trades, orders, u) BY <1>1 DEF SidesOf, OrdersOf
  <1> QED BY <1>1, <1>2, <1>3 DEF HistoryOf

(* Finitely many trades have finitely many of them. *)
LEMMA OnceFinite ==
  ASSUME IsFiniteSet(trades), NEW u
  PROVE  IsFiniteSet(Once(u))
  <1> DEFINE S == Once(u)
  <1>1. IsFiniteSet(Ids) BY IdsFinite
  <1>2. IsFiniteSet(OrdersOf(u)) BY <1>1, FS_Subset DEF OrdersOf
  <1>3. IsFiniteSet(trades \X OrdersOf(u)) BY <1>2, FS_Product
  <1> DEFINE k == [j \in S |-> <<j[1], j[2]>>]
  <1>4. k \in Injection(S, trades \X OrdersOf(u))
    <2>1. \A j \in S : <<j[1], j[2]>> \in trades \X OrdersOf(u) BY JoinedRow DEF Once
    <2>2. \A j, i \in S : <<j[1], j[2]>> = <<i[1], i[2]>> => j = i
      <3> SUFFICES ASSUME NEW j \in S, NEW i \in S, j[1] = i[1], j[2] = i[2] PROVE j = i
        OBVIOUS
      <3>1. j = <<j[1], j[2], j[3]>> /\ i = <<i[1], i[2], i[3]>> /\ j[2] = j[3] /\ i[2] = i[3]
        BY JoinedRow DEF Once
      <3> QED BY <3>1
    <2> QED BY <2>1, <2>2 DEF Injection, IsInjective
  <1> HIDE DEF k, S
  <1>5. IsFiniteSet(S) BY <1>3, <1>4, FS_Injection
  <1> QED BY <1>5 DEF S

(* The joins of orders with themselves are the history, row by row. *)
LEMMA OnceIsHistory ==
  ASSUME IsFiniteSet(trades), TradesIn(trades, orders), NEW u, NEW a \in Assets
  PROVE  SumOver(Once(u), LAMBDA j : Worth(HistoryRow(j), a)) = EarnedBy(trades, orders, u, a)
  <1> DEFINE S == Once(u)
             H == HistoryOf(trades, orders, u)
             f == [j \in S |-> Worth(HistoryRow(j), a)]
             g == [row \in H |-> Worth(row, a)]
             h == [j \in S |-> HistoryRow(j)]
  <1>1. IsFiniteSet(S) BY OnceFinite
  <1>2. \A j \in S : f[j] \in Int /\ g[h[j]] = f[j]
    <2> TAKE j \in S
    <2>1. HistoryRow(j) \in H BY JoinedRow DEF Once
    <2>2. Worth(HistoryRow(j), a) \in Int BY <2>1, RowWorth
    <2> QED BY <2>1, <2>2
  <1>3. \A j, k \in S : h[j] = h[k] => j = k
    <2> SUFFICES ASSUME NEW j \in S, NEW k \in S, HistoryRow(j) = HistoryRow(k) PROVE j = k
      OBVIOUS
    <2>1. /\ j = <<j[1], j[2], j[3]>> /\ k = <<k[1], k[2], k[3]>> /\ j[2] = j[3] /\ k[2] = k[3]
          /\ j[1] \in trades /\ j[2] \in {j[1].maker, j[1].taker} /\ k[2] \in {k[1].maker, k[1].taker}
          /\ HistoryRow(j) = SideRow(j[1], j[2], orders)
          /\ HistoryRow(k) = SideRow(k[1], k[2], orders)
      BY JoinedRow DEF Once
    <2> DEFINE R(i) == SideRow(i[1], i[2], orders)
    <2>2. R(j).trade = j[1] /\ R(k).trade = k[1]
          /\ R(j).side = orders[j[2]].side /\ R(k).side = orders[k[2]].side
      BY DEF SideRow
    <2>3. R(j) = R(k) BY <2>1
    <2>4. j[1] = k[1] /\ orders[j[2]].side = orders[k[2]].side
      <3> HIDE DEF R
      <3> QED BY <2>2, <2>3
    <2>5. j[2] = k[2] BY <2>1, <2>4 DEF TradesIn
    <2> QED BY <2>1, <2>4, <2>5
  <1>4. {h[j] : j \in S} = H
    <2>1. \A j \in S : h[j] \in H BY JoinedRow DEF Once
    <2>2. ASSUME NEW row \in H PROVE \E j \in S : h[j] = row
      <3>1. PICK p \in SidesOf(trades, orders, u) : row = SideRow(p[1], p[2], orders)
        BY DEF HistoryOf
      <3> DEFINE j == <<p[1], p[2], p[2]>>
      <3>2. j \in S BY <3>1 DEF SidesOf, Once, Joined, OrdersOf
      <3>3. h[j] = row BY <3>1, <3>2, JoinedRow DEF Once
      <3> QED BY <3>2, <3>3
    <2> HIDE DEF H, S, h
    <2> QED BY <2>1, <2>2
  <1>5. /\ SumOver(S, LAMBDA j : Worth(HistoryRow(j), a)) = SumFunctionOnSet(f, S)
        /\ EarnedBy(trades, orders, u, a) = SumFunctionOnSet(g, H)
    BY DEF SumOver, EarnedBy
  <1> HIDE DEF S, H, f, g, h
  <1>6. SumFunctionOnSet(g, {h[j] : j \in S}) = SumFunctionOnSet(f, S)
    BY <1>1, <1>2, <1>3, SumImage
  <1> QED BY <1>4, <1>5, <1>6 DEF S

(* To a user who has both sides, a trade is worth only the fee that it costs. *)
LEMMA SelfTradeWorth ==
  ASSUME TradesIn(trades, orders), NEW u, NEW x \in SelfTrades(u), NEW a \in Assets
  PROVE  /\ Worth(SideRow(x, x.maker, orders), a) \in Int
         /\ Worth(SideRow(x, x.taker, orders), a) \in Int
         /\ FeePaid(x) \in Int
         /\ Worth(SideRow(x, x.maker, orders), a) + Worth(SideRow(x, x.taker, orders), a)
              = IF a = "quote" THEN 0 - FeePaid(x) ELSE 0
  <1>1. /\ x \in Trade /\ orders[x.maker].side \in Sides /\ orders[x.taker].side \in Sides
        /\ orders[x.maker].side # orders[x.taker].side
    BY DEF TradesIn, SelfTrades, Order
  <1>2. /\ x.amount \in Nat /\ x.quote \in Int /\ x.feeMaker \in Int /\ x.feeTaker \in Int
        /\ x.maker # x.taker
    BY <1>1 DEF Trade
  <1> QED BY <1>1, <1>2 DEF Worth, SideRow, HistoryFee, FeePaid, Sides, Assets

(* The sum over the joins of one side with the other is a sum over the trades. *)
LEMMA TwiceWorth ==
  ASSUME IsFiniteSet(trades), TradesIn(trades, orders), NEW u, NEW a \in Assets
  PROVE  /\ IsFiniteSet(MakerTwice(u)) /\ IsFiniteSet(TakerTwice(u))
         /\ SumOver(MakerTwice(u), LAMBDA j : Worth(HistoryRow(j), a))
              = SumOver(SelfTrades(u), LAMBDA x : Worth(SideRow(x, x.maker, orders), a))
         /\ SumOver(TakerTwice(u), LAMBDA j : Worth(HistoryRow(j), a))
              = SumOver(SelfTrades(u), LAMBDA x : Worth(SideRow(x, x.taker, orders), a))
  <1> DEFINE X == SelfTrades(u)
  <1>1. IsFiniteSet(X) BY FS_Subset DEF SelfTrades
  <1>2. /\ IsFiniteSet(MakerTwice(u))
        /\ SumOver(MakerTwice(u), LAMBDA j : Worth(HistoryRow(j), a))
             = SumOver(X, LAMBDA x : Worth(SideRow(x, x.maker, orders), a))
    <2> DEFINE S == MakerTwice(u)
               h == [x \in X |-> <<x, x.maker, x.taker>>]
               f == [x \in X |-> Worth(SideRow(x, x.maker, orders), a)]
               g == [j \in S |-> Worth(HistoryRow(j), a)]
    <2>1. {h[x] : x \in X} = S BY DEF MakerTwice
    <2>2. \A x \in X : f[x] \in Int BY SelfTradeWorth
    <2>3. \A x \in X : g[h[x]] = f[x] BY DEF HistoryRow, SideRow, MakerTwice
    <2>4. \A x, y \in X : h[x] = h[y] => x = y OBVIOUS
    <2>5. /\ SumOver(S, LAMBDA j : Worth(HistoryRow(j), a)) = SumFunctionOnSet(g, S)
          /\ SumOver(X, LAMBDA x : Worth(SideRow(x, x.maker, orders), a)) = SumFunctionOnSet(f, X)
      BY DEF SumOver
    <2> HIDE DEF S, f, g, h, X
    <2>6. SumFunctionOnSet(g, {h[x] : x \in X}) = SumFunctionOnSet(f, X)
      BY <1>1, <2>2, <2>3, <2>4, SumImage
    <2>7. IsFiniteSet({h[x] : x \in X}) BY <1>1, ImageFinite
    <2> QED BY <2>1, <2>5, <2>6, <2>7 DEF S
  <1>3. /\ IsFiniteSet(TakerTwice(u))
        /\ SumOver(TakerTwice(u), LAMBDA j : Worth(HistoryRow(j), a))
             = SumOver(X, LAMBDA x : Worth(SideRow(x, x.taker, orders), a))
    <2> DEFINE S == TakerTwice(u)
               h == [x \in X |-> <<x, x.taker, x.maker>>]
               f == [x \in X |-> Worth(SideRow(x, x.taker, orders), a)]
               g == [j \in S |-> Worth(HistoryRow(j), a)]
    <2>1. {h[x] : x \in X} = S BY DEF TakerTwice
    <2>2. \A x \in X : f[x] \in Int BY SelfTradeWorth
    <2>3. \A x \in X : g[h[x]] = f[x] BY DEF HistoryRow, SideRow, TakerTwice
    <2>4. \A x, y \in X : h[x] = h[y] => x = y OBVIOUS
    <2>5. /\ SumOver(S, LAMBDA j : Worth(HistoryRow(j), a)) = SumFunctionOnSet(g, S)
          /\ SumOver(X, LAMBDA x : Worth(SideRow(x, x.taker, orders), a)) = SumFunctionOnSet(f, X)
      BY DEF SumOver
    <2> HIDE DEF S, f, g, h, X
    <2>6. SumFunctionOnSet(g, {h[x] : x \in X}) = SumFunctionOnSet(f, X)
      BY <1>1, <2>2, <2>3, <2>4, SumImage
    <2>7. IsFiniteSet({h[x] : x \in X}) BY <1>1, ImageFinite
    <2> QED BY <2>1, <2>5, <2>6, <2>7 DEF S
  <1> QED BY <1>2, <1>3

(* Over its trades with itself, what both sides are worth and the fees cancel. *)
LEMMA SelfTradesCancel ==
  ASSUME IsFiniteSet(trades), TradesIn(trades, orders), NEW u, NEW a \in Assets
  PROVE  LET M == SumOver(SelfTrades(u), LAMBDA x : Worth(SideRow(x, x.maker, orders), a))
             T == SumOver(SelfTrades(u), LAMBDA x : Worth(SideRow(x, x.taker, orders), a))
             F == IF a = "quote" THEN SumOver(SelfTrades(u), FeePaid) ELSE 0
         IN  M \in Int /\ T \in Int /\ F \in Int /\ M + T + F = 0
  <1> DEFINE X == SelfTrades(u)
             m == [x \in X |-> Worth(SideRow(x, x.maker, orders), a)]
             t == [x \in X |-> Worth(SideRow(x, x.taker, orders), a)]
             c == [x \in X |-> FeePaid(x)]
             p == [x \in X |-> m[x] + t[x]]
             z == [x \in X |-> p[x] + c[x]]
  <1>1. IsFiniteSet(X) BY FS_Subset DEF SelfTrades
  <1>2. \A x \in X : m[x] \in Int /\ t[x] \in Int /\ c[x] \in Int /\ p[x] = m[x] + t[x]
                     /\ m[x] + t[x] = IF a = "quote" THEN 0 - c[x] ELSE 0
    BY SelfTradeWorth
  <1>3. \A x \in X : z[x] = p[x] + c[x] OBVIOUS
  <1>4. /\ SumOver(X, LAMBDA x : Worth(SideRow(x, x.maker, orders), a)) = SumFunctionOnSet(m, X)
        /\ SumOver(X, LAMBDA x : Worth(SideRow(x, x.taker, orders), a)) = SumFunctionOnSet(t, X)
        /\ SumOver(X, FeePaid) = SumFunctionOnSet(c, X)
    BY DEF SumOver
  <1> HIDE DEF X, m, t, c, p, z
  <1>5. SumFunctionOnSet(p, X) = SumFunctionOnSet(m, X) + SumFunctionOnSet(t, X)
    BY <1>1, <1>2, SumPlus
  <1>6. SumFunctionOnSet(m, X) \in Int /\ SumFunctionOnSet(t, X) \in Int /\ SumFunctionOnSet(c, X) \in Int
    BY <1>1, <1>2, SumType
  <1>7. CASE a = "quote"
    <2>1. \A x \in X : p[x] \in Int /\ c[x] \in Int /\ z[x] = 0 BY <1>2, <1>3, <1>7
    <2>2. SumFunctionOnSet(z, X) = SumFunctionOnSet(p, X) + SumFunctionOnSet(c, X)
      BY <1>1, <1>3, <2>1, SumPlus
    <2>3. SumFunctionOnSet(z, X) = 0 BY <1>1, <2>1, SumZero
    <2> QED BY <1>4, <1>5, <1>6, <1>7, <2>2, <2>3 DEF X
  <1>8. CASE a # "quote"
    <2>1. \A x \in X : p[x] = 0 BY <1>2, <1>8
    <2>2. SumFunctionOnSet(p, X) = 0 BY <1>1, <2>1, SumZero
    <2> QED BY <1>4, <1>5, <1>6, <1>8, <2>2 DEF X
  <1> QED BY <1>7, <1>8

(* All joins together: the history, and once more what the trades of the user with
   themself come to, which is their fees. *)
LEMMA JoinsWorth ==
  ASSUME IsFiniteSet(trades), TradesIn(trades, orders), NEW u, NEW a \in Assets
  PROVE  LET W == SumOver(Joined(u), LAMBDA j : Worth(HistoryRow(j), a))
             F == IF a = "quote" THEN SumOver(SelfTrades(u), FeePaid) ELSE 0
         IN  W \in Int /\ F \in Int /\ W + F = EarnedBy(trades, orders, u, a)
  <1> DEFINE S == Once(u)
             M == MakerTwice(u)
             T == TakerTwice(u)
             W(R) == SumOver(R, LAMBDA j : Worth(HistoryRow(j), a))
             f == [j \in Joined(u) |-> Worth(HistoryRow(j), a)]
  <1>1. \A x \in SelfTrades(u) :
          x \in trades /\ x.maker # x.taker /\ x.maker \in OrdersOf(u) /\ x.taker \in OrdersOf(u)
    BY DEF SelfTrades, TradesIn
  <1>2. Joined(u) = S \cup (M \cup T)
    <2>1. ASSUME NEW j \in Joined(u) PROVE j \in S \cup (M \cup T)
      <3>1. /\ j = <<j[1], j[2], j[3]>> /\ j[1] \in trades
            /\ {j[2], j[3]} \subseteq {j[1].maker, j[1].taker} /\ {j[2], j[3]} \subseteq OrdersOf(u)
        BY JoinedRow
      <3>2. CASE j[2] = j[3] BY <3>2 DEF Once
      <3>3. CASE j[2] # j[3]
        <4>1. {j[1].maker, j[1].taker} = {j[2], j[3]} BY <3>1, <3>3
        <4>2. j[1] \in SelfTrades(u) BY <3>1, <4>1 DEF SelfTrades
        <4>3. CASE j[2] = j[1].maker /\ j[3] = j[1].taker BY <3>1, <4>2, <4>3 DEF MakerTwice
        <4>4. CASE j[2] = j[1].taker /\ j[3] = j[1].maker BY <3>1, <4>2, <4>4 DEF TakerTwice
        <4> QED BY <3>1, <3>3, <4>3, <4>4
      <3> QED BY <3>2, <3>3
    <2>2. S \subseteq Joined(u) BY DEF Once
    <2>3. \A x \in SelfTrades(u) : <<x, x.maker, x.taker>> \in Joined(u) /\ <<x, x.taker, x.maker>> \in Joined(u)
      BY <1>1 DEF Joined
    <2>4. M \subseteq Joined(u) /\ T \subseteq Joined(u) BY <2>3 DEF MakerTwice, TakerTwice
    <2> HIDE DEF S, M, T
    <2> QED BY <2>1, <2>2, <2>4
  <1>3. S \cap (M \cup T) = {} /\ M \cap T = {}
    <2>1. \A j \in S : j[2] = j[3] BY DEF Once
    <2>2. \A j \in M : j[2] = j[1].maker /\ j[2] # j[3] BY <1>1 DEF MakerTwice
    <2>3. \A j \in T : j[3] = j[1].maker /\ j[2] # j[3] BY <1>1 DEF TakerTwice
    <2> HIDE DEF S, M, T
    <2> QED BY <2>1, <2>2, <2>3
  <1>4. IsFiniteSet(S) /\ IsFiniteSet(M) /\ IsFiniteSet(T) /\ IsFiniteSet(M \cup T)
    <2>1. IsFiniteSet(OrdersOf(u)) BY IdsFinite, FS_Subset DEF OrdersOf
    <2>2. IsFiniteSet(M) /\ IsFiniteSet(T) BY TwiceWorth
    <2>3. IsFiniteSet(S) BY OnceFinite
    <2> QED BY <2>2, <2>3, FS_Union
  <1>5. \A j \in Joined(u) : f[j] \in Int
    <2> TAKE j \in Joined(u)
    <2>1. HistoryRow(j) \in HistoryOf(trades, orders, u) BY JoinedRow
    <2> QED BY <2>1, RowWorth
  <1>6. W(Joined(u)) = SumFunctionOnSet(f, Joined(u)) BY DEF SumOver
  <1>7. ASSUME NEW R, R \subseteq Joined(u), IsFiniteSet(R) PROVE W(R) = SumFunctionOnSet(f, R)
    <2> DEFINE g == [j \in R |-> Worth(HistoryRow(j), a)]
    <2>1. W(R) = SumFunctionOnSet(g, R) BY DEF SumOver
    <2>2. \A j \in R : f[j] = g[j] BY <1>7
    <2> HIDE DEF f, g
    <2> QED BY <1>7, <2>1, <2>2, SumSame
  <1>8. W(S) = SumFunctionOnSet(f, S) /\ W(M) = SumFunctionOnSet(f, M) /\ W(T) = SumFunctionOnSet(f, T)
    <2> HIDE DEF W, f, S, M, T
    <2> QED BY <1>2, <1>4, <1>7
  <1>9. W(S) = EarnedBy(trades, orders, u, a) /\ EarnedBy(trades, orders, u, a) \in Int
    BY OnceIsHistory, EarnedInt
  <1>10. LET F == IF a = "quote" THEN SumOver(SelfTrades(u), FeePaid) ELSE 0
         IN  W(M) \in Int /\ W(T) \in Int /\ F \in Int /\ W(M) + W(T) + F = 0
    BY TwiceWorth, SelfTradesCancel
  <1> HIDE DEF S, M, T, W, f
  <1>11. SumFunctionOnSet(f, Joined(u))
           = SumFunctionOnSet(f, S) + (SumFunctionOnSet(f, M) + SumFunctionOnSet(f, T))
    <2> DEFINE N == M \cup T
    <2>1. \A j \in S \cup N : f[j] \in Int BY <1>2, <1>5
    <2>2. \A j \in M \cup T : f[j] \in Int BY <1>2, <1>5
    <2>3. SumFunctionOnSet(f, M \cup T) = SumFunctionOnSet(f, M) + SumFunctionOnSet(f, T)
      BY <1>3, <1>4, <2>2, SumUnion
    <2> HIDE DEF N
    <2>4. SumFunctionOnSet(f, S \cup N) = SumFunctionOnSet(f, S) + SumFunctionOnSet(f, N)
      BY <1>3, <1>4, <2>1, SumUnion DEF N
    <2> QED BY <1>2, <2>3, <2>4 DEF N
  <1>12. W(Joined(u)) = W(S) + (W(M) + W(T)) BY <1>6, <1>8, <1>11
  <1> DEFINE F == IF a = "quote" THEN SumOver(SelfTrades(u), FeePaid) ELSE 0
  <1>13. W(Joined(u)) \in Int /\ F \in Int /\ W(Joined(u)) + F = W(S)
    <2>1. W(M) \in Int /\ W(T) \in Int /\ F \in Int /\ W(M) + W(T) + F = 0 BY <1>10
    <2>2. W(S) \in Int BY <1>9
    <2> HIDE DEF F
    <2> QED BY <1>12, <2>1, <2>2
  <1> QED BY <1>9, <1>13 DEF W

(* What a user has of an asset, available and in orders, is what the user began with
   and what the entries of the history have changed, whenever the list is shorter than
   its limit: entry by entry, with the repetitions that the join makes of a trade with
   oneself, which count its fee once too often.  Trading makes and loses nothing but
   the sellers' fees. *)
THEOREM HistoryAccounts == Spec => []HistoryExplainsBalances
  <1>1. HInv => HistoryExplainsBalances
    <2> SUFFICES ASSUME HInv, NEW u \in Users, NEW limit \in HistoryLimits,
                        NEW list \in GetByUserId(u, limit),
                        Cardinality(DOMAIN list) < RowLimit(limit),
                        NEW a \in Assets, <<u, a>> \in WalletRows
                 PROVE  GetUserBalance(u)[a].balance + GetUserBalance(u)[a].inOrders
                          = OpeningFunds[<<u, a>>].balance
                              + SumOver(DOMAIN list, LAMBDA j : Worth(list[j], a))
                              + (IF a = "quote" THEN SumOver(SelfTrades(u), FeePaid) ELSE 0)
      BY DEF HistoryExplainsBalances
    <2> DEFINE F == IF a = "quote" THEN SumOver(SelfTrades(u), FeePaid) ELSE 0
               E == EarnedBy(trades, orders, u, a)
               W == SumOver(Joined(u), LAMBDA j : Worth(HistoryRow(j), a))
               opening == OpeningFunds[<<u, a>>].balance
    <2>1. DOMAIN list = Joined(u) /\ list = [j \in Joined(u) |-> HistoryRow(j)]
      <3>1. PICK S \in Listed(u, limit) : list = [j \in S |-> HistoryRow(j)] BY DEF GetByUserId
      <3>2. DOMAIN list = S BY <3>1
      <3>3. RowLimit(limit) \in Int BY TradeHistoryAssumption DEF RowLimit
      <3>4. Cardinality(S) # RowLimit(limit) BY <3>2, <3>3
      <3>5. S = Joined(u) BY <3>4 DEF Listed
      <3> QED BY <3>1, <3>5
    <2>2. SumOver(DOMAIN list, LAMBDA j : Worth(list[j], a)) = W
      <3>1. [j \in DOMAIN list |-> Worth(list[j], a)] = [j \in Joined(u) |-> Worth(HistoryRow(j), a)]
        BY <2>1
      <3> QED BY <2>1, <3>1 DEF SumOver
    <2>3. GetUserBalance(u)[a] = wallets[<<u, a>>] BY DEF GetUserBalance
    <2>4. IsFiniteSet(trades) /\ TradesIn(trades, orders) BY DEF HInv, LedgerOK
    <2>5. Total(wallets[<<u, a>>]) = opening + E BY DEF HInv, LedgerOK
    <2>6. W + F = E BY <2>4, JoinsWorth
    <2>7. opening \in Int
      BY ExchangeAssumption, OrderServiceAssumption DEF OpeningFunds
    <2>8. W \in Int /\ F \in Int BY <2>4, JoinsWorth
    <2> HIDE DEF F, E, W, opening
    <2>9. Total(wallets[<<u, a>>]) = opening + W + F BY <2>5, <2>6, <2>7, <2>8
    <2> QED BY <2>2, <2>3, <2>9 DEF Total, F, opening
  <1> QED BY <1>1, LedgerInvariance, PTL

-----------------------------------------------------------------------------
(* Funds that are locked have an order *)

(* What the orders of a wallet account for is an integer. *)
LEMMA BackedInt == HInv => \A u, a : BackedBy(u, a) \in Int
  <1> SUFFICES ASSUME HInv, NEW u, NEW a PROVE BackedBy(u, a) \in Int OBVIOUS
  <1>1. IsFiniteSet(trades) /\ trades \subseteq Trade /\ BookOK(orders)
    BY DEF HInv, LedgerOK, LInv, IInv, TradesIn
  <1> DEFINE f == LocksIn(trades, orders, <<u, a>>)
  <1>2. BackedBy(u, a) = SumFunctionOnSet(f, Ids) /\ \A i \in Ids : f[i] \in Int
    BY <1>1, LocksSum DEF BackedBy, SumOver, LocksOf, Placed
  <1> HIDE DEF f
  <1>3. SumFunctionOnSet(f, Ids) \in Int BY <1>2, IdsFinite, SumType
  <1> QED BY <1>2, <1>3

(* At the start nothing is locked and there are no orders. *)
LEMMA StartsBacked == Init => \A a \in Assets : LockedIsBacked(a)
  <1> SUFFICES ASSUME Init, NEW a \in Assets, NEW u \in Users, <<u, a>> \in WalletRows
               PROVE  wallets[<<u, a>>].inOrders = BackedBy(u, a)
    BY DEF LockedIsBacked
  <1>1. <<u, a>> \in Wallets BY ExchangeAssumption
  <1>2. wallets[<<u, a>>].inOrders = 0 BY <1>1 DEF Init, OpeningFunds
  <1>3. LocksOf(u, a) = {} BY DEF Init, NoOrders, LocksOf, Placed
  <1>4. BackedBy(u, a) = 0 BY <1>3, SumEmpty DEF BackedBy, SumOver
  <1> QED BY <1>2, <1>4

(* A step that leaves nothing behind keeps that. *)
LEMMA StaysBacked ==
  ASSUME HInv, NEW a \in Assets, [committed' # committed => FundsFollow]_vars,
         LockedIsBacked(a), \A u, b : BackedBy(u, b) \in Int, \A u, b : BackedBy(u, b)' \in Int,
         HInv', committed' # committed => \A u \in Users : LeftBehind(u, a) = 0
  PROVE  LockedIsBacked(a)'
  <1> SUFFICES ASSUME NEW u \in Users, <<u, a>> \in WalletRows
               PROVE  wallets'[<<u, a>>].inOrders = BackedBy(u, a)'
    BY DEF LockedIsBacked
  <1>1. wallets[<<u, a>>].inOrders = BackedBy(u, a) BY DEF LockedIsBacked
  <1>2. CASE UNCHANGED committed
    <2>1. UNCHANGED <<orders, wallets, trades>> BY <1>2 DEF committed
    <2>2. BackedBy(u, a)' = BackedBy(u, a)
      BY <2>1 DEF BackedBy, SumOver, LocksOf, Placed
    <2> QED BY <1>1, <2>1, <2>2
  <1>3. CASE committed' # committed
    <2>1. FundsFollow
      <3>1. ~ UNCHANGED vars BY <1>3 DEF vars, committed
      <3> QED BY <1>3, <3>1
    <2>2. wallets'[<<u, a>>].inOrders - wallets[<<u, a>>].inOrders
            = BackedBy(u, a)' - BackedBy(u, a) + LeftBehind(u, a)
      BY <2>1 DEF FundsFollow
    <2>3. LeftBehind(u, a) = 0 BY <1>3
    <2>4. BackedBy(u, a) \in Int /\ BackedBy(u, a)' \in Int OBVIOUS
    <2>5. wallets'[<<u, a>>].inOrders \in Int
      <3>1. <<u, a>> \in Wallets BY ExchangeAssumption
      <3> QED BY <3>1 DEF HInv, LInv, IInv, FundsOK, Wallet
    <2> QED BY <1>1, <2>2, <2>3, <2>4, <2>5
  <1> QED BY <1>2, <1>3

(* A sell's row accounts for its amount, not for its price. *)
LEMMA SellsLeaveNothing ==
  ASSUME HInv, NEW u PROVE LeftBehind(u, "base") = 0
  <1> DEFINE S == LocksOf(u, "base")
             f == [j \in S |-> Repricing(j)]
  <1>1. IsFiniteSet(S)
    <2>1. IsFiniteSet(Ids) BY IdsFinite
    <2>2. S \subseteq Ids BY DEF LocksOf, Placed
    <2> HIDE DEF S
    <2> QED BY <2>1, <2>2, FS_Subset
  <1>2. \A j \in S : f[j] = 0
    <2> TAKE j \in S
    <2>1. orders[j].side # "buy" BY DEF LocksOf, LockedAsset
    <2> QED BY <2>1 DEF Repricing
  <1>3. LeftBehind(u, "base") = SumFunctionOnSet(f, S) BY DEF LeftBehind, SumOver
  <1> HIDE DEF S, f
  <1> QED BY <1>1, <1>2, <1>3, SumZero

(* Whatever is placed, matched, canceled and amended, the base that is locked is what
   the sells that no cancel and no TIF has ended have not filled. *)
THEOREM SellersFundsAccount == Spec => []SellersFundsAreBacked
  <1>1. Init => SellersFundsAreBacked BY StartsBacked DEF SellersFundsAreBacked, Assets
  <1>2. /\ HInv /\ HInv' /\ SellersFundsAreBacked /\ [Next]_vars
        /\ (\A u, a : BackedBy(u, a) \in Int) /\ (\A u, a : BackedBy(u, a) \in Int)'
        => SellersFundsAreBacked'
    <2> SUFFICES ASSUME HInv, HInv', LockedIsBacked("base"), [Next]_vars,
                        \A u, a : BackedBy(u, a) \in Int, \A u, a : BackedBy(u, a)' \in Int
                 PROVE  LockedIsBacked("base")'
      BY DEF SellersFundsAreBacked
    <2>1. [committed' # committed => FundsFollow]_vars BY NextBalances
    <2>2. "base" \in Assets BY DEF Assets
    <2>3. \A u \in Users : LeftBehind(u, "base") = 0 BY SellsLeaveNothing
    <2> QED BY <2>1, <2>2, <2>3, StaysBacked
  <1> QED BY <1>1, <1>2, BackedInt, LedgerInvariance, PTL DEF Spec

-----------------------------------------------------------------------------
(* When no amend changes a price *)

AmendsKeepPrices == \A r \in AmendReqs : r.price = Null

(* Then no commit changes one. *)
LEMMA PricesAreKept ==
  ASSUME AmendsKeepPrices, HInv, LInv', NEW s \in Sessions, Arrive(s) \/ Step(s) \/ Rollback(s)
  PROVE  \A i \in Placed : orders'[i].price = orders[i].price
  <1> DEFINE t == tx[s]
  <1>1. CASE UNCHANGED orders BY <1>1
  <1>2. CASE PlaceFinish(s) BY <1>2, PlacePosts
  <1>3. CASE CancelFinish(s)
    <2>1. CASE OwnerMay(t)
      <3> DEFINE r == Canceled(t)
      <3>1. t.pc = "canceling" /\ Ready(s) /\ Commit(s, r) BY <1>3, <2>1 DEF CancelFinish, Canceled
      <3>2. r = Canceled(tx[s]) OBVIOUS
      <3> HIDE DEF r
      <3> QED BY <2>1, <3>1, <3>2, CancelPosts
    <2>2. CASE ~ OwnerMay(t) BY <1>1, <1>3, <2>2 DEF CancelFinish, Abandon
    <2> QED BY <2>1, <2>2
  <1>4. CASE AmendFinish(s)
    <2>1. CASE CanAmend(t) /\ AmendCovered(t)
      <3> DEFINE r == Amended(t)
      <3>1. t.pc = "amending" /\ Ready(s) /\ Commit(s, r) BY <1>4, <2>1 DEF AmendFinish
      <3>2. r = Amended(tx[s]) OBVIOUS
      <3> HIDE DEF r
      <3>3. t.id \in Placed /\ \A i \in Placed \ {t.id} : orders'[i] = orders[i]
        BY <2>1, <3>1, <3>2, AmendPosts
      <3>4. /\ t \in Tx /\ TxOK(t) /\ t.id \in Ids /\ t.rows = {t.id}
            /\ Taker(t) = orders[t.id] /\ orders[t.id] \in Order
        BY <2>1, <3>1, ChangedRow DEF HInv, CanAmend, OwnerMay
      <3>5. NewPrice(t) = orders[t.id].price
        <4>1. t.req \in AmendReqs BY <3>1, <3>4 DEF TxOK
        <4> QED BY <3>4, <4>1 DEF AmendsKeepPrices, NewPrice
      <3>6. r.rows = t.rows /\ r.view[t.id].price = NewPrice(t)
        <4>1. t.view \in [Ids -> Order \cup {Null}] BY <3>4 DEF Tx
        <4>2. r.view = [t.view EXCEPT ![t.id] = [Taker(t) EXCEPT !.price = NewPrice(t), !.amount = t.req.amount]]
              /\ r.rows = t.rows
          BY <3>2, <3>4 DEF Amended, Tx
        <4> QED BY <3>4, <4>1, <4>2 DEF Order
      <3>7. orders'[t.id] = r.view[t.id] BY <3>1, <3>4, <3>6 DEF Commit
      <3> QED BY <3>3, <3>5, <3>6, <3>7
    <2>2. CASE ~ (CanAmend(t) /\ AmendCovered(t)) BY <1>1, <1>4, <2>2 DEF AmendFinish, Abandon
    <2> QED BY <2>1, <2>2
  <1>5. CASE Arrive(s)
    <2>1. PICK pc, user, req, id : Begin(s, pc, user, req, id)
      BY <1>5 DEF Arrive, PlaceBegin, CancelBegin, AmendBegin
    <2> QED BY <1>1, <2>1 DEF Begin
  <1>6. CASE Rollback(s) \/ Fail(s) \/ PlaceRefuse(s)
    BY <1>1, <1>6 DEF Rollback, Fail, PlaceRefuse, Abandon
  <1>7. CASE PlaceLock(s) \/ MatchSelect(s) \/ MatchFill(s) \/ MatchNext(s)
    BY <1>1, <1>7 DEF PlaceLock, MatchSelect, MatchFill, MatchNext
  <1>8. CASE CancelLock(s) \/ AmendLock(s)
    BY <1>1, <1>8 DEF CancelLock, AmendLock, LockOrder, Abandon
  <1> QED BY <1>2, <1>3, <1>4, <1>5, <1>6, <1>7, <1>8 DEF Step

(* When no amend changes a price, every fund that is locked, base or quote, is what an
   order that no cancel and no TIF has ended has not filled, or what a market buy has not
   spent. *)
THEOREM EveryLockIsBacked ==
  ASSUME AmendsKeepPrices PROVE Spec => [](\A a \in Assets : LockedIsBacked(a))
  <1> DEFINE Inv == \A a \in Assets : LockedIsBacked(a)
  <1>1. Init => Inv BY StartsBacked
  <1>2. /\ HInv /\ HInv' /\ Inv /\ [Next]_vars
        /\ (\A u, a : BackedBy(u, a) \in Int) /\ (\A u, a : BackedBy(u, a) \in Int)'
        => Inv'
    <2> SUFFICES ASSUME HInv, HInv', Inv, [Next]_vars, NEW a \in Assets,
                        \A u, b : BackedBy(u, b) \in Int, \A u, b : BackedBy(u, b)' \in Int
                 PROVE  LockedIsBacked(a)'
      OBVIOUS
    <2>1. [committed' # committed => FundsFollow]_vars BY NextBalances
    <2>2. committed' # committed => \A u \in Users : LeftBehind(u, a) = 0
      <3> SUFFICES ASSUME committed' # committed, NEW u \in Users PROVE LeftBehind(u, a) = 0
        OBVIOUS
      <3>1. PICK s \in Sessions : Arrive(s) \/ Step(s) \/ Rollback(s)
        BY DEF Next, vars, committed
      <3>2. \A i \in Placed : orders'[i].price = orders[i].price
        BY <3>1, PricesAreKept DEF HInv
      <3>3. \A i \in Placed : Repricing(i) = 0 BY <3>2, SamePrice
      <3>4. LeftBehind(u, a) = IF Null \in LocksOf(u, a) THEN 0 ELSE 0
        BY <3>3, RepricingSum
      <3> QED BY <3>4
    <2> QED BY <2>1, <2>2, StaysBacked
  <1> HIDE DEF Inv
  <1>3. Spec => []Inv BY <1>1, <1>2, BackedInt, LedgerInvariance, PTL DEF Spec
  <1> QED BY <1>3 DEF Inv

-----------------------------------------------------------------------------
(* Debits that nobody checks *)

(* In one of these trades u sells at a price below zero. *)
SoldBelowZero(ts, b, u) ==
  \E x \in ts : x.price < 0 /\ \E i \in {x.maker, x.taker} : b[i].user = u /\ b[i].side = "sell"

(* What the end of order o takes back: a buy at a negative price has been credited what it
   has not filled yet. *)
Owed(o) ==
  IF o.side = "buy" /\ o.type = "limit" /\ o.price < 0
  THEN 0 - Cost(o.price, o.amount - o.filled) ELSE 0

OwedBy(t, q) == IF LockRow(Taker(t)) = q THEN Owed(Taker(t)) ELSE 0

(* What a transaction that is matching has in the wallets that it holds is not below zero,
   or not below what is committed, even if the taker ends now; except where its user has
   sold at a negative price. *)
CoveredOK(t, c) ==
  Matching(t) => \A u \in Users, a \in Assets : <<u, a>> \in t.purse =>
    \/ a = "quote" /\ SoldBelowZero(t.fills, t.view, u)
    \/ t.funds[<<u, a>>].balance >= OwedBy(t, <<u, a>>)
    \/ t.funds[<<u, a>>].balance >= c[<<u, a>>].balance + OwedBy(t, <<u, a>>)

CInv == HInv /\ \A s \in Sessions : CoveredOK(tx[s], wallets)

(* What OnlyNegativePricesOverdraw says of a step. *)
DebitsChecked ==
  \A u \in Users, a \in Assets :
    wallets'[<<u, a>>].balance < 0 =>
      \/ wallets'[<<u, a>>].balance >= wallets[<<u, a>>].balance
      \/ a = "quote" /\ (SellsBelowZero(u) \/ CancelsBelowZero(u))

(* A cost has the sign of its price. *)
LEMMA CostSign ==
  ASSUME NEW p \in Int, NEW a \in Nat
  PROVE  /\ Cost(p, a) \in Int
         /\ p >= 0 => Cost(p, a) >= 0
         /\ p < 0  => Cost(p, a) <= 0
  <1>1. Cost(p, a) \in Int BY CostInt
  <1>2. ASSUME p >= 0 PROVE Cost(p, a) >= 0
    <2>1. p \in Nat BY <1>2
    <2> QED BY <2>1, CostNat
  <1>3. ASSUME p < 0 PROVE Cost(p, a) <= 0
    <2>1. 0 - p \in Nat BY <1>3
    <2>2. (0 - p) * a \in Nat BY <2>1
    <2>3. (0 - p) * a = 0 - p * a /\ p * a \in Int BY ProductInt
    <2> QED BY <2>2, <2>3 DEF Cost
  <1> QED BY <1>1, <1>2, <1>3

(* A cost grows with its price. *)
LEMMA CostGrows ==
  ASSUME NEW p \in Int, NEW q \in Int, p <= q, NEW a \in Nat
  PROVE  Cost(p, a) <= Cost(q, a)
  <1>1. q - p \in Nat OBVIOUS
  <1>2. (q - p) * a \in Nat BY <1>1
  <1>3. (q - p) * a = q * a - p * a /\ p * a \in Int /\ q * a \in Int BY ProductInt
  <1> QED BY <1>2, <1>3 DEF Cost

(* What an order takes back is not negative, and is all that is below zero in what a live
   order accounts for. *)
LEMMA OwedNat ==
  ASSUME NEW o, OrderOK(o)
  PROVE  /\ Owed(o) \in Int /\ Owed(o) >= 0
         /\ ~ IsMarketBuy(o) /\ o.status \notin {"canceled", "rejected"} =>
              \A ts, i : /\ LockedFor(ts, i, o) \in Int
                         /\ LockedFor(ts, i, o) >= 0 - Owed(o)
  <1>1. /\ o \in Order /\ o.side \in Sides /\ o.type \in Types
        /\ o.type = "limit" => o.price \in Int
        /\ ~ IsMarketBuy(o) => o.amount - o.filled \in Nat
    BY DEF OrderOK, Order, Prices
  <1>2. o.type = "limit" => ~ IsMarketBuy(o) BY DEF IsMarketBuy
  <1>3. o.type = "limit" =>
          /\ Cost(o.price, o.amount - o.filled) \in Int
          /\ o.price >= 0 => Cost(o.price, o.amount - o.filled) >= 0
          /\ o.price < 0  => Cost(o.price, o.amount - o.filled) <= 0
    BY <1>1, <1>2, CostSign
  <1>4. Owed(o) \in Int /\ Owed(o) >= 0 BY <1>3 DEF Owed
  <1>5. ASSUME ~ IsMarketBuy(o), o.status \notin {"canceled", "rejected"}, NEW ts, NEW i
        PROVE  LockedFor(ts, i, o) \in Int /\ LockedFor(ts, i, o) >= 0 - Owed(o)
    <2>1. LockedFor(ts, i, o) = IF o.side = "sell" THEN o.amount - o.filled
                                                   ELSE Cost(o.price, o.amount - o.filled)
      BY <1>5 DEF LockedFor
    <2>2. CASE o.side = "sell" BY <1>1, <1>4, <1>5, <2>1, <2>2
    <2>3. CASE o.side = "buy"
      <3>1. o.type = "limit" BY <1>1, <1>5, <2>3 DEF IsMarketBuy, Types
      <3> QED BY <1>1, <1>3, <2>1, <2>3, <3>1 DEF Owed
    <2> QED BY <1>1, <2>2, <2>3 DEF Sides
  <1> QED BY <1>4, <1>5

(* An order that is filled more takes less back. *)
LEMMA OwedShrinks ==
  ASSUME NEW o, OrderOK(o), NEW n, OrderOK(n), NEW k \in Nat,
         n.side = o.side, n.type = o.type, n.price = o.price, n.amount = o.amount,
         n.filled = o.filled + k
  PROVE  Owed(n) <= Owed(o)
  <1>1. Owed(o) \in Int /\ Owed(n) \in Int BY OwedNat
  <1>2. CASE o.side = "buy" /\ o.type = "limit" /\ o.price < 0
    <2> DEFINE p == o.price
               x == o.amount - o.filled
    <2>1. /\ p \in Int /\ x \in Int /\ n.amount - n.filled = x - k
      BY <1>2 DEF OrderOK, Order, Prices, IsMarketBuy
    <2>2. Owed(o) = 0 - Cost(p, x) /\ Owed(n) = 0 - Cost(p, x - k)
      BY <1>2, <2>1 DEF Owed
    <2>3. p < 0 BY <1>2
    <2> HIDE DEF p, x
    <2>4. k \in Int OBVIOUS
    <2>5. Cost(p, x - k) = Cost(p, x) - Cost(p, k) BY <2>1, <2>4, CostMinus
    <2>6. Cost(p, k) \in Int /\ Cost(p, k) <= 0 BY <2>1, <2>3, CostSign
    <2>7. Cost(p, x) \in Int BY <2>1, ProductInt DEF Cost
    <2> QED BY <2>2, <2>5, <2>6, <2>7
  <1>3. CASE ~ (o.side = "buy" /\ o.type = "limit" /\ o.price < 0)
    <2>1. Owed(o) = 0 /\ Owed(n) = 0 BY <1>3 DEF Owed
    <2> QED BY <2>1
  <1> QED BY <1>2, <1>3

(* settle takes from an available balance only what a seller pays at a negative price. *)
LEMMA SettleCredits ==
  ASSUME NEW w, FundsOK(w), NEW maker, NEW taker, OrderOK(maker), OrderOK(taker),
         maker.type = "limit", maker.side = Opposite(taker.side),
         taker.type = "market" \/ Accepts(taker.side, taker.price, maker.price),
         NEW amount \in Nat, NEW x, x.maker # x.taker, x.amount = amount,
         x.quote = Cost(maker.price, amount), x.feeMaker = FeeMaker(maker.price, amount),
         x.feeTaker = FeeTaker(maker.price, amount),
         NEW b, b[x.maker] = maker, b[x.taker] = taker,
         NEW u \in Users, NEW a \in Assets, <<u, a>> \in WalletRows
  PROVE  LET row == Settle(w, maker, taker, maker.price, amount)[<<u, a>>]
         IN  \/ row.balance >= w[<<u, a>>].balance
             \/ /\ a = "quote" /\ maker.price < 0
                /\ \E o \in {maker, taker} : o.user = u /\ o.side = "sell"
  <1> DEFINE price  == maker.price
             cost   == Cost(price, amount)
             feeM   == FeeMaker(price, amount)
             feeT   == FeeTaker(price, amount)
             q      == <<u, a>>
             funds  == Settle(w, maker, taker, price, amount)
             wm     == SideWorth(x, x.maker, b, u, a)
             wt     == SideWorth(x, x.taker, b, u, a)
             um     == IF LockRow(maker) = q THEN Unlocks(maker, price, amount) ELSE 0
             ut     == IF LockRow(taker) = q THEN Unlocks(taker, price, amount) ELSE 0
  <1>1. /\ price \in Int /\ maker.user \in Users /\ taker.user \in Users
        /\ taker.side \in Sides /\ maker.side \in Sides /\ maker.side # taker.side
        /\ taker.type \in Types
        /\ taker.type = "limit" => taker.price \in Int
        /\ q \in Wallets
    BY ExchangeAssumption DEF OrderOK, Order, Prices, Opposite, Sides, Wallets
  <1>2. /\ cost \in Int /\ feeM \in Int /\ feeT \in Int
        /\ price >= 0 => cost - feeM >= 0 /\ cost - feeT >= 0
    <2>1. cost \in Int /\ feeM \in Int /\ feeT \in Int BY <1>1, CostInt
    <2>2. ASSUME price >= 0 PROVE cost - feeM >= 0 /\ cost - feeT >= 0
      <3> DEFINE p == price
      <3>1. p \in Nat BY <1>1, <2>2
      <3> HIDE DEF p
      <3>2. /\ Cost(p, amount) \in Int /\ FeeMaker(p, amount) \in Int /\ FeeTaker(p, amount) \in Int
            /\ Cost(p, amount) - FeeMaker(p, amount) \in Nat
            /\ Cost(p, amount) - FeeTaker(p, amount) \in Nat
        <4>1. p \in Int BY <3>1
        <4> QED BY <3>1, <4>1, CostNat, CostInt
      <3>3. /\ Cost(p, amount) - FeeMaker(p, amount) >= 0
            /\ Cost(p, amount) - FeeTaker(p, amount) >= 0
        BY <3>2
      <3> QED BY <3>3 DEF p
    <2> QED BY <2>1, <2>2
  <1>3. /\ Total(funds[q]) = Total(w[q]) + wm + wt
        /\ funds[q].inOrders = w[q].inOrders - um - ut
    BY SettleRow
  <1>4. /\ wm = IF maker.user # u THEN 0
                ELSE IF maker.side = "buy" THEN IF a = "base" THEN amount ELSE 0 - cost
                                           ELSE IF a = "base" THEN 0 - amount ELSE cost - feeM
        /\ wt = IF taker.user # u THEN 0
                ELSE IF taker.side = "buy" THEN IF a = "base" THEN amount ELSE 0 - cost
                                           ELSE IF a = "base" THEN 0 - amount ELSE cost - feeT
    BY <1>1 DEF SideWorth, SideRow, HistoryFee, Worth, Assets, Sides
  <1>5. funds \in [Wallets -> Wallet] BY SettleOK DEF FundsOK
  <1>6. /\ funds[q].balance \in Int /\ funds[q].inOrders \in Int
        /\ w[q].balance \in Int /\ w[q].inOrders \in Int
    BY <1>1, <1>5 DEF FundsOK, Wallet
  <1>7. um = IF maker.user = u /\ a = LockedAsset(maker.side)
             THEN IF maker.side = "sell" THEN amount ELSE cost ELSE 0
    BY DEF LockRow, Unlocks
  <1>8. \E locked \in Int : locked >= cost /\ ut = IF taker.user = u /\ a = LockedAsset(taker.side)
             THEN IF taker.side = "sell" THEN amount ELSE locked ELSE 0
    <2>1. CASE taker.side = "buy" /\ taker.type = "limit"
      <3>1. taker.price \in Int /\ price <= taker.price
        <4>1. Accepts(taker.side, taker.price, price) BY <2>1
        <4>0. price \in Int /\ taker.price \in Int BY <1>1, <2>1
        <4> HIDE DEF price
        <4>2. price <= taker.price BY ONLY <2>1, <4>0, <4>1 DEF Accepts
        <4> QED BY ONLY <4>0, <4>2
      <3>2. Cost(taker.price, amount) \in Int /\ Cost(taker.price, amount) >= cost
        <4> DEFINE limit == taker.price
        <4>1. limit \in Int /\ price \in Int /\ price <= limit BY <1>1, <3>1
        <4> HIDE DEF price, limit
        <4>2. Cost(price, amount) <= Cost(limit, amount) BY <4>1, CostGrows
        <4>3. Cost(price, amount) \in Int /\ Cost(limit, amount) \in Int BY <4>1, CostSign
        <4>4. Cost(limit, amount) >= Cost(price, amount) BY <4>2, <4>3
        <4> QED BY <4>3, <4>4 DEF limit
      <3> QED BY <2>1, <3>2 DEF LockRow, Unlocks
    <2>2. CASE ~ (taker.side = "buy" /\ taker.type = "limit")
      <3>1. cost \in Int /\ cost >= cost BY <1>2
      <3>2. ut = IF taker.user = u /\ a = LockedAsset(taker.side)
                 THEN IF taker.side = "sell" THEN amount ELSE cost ELSE 0
        <4>0. LockRow(taker) = q <=> taker.user = u /\ a = LockedAsset(taker.side)
          BY ONLY DEF LockRow
        <4>1. CASE taker.side = "sell"
          <5>1. Unlocks(taker, price, amount) = amount BY <4>1 DEF Unlocks
          <5> HIDE DEF q, price
          <5> QED BY <4>0, <4>1, <5>1
        <4>2. CASE taker.side # "sell"
          <5>1. taker.type = "market" BY <1>1, <2>2, <4>2 DEF Sides, Types
          <5>2. Unlocks(taker, price, amount) = cost BY <4>2, <5>1 DEF Unlocks
          <5> HIDE DEF q, price, cost
          <5> QED BY <4>0, <4>2, <5>2
        <4> QED BY <4>1, <4>2
      <3> HIDE DEF cost, ut
      <3> QED BY <3>1, <3>2
    <2> QED BY <2>1, <2>2
  <1>9. PICK locked \in Int : locked >= cost /\ ut = IF taker.user = u /\ a = LockedAsset(taker.side)
             THEN IF taker.side = "sell" THEN amount ELSE locked ELSE 0
    BY <1>8
  <1>10. LockedAsset("buy") = "quote" /\ LockedAsset("sell") = "base" BY DEF LockedAsset
  <1>11. wm \in Int /\ wt \in Int /\ um \in Int /\ ut \in Int
    BY <1>2, <1>4, <1>7, <1>9
  <1> DEFINE gain == (wm + um) + (wt + ut)
  <1>12. funds[q].balance = w[q].balance + gain
    <2> DEFINE now == funds[q]
               old == w[q]
    <2>1. /\ now.balance + now.inOrders = old.balance + old.inOrders + wm + wt
          /\ now.inOrders = old.inOrders - um - ut
      BY <1>3 DEF Total
    <2>2. now.balance \in Int /\ now.inOrders \in Int /\ old.balance \in Int /\ old.inOrders \in Int
      BY <1>6
    <2> HIDE DEF now, old, wm, wt, um, ut
    <2> DEFINE e == wm + wt
               f == um + ut
    <2>4. e \in Int /\ f \in Int /\ (wm + um) + (wt + ut) = e + f BY ONLY <1>11
    <2>5. now.inOrders = old.inOrders - f BY ONLY <1>11, <2>1, <2>2
    <2>6. now.balance + now.inOrders = (old.balance + old.inOrders) + e BY ONLY <1>11, <2>1, <2>2
    <2> HIDE DEF e, f
    <2>7. now.balance = old.balance + (e + f) BY ONLY <2>2, <2>4, <2>5, <2>6
    <2>3. now.balance = old.balance + ((wm + um) + (wt + ut)) BY <2>4, <2>7
    <2> QED BY <2>3 DEF now, old
  <1> HIDE DEF wm, wt, um, ut, cost, feeM, feeT, funds
  <1>13. gain \in Int BY <1>11
  <1>14. \/ gain >= 0
         \/ /\ a = "quote" /\ price < 0
            /\ \E o \in {maker, taker} : o.user = u /\ o.side = "sell"
    <2>1. CASE a = "base"
      <3>1. wm + um >= 0
        <4>1. CASE maker.side = "buy" BY <1>4, <1>7, <1>10, <2>1, <4>1
        <4>2. CASE maker.side = "sell" BY <1>4, <1>7, <1>10, <2>1, <4>2
        <4> QED BY <1>1, <4>1, <4>2 DEF Sides
      <3>2. wt + ut >= 0
        <4>1. CASE taker.side = "buy"
          <5>1. ut = 0 BY <1>9, <1>10, <2>1, <4>1
          <5>2. wt = IF taker.user # u THEN 0 ELSE amount BY <1>4, <2>1, <4>1
          <5> QED BY <5>1, <5>2
        <4>2. CASE taker.side = "sell" BY <1>4, <1>9, <1>10, <2>1, <4>2
        <4> QED BY <1>1, <4>1, <4>2 DEF Sides
      <3> QED BY <1>11, <3>1, <3>2
    <2>2. CASE a = "quote"
      <3>1. maker.side = "buy" => wm + um >= 0 BY <1>2, <1>4, <1>7, <1>10, <2>2
      <3>2. taker.side = "buy" => wt + ut >= 0 BY <1>2, <1>4, <1>9, <1>10, <2>2
      <3>3. maker.side = "sell" =>
              \/ wm + um >= 0
              \/ price < 0 /\ maker.user = u
        BY <1>1, <1>2, <1>4, <1>7, <1>10, <2>2
      <3>4. taker.side = "sell" =>
              \/ wt + ut >= 0
              \/ price < 0 /\ taker.user = u
        BY <1>1, <1>2, <1>4, <1>9, <1>10, <2>2
      <3> HIDE DEF price
      <3>5. wm + um >= 0 \/ (price < 0 /\ maker.user = u /\ maker.side = "sell")
        BY <1>1, <3>1, <3>3 DEF Sides
      <3>6. wt + ut >= 0 \/ (price < 0 /\ taker.user = u /\ taker.side = "sell")
        BY <1>1, <3>2, <3>4 DEF Sides
      <3> QED BY <1>11, <2>2, <3>5, <3>6
    <2> QED BY <2>1, <2>2 DEF Assets
  <1> HIDE DEF gain
  <1>15. gain >= 0 => funds[q].balance >= w[q].balance BY <1>6, <1>12, <1>13
  <1> QED BY <1>14, <1>15 DEF funds

-----------------------------------------------------------------------------
(* What a session that goes on or commits leaves covered *)

(* A transaction that changes no wallet leaves everything covered. *)
LEMMA MoveCovers ==
  ASSUME CInv, HInv', NEW s \in Sessions, NEW t, Become(s, t), wallets' = wallets,
         CoveredOK(t, wallets)
  PROVE  CInv' /\ DebitsChecked
  <1>1. tx' = [tx EXCEPT ![s] = t] /\ tx \in [Sessions -> Tx]
    BY DEF Become, CInv, HInv, LInv, IInv
  <1>2. tx'[s] = t /\ \A u \in Sessions \ {s} : tx'[u] = tx[u] BY <1>1
  <1> HIDE DEF CoveredOK
  <1>3. \A u \in Sessions : CoveredOK(tx'[u], wallets)
    <2> TAKE u \in Sessions
    <2>1. CASE u = s BY <1>2, <2>1
    <2>2. CASE u # s BY <1>2, <2>2 DEF CInv
    <2> QED BY <2>1, <2>2
  <1>4. ASSUME NEW u \in Users, NEW a \in Assets
        PROVE  wallets'[<<u, a>>].balance >= wallets[<<u, a>>].balance
    <2>1. wallets[<<u, a>>].balance \in Int
      BY DEF CInv, HInv, LInv, IInv, FundsOK, Wallets, Wallet
    <2> QED BY <2>1
  <1>5. \A u \in Sessions : CoveredOK(tx'[u], wallets') BY <1>3
  <1>6. CInv' BY <1>5 DEF CInv, CoveredOK, Matching, SoldBelowZero, OwedBy, Taker
  <1>7. DebitsChecked BY <1>4 DEF DebitsChecked
  <1> QED BY <1>6, <1>7

(* So does one that is given up. *)
LEMMA GiveUpCovers ==
  ASSUME CInv, HInv', NEW s \in Sessions, Abandon(s)
  PROVE  CInv' /\ DebitsChecked
  <1>1. CoveredOK(IdleTx, wallets) BY DEF CoveredOK, Matching, IdleTx
  <1> QED BY <1>1, MoveCovers DEF Abandon

(* And one whose wallets, trades and new order are what they were. *)
LEMMA CoversMoved ==
  ASSUME NEW t, NEW r, NEW c, CoveredOK(t, c), Matching(t),
         r.id = t.id, r.view = t.view, r.fills = t.fills, r.funds = t.funds, r.purse = t.purse
  PROVE  CoveredOK(r, c)
  BY DEF CoveredOK, OwedBy, Taker

(* A commit covers what the other transactions hold as it was. *)
LEMMA CommitCovers ==
  ASSUME CInv, HInv', NEW s \in Sessions, NEW r, Commit(s, r),
         \A u \in Sessions \ {s} : r.purse \cap tx[u].purse = {}
  PROVE  CInv'
  <1>1. tx' = [tx EXCEPT ![s] = IdleTx] /\ tx \in [Sessions -> Tx]
    BY DEF Commit, Become, CInv, HInv, LInv, IInv
  <1>2. tx'[s] = IdleTx /\ \A u \in Sessions \ {s} : tx'[u] = tx[u] BY <1>1
  <1>3. CoveredOK(IdleTx, wallets') BY DEF CoveredOK, Matching, IdleTx
  <1>4. ASSUME NEW u \in Sessions \ {s} PROVE CoveredOK(tx[u], wallets')
    <2>1. CoveredOK(tx[u], wallets) BY DEF CInv
    <2>2. \A w \in tx[u].purse : wallets'[w] = wallets[w]
      <3>1. tx[u] \in Tx BY <1>1
      <3> QED BY <3>1 DEF Commit, Tx
    <2> QED BY <2>1, <2>2 DEF CoveredOK
  <1> HIDE DEF CoveredOK
  <1>5. \A u \in Sessions : CoveredOK(tx'[u], wallets') BY <1>2, <1>3, <1>4
  <1> QED BY <1>5 DEF CInv

-----------------------------------------------------------------------------
(* The steps *)

(* A new order is covered by what lockFunds has seen; one at a negative price has been
   credited what it takes back. *)
LEMMA PlaceLockCovers ==
  ASSUME CInv, LInv', HInv', NEW s \in Sessions, PlaceLock(s)
  PROVE  CInv' /\ DebitsChecked
  <1> DEFINE t    == tx[s]
             r    == LockAndInsert(t)
             o    == Taker(r)
             cost == LockCost(t.req)
             q    == LockRow(o)
  <1>1. /\ Become(s, r) /\ OrderOK(o) /\ ReqOK(t.req) /\ o = NewOrder(t.user, t.req)
        /\ r.purse = {q} /\ q \in WalletRows /\ cost \in Int
        /\ r.funds[q].balance = wallets[q].balance - cost
        /\ wallets[q].balance >= cost
    BY PlaceLockBooks DEF CInv
  <1>2. wallets' = wallets BY DEF PlaceLock
  <1>3. wallets[q].balance \in Int
    <2>1. q \in Wallets BY <1>1, ExchangeAssumption
    <2>2. wallets \in [Wallets -> Wallet] BY DEF CInv, HInv, LInv, IInv, FundsOK
    <2> QED BY <2>1, <2>2 DEF Wallet
  <1>4. LockedFor({}, t.id, o) = cost
    <2>1. OrderOK(NewOrder(t.user, t.req)) BY <1>1
    <2> HIDE DEF o
    <2> QED BY <1>1, <2>1, InsertLocks
  <1>5. Owed(o) \in Int /\ Owed(o) >= 0 /\ (Owed(o) # 0 => Owed(o) = 0 - cost)
    <2>1. o.status = "open" BY <1>1 DEF NewOrder
    <2> HIDE DEF o, cost
    <2>2. Owed(o) \in Int /\ Owed(o) >= 0 BY <1>1, OwedNat
    <2>3. ASSUME Owed(o) # 0 PROVE Owed(o) = 0 - cost
      <3>1. o.side = "buy" /\ o.type = "limit" /\ Owed(o) = 0 - Cost(o.price, o.amount - o.filled)
        BY <2>3 DEF Owed
      <3>2. LockedFor({}, t.id, o) = Cost(o.price, o.amount - o.filled)
        BY <2>1, <3>1 DEF LockedFor, IsMarketBuy
      <3> QED BY <1>4, <3>1, <3>2
    <2> QED BY <2>2, <2>3
  <1> DEFINE now == r.funds[q].balance
             old == wallets[q].balance
             k   == Owed(o)
  <1>6. now >= k \/ now >= old + k
    <2>1. now = old - cost /\ old >= cost /\ old \in Int /\ cost \in Int BY <1>1, <1>3
    <2>2. k \in Int /\ (k # 0 => k = 0 - cost) BY <1>5
    <2> HIDE DEF now, old, k, cost
    <2> QED BY ONLY <2>1, <2>2
  <1>7. CoveredOK(r, wallets)
    <2> SUFFICES ASSUME NEW u \in Users, NEW a \in Assets, <<u, a>> \in r.purse
                 PROVE  \/ r.funds[<<u, a>>].balance >= OwedBy(r, <<u, a>>)
                        \/ r.funds[<<u, a>>].balance >= wallets[<<u, a>>].balance + OwedBy(r, <<u, a>>)
      BY DEF CoveredOK
    <2>1. <<u, a>> = q BY <1>1
    <2>2. OwedBy(r, q) = k BY DEF OwedBy
    <2> HIDE DEF q, k, r
    <2> QED BY <1>6, <2>1, <2>2
  <1> HIDE DEF r
  <1> QED BY <1>1, <1>2, <1>7, MoveCovers

(* The end of a new order takes from its wallet no more than it owes. *)
LEMMA EndPays ==
  ASSUME NEW t, TxOK(t), t.pc = "finish", ArrivingOK(t), LockRow(Taker(t)) \in t.purse,
         LockRow(Taker(t)) \in WalletRows, IsFiniteSet(t.fills), NEW q \in WalletRows
  PROVE  /\ ApplyTIF(t).funds[q].balance >= t.funds[q].balance - OwedBy(t, q)
         /\ ApplyTIF(t).funds[q].balance \in Int /\ t.funds[q].balance \in Int
         /\ OwedBy(t, q) \in Int
  <1> DEFINE o == Taker(t)
             r == ApplyTIF(t)
             n == r.view[t.id]
             left == LockedFor(t.fills, t.id, o)
             rest == LockedFor(t.fills, t.id, n)
             d == IF LockRow(o) = q THEN rest - left ELSE 0
             k == OwedBy(t, q)
  <1>1. /\ t \in Tx /\ t.id \in Ids /\ OrderOK(o) /\ o \in Order
        /\ o.status \notin {"canceled", "rejected"} /\ t.fills \subseteq Trade
    BY DEF TxOK, TakerOK, BookOK, Taker, OrderOK, ArrivingOK, Tx
  <1>2. PICK status \in {o.status, "canceled", "rejected"} : n = [o EXCEPT !.status = status]
    BY EndsWrites
  <1>3. /\ Total(r.funds[q]) = Total(t.funds[q])
        /\ r.funds[q].inOrders = t.funds[q].inOrders + d
    BY EndBooks
  <1>4. r.funds \in [Wallets -> Wallet] /\ t.funds \in [Wallets -> Wallet] /\ q \in Wallets
    BY <1>1, FinishOK, ExchangeAssumption DEF Committable, Tx
  <1>5. /\ n.side = o.side /\ n.type = o.type /\ n.qmax = o.qmax /\ n.status = status
        /\ status = o.status => n = o
    BY <1>1, <1>2 DEF Order
  <1> HIDE DEF r, n
  <1>6. left \in Int BY <1>1, LockedInt
  <1>7. Owed(o) \in Int /\ Owed(o) >= 0 BY <1>1, OwedNat
  <1>8. rest - left \in Int /\ rest - left <= Owed(o)
    <2>1. CASE status = o.status
      <3>1. rest = left BY <1>5, <2>1
      <3> HIDE DEF rest, left
      <3> QED BY <1>6, <1>7, <3>1
    <2>2. CASE IsMarketBuy(o)
      <3>1. IsMarketBuy(n) BY <1>5, <2>2 DEF IsMarketBuy
      <3>2. rest = n.qmax - QuoteSpent(t.fills, t.id) BY <3>1 DEF LockedFor
      <3>3. left = o.qmax - QuoteSpent(t.fills, t.id) BY <2>2 DEF LockedFor
      <3>4. rest = left BY <1>5, <3>2, <3>3
      <3> HIDE DEF rest, left
      <3> QED BY <1>6, <1>7, <3>4
    <2>3. CASE status # o.status /\ ~ IsMarketBuy(o)
      <3>1. ~ IsMarketBuy(n) BY <1>5, <2>3 DEF IsMarketBuy
      <3>2. n.status \in {"canceled", "rejected"} BY <1>2, <1>5, <2>3
      <3>3. rest = 0 BY <3>1, <3>2 DEF LockedFor
      <3>4. left >= 0 - Owed(o) BY <1>1, <2>3, OwedNat
      <3> HIDE DEF rest, left
      <3> QED BY <1>6, <1>7, <3>3, <3>4
    <2> QED BY <2>1, <2>2, <2>3
  <1>9. d \in Int /\ k \in Int /\ d <= k
    <2>1. CASE LockRow(o) = q
      <3>1. d = rest - left /\ k = Owed(o) BY <2>1 DEF OwedBy
      <3> HIDE DEF d, k, rest, left
      <3> QED BY <1>7, <1>8, <3>1
    <2>2. CASE LockRow(o) # q
      <3>1. d = 0 /\ k = 0 BY <2>2 DEF OwedBy
      <3> QED BY <3>1
    <2> QED BY <2>1, <2>2
  <1> DEFINE now == r.funds[q]
             old == t.funds[q]
  <1>10. /\ now.balance \in Int /\ now.inOrders \in Int
         /\ old.balance \in Int /\ old.inOrders \in Int
    BY <1>4 DEF Wallet
  <1>11. now.balance + now.inOrders = old.balance + old.inOrders /\ now.inOrders = old.inOrders + d
    BY <1>3 DEF Total
  <1>12. now.balance >= old.balance - k
    <2> HIDE DEF now, old, d, k
    <2>1. now.balance = old.balance - d BY ONLY <1>9, <1>10, <1>11
    <2> QED BY ONLY <1>9, <1>10, <2>1
  <1> QED BY <1>9, <1>10, <1>12 DEF r

(* A trade takes from a wallet only what a seller pays at a negative price, and leaves less
   to take back. *)
LEMMA MatchFillCovers ==
  ASSUME CInv, LInv', HInv', NEW s \in Sessions, MatchFill(s)
  PROVE  CInv' /\ DebitsChecked
  <1> DEFINE t == tx[s]
  <1>1. PICK m \in t.batch : Trades(t, m) /\ Become(s, Fill(t, m)) BY DEF MatchFill
  <1> DEFINE r == Fill(t, m)
             x == NewTrade(t, m)
  <1>2. HInv /\ t.pc = "fill" /\ Ready(s) /\ wallets' = wallets /\ Become(s, r)
    BY <1>1 DEF MatchFill, CInv
  <1>3. t \in Tx /\ TxOK(t) /\ LInv /\ PurseOK(t, orders, wallets) /\ CoveredOK(t, wallets)
    BY <1>2 DEF CInv, HInv, LInv, IInv
  <1>4. /\ Matching(t) /\ Matching(r) /\ BookedOK(t, orders, wallets)
        /\ x \in Trade /\ x \notin t.fills
        /\ m \in t.rows \ {t.id} /\ OrderOK(t.view[m]) /\ OrderOK(Taker(t))
        /\ t.view[m].type = "limit" /\ t.view[m].status \in Live
        /\ t.view[m].side = Opposite(Taker(t).side)
        /\ r.id = t.id /\ r.rows = t.rows /\ r.fills = t.fills \cup {x}
        /\ r.view[m] = MakerAfter(t.view[m], x.amount)
        /\ r.view[m].status = "filled"
        /\ Taker(r) = r.view[r.id]
        /\ \E status \in {"partially_filled", "filled"} :
             Taker(r) = [Taker(t) EXCEPT !.filled = Taker(t).filled + x.amount, !.status = status]
        /\ \A i \in Ids \ {m, t.id} : r.view[i] = t.view[i]
        /\ \A i \in t.rows : /\ t.view[i] \in Order /\ r.view[i] \in Order
                             /\ r.view[i].user = t.view[i].user
                             /\ r.view[i].side = t.view[i].side
    BY <1>1, <1>2, TradeFacts
  <1> DEFINE maker == t.view[m]
             taker == Taker(t)
  <1>5. /\ x.maker = m /\ x.taker = t.id /\ x.price = maker.price
        /\ x.quote = Cost(maker.price, x.amount) /\ x.feeMaker = FeeMaker(maker.price, x.amount)
        /\ x.feeTaker = FeeTaker(maker.price, x.amount) /\ x.amount = TradeAmount(t, maker)
    BY DEF NewTrade
  <1>6. /\ r.purse = t.purse \cup SettleRows(maker, taker)
        /\ r.funds = Settle(t.funds, maker, taker, maker.price, x.amount)
    BY <1>3, <1>5, FillPays
  <1>7. OrderOK(Taker(r)) /\ IsMaker(t.view, m, taker)
    <2>1. Traded(t, m, r, TradeAmount(t, maker)) BY <1>1, <1>2, <1>3, FillWrites
    <2> QED BY <2>1 DEF Traded
  <1> HIDE DEF r, x, maker
  <1>8. /\ t.id \in t.rows /\ taker = t.view[t.id] /\ maker = t.view[m]
        /\ \A y \in t.fills : y.taker = t.id /\ y.maker \in t.rows \ {t.id}
        /\ OrderOK(taker) /\ OrderOK(maker)
        /\ maker.type = "limit" /\ maker.side = Opposite(taker.side)
        /\ Taker(r).user = taker.user /\ Taker(r).side = taker.side
    BY <1>3, <1>4, MatchingFacts DEF maker
  <1> HIDE DEF taker
  <1>9. x.amount \in Nat BY <1>4 DEF Trade
  <1>10. Owed(Taker(r)) <= Owed(taker) /\ Owed(Taker(r)) \in Int /\ Owed(taker) \in Int
    <2> DEFINE n == Taker(r)
               k == x.amount
    <2>1. /\ n.side = taker.side /\ n.type = taker.type /\ n.price = taker.price
          /\ n.amount = taker.amount /\ n.filled = taker.filled + k
      BY <1>4, <1>8 DEF Order, taker
    <2>2. OrderOK(n) /\ OrderOK(taker) /\ k \in Nat BY <1>7, <1>8, <1>9
    <2> HIDE DEF n, k
    <2>3. Owed(n) <= Owed(taker) BY ONLY <2>1, <2>2, OwedShrinks
    <2>4. Owed(n) \in Int /\ Owed(taker) \in Int BY ONLY <2>2, OwedNat
    <2> QED BY <2>3, <2>4 DEF n
  <1>11. LockRow(Taker(r)) = LockRow(taker)
    BY <1>8 DEF LockRow
  <1>12. ASSUME NEW u, SoldBelowZero(t.fills, t.view, u)
         PROVE  SoldBelowZero(r.fills, r.view, u)
    <2>1. PICK y \in t.fills : y.price < 0 /\ \E i \in {y.maker, y.taker} :
                                 t.view[i].user = u /\ t.view[i].side = "sell"
      BY <1>12 DEF SoldBelowZero
    <2>2. y \in r.fills /\ y.maker \in t.rows /\ y.taker \in t.rows BY <1>4, <1>8
    <2> QED BY <1>4, <2>1, <2>2 DEF SoldBelowZero
  <1>13. ASSUME NEW u \in Users, NEW a \in Assets, <<u, a>> \in r.purse
         PROVE  \/ a = "quote" /\ SoldBelowZero(r.fills, r.view, u)
                \/ r.funds[<<u, a>>].balance >= OwedBy(r, <<u, a>>)
                \/ r.funds[<<u, a>>].balance >= wallets[<<u, a>>].balance + OwedBy(r, <<u, a>>)
    <2> DEFINE q   == <<u, a>>
               now == r.funds[q].balance
               was == t.funds[q].balance
               old == wallets[q].balance
               k   == OwedBy(r, q)
               l   == OwedBy(t, q)
    <2>1. q \in WalletRows /\ q \in Wallets
      <3>1. t.purse \subseteq WalletRows BY <1>3 DEF PurseOK
      <3> QED BY <1>6, <1>13, <3>1, ExchangeAssumption DEF SettleRows
    <2>2. was \in Int /\ old \in Int
      <3>1. t.funds \in [Wallets -> Wallet] /\ wallets \in [Wallets -> Wallet]
        BY <1>3 DEF LInv, IInv, FundsOK, Tx
      <3> QED BY <2>1, <3>1 DEF Wallet
    <2>3. k \in Int /\ l \in Int /\ k <= l
      <3>1. k = IF LockRow(taker) = q THEN Owed(Taker(r)) ELSE 0 BY <1>11 DEF OwedBy
      <3>2. l = IF LockRow(taker) = q THEN Owed(taker) ELSE 0 BY DEF OwedBy, taker
      <3> HIDE DEF k, l, q
      <3> QED BY <1>10, <3>1, <3>2
    <2>4. \/ a = "quote" /\ SoldBelowZero(t.fills, t.view, u)
          \/ was >= l
          \/ was >= old + l
      <3>1. CASE q \in t.purse BY <1>3, <1>4, <3>1 DEF CoveredOK
      <3>2. CASE q \notin t.purse
        <4>1. q \in SettleRows(maker, taker) BY <1>6, <1>13, <3>2
        <4>2. q \in WalletsNeeded(s)
          BY <1>1, <1>2, <4>1 DEF WalletsNeeded, maker, taker
        <4>3. t.funds[q] = wallets[q]
          BY <1>2, <3>2, <4>2 DEF Ready, Conflicts, WalletStale
        <4>4. LockRow(taker) # q BY <1>4, <3>2 DEF BookedOK, taker
        <4>5. l = 0 /\ was = old BY <4>3, <4>4 DEF OwedBy, taker
        <4> HIDE DEF l, was, old
        <4>6. was >= old + l BY <2>2, <4>5
        <4> QED BY <4>6
      <3> QED BY <3>1, <3>2
    <2>5. \/ now >= was
          \/ /\ a = "quote" /\ maker.price < 0
             /\ \E o \in {maker, taker} : o.user = u /\ o.side = "sell"
      <3> DEFINE w == t.funds
                 b == t.view
                 amount == x.amount
                 row == Settle(w, maker, taker, maker.price, amount)[<<u, a>>]
      <3>1. /\ FundsOK(w) /\ x.maker # x.taker /\ b[x.maker] = maker /\ b[x.taker] = taker
            /\ OrderOK(maker) /\ OrderOK(taker)
            /\ maker.type = "limit" /\ maker.side = Opposite(taker.side)
            /\ taker.type = "market" \/ Accepts(taker.side, taker.price, maker.price)
            /\ amount \in Nat /\ x.amount = amount
            /\ x.quote = Cost(maker.price, amount) /\ x.feeMaker = FeeMaker(maker.price, amount)
            /\ x.feeTaker = FeeTaker(maker.price, amount)
            /\ u \in Users /\ a \in Assets /\ <<u, a>> \in WalletRows
        BY <1>3, <1>4, <1>5, <1>7, <1>8, <1>9, <2>1 DEF Tx, FundsOK, IsMaker
      <3> HIDE DEF w, b, amount
      <3>2. LET v == Settle(w, maker, taker, maker.price, amount)[<<u, a>>]
            IN  \/ v.balance >= w[<<u, a>>].balance
                \/ /\ a = "quote" /\ maker.price < 0
                   /\ \E o \in {maker, taker} : o.user = u /\ o.side = "sell"
        BY ONLY <3>1, SettleCredits
      <3> QED BY <1>6, <3>2 DEF w, amount
    <2>6. now \in Int
      <3>1. tx'[s] = r BY <1>2, <1>3 DEF Become, LInv, IInv
      <3>2. r \in Tx BY <3>1 DEF HInv, LInv, IInv, TxOK
      <3> QED BY <2>1, <3>2 DEF Tx, Wallet
    <2>7. CASE /\ a = "quote" /\ maker.price < 0
               /\ \E o \in {maker, taker} : o.user = u /\ o.side = "sell"
      <3>1. \E i \in {x.maker, x.taker} : r.view[i].user = u /\ r.view[i].side = "sell"
        BY <1>4, <1>5, <1>8, <2>7
      <3>2. x \in r.fills /\ x.price < 0 BY <1>4, <1>5, <2>7
      <3>3. SoldBelowZero(r.fills, r.view, u) BY <3>1, <3>2 DEF SoldBelowZero
      <3> QED BY <2>7, <3>3
    <2>8. CASE a = "quote" /\ SoldBelowZero(t.fills, t.view, u)
      BY <1>12, <2>8
    <2>9. CASE now >= was /\ (was >= l \/ was >= old + l)
      <3>1. now >= k \/ now >= old + k
        <4> HIDE DEF now, was, old, k, l
        <4> QED BY ONLY <2>2, <2>3, <2>6, <2>9
      <3> QED BY <3>1
    <2> HIDE DEF now, was, old, k, l
    <2> QED BY <2>4, <2>5, <2>7, <2>8, <2>9
  <1>14. CoveredOK(r, wallets) BY <1>13 DEF CoveredOK
  <1> QED BY <1>2, <1>14, MoveCovers

(* A new order is committed with what its transaction has in its wallets, less what its
   end takes back. *)
LEMMA PlaceCovers ==
  ASSUME CInv, LInv', HInv', NEW s \in Sessions, PlaceFinish(s)
  PROVE  CInv' /\ DebitsChecked
  <1> DEFINE t == tx[s]
             r == ApplyTIF(t)
  <1>1. HInv /\ LInv /\ t.pc = "finish" /\ Matching(t) /\ Commit(s, r) /\ CoveredOK(t, wallets)
    BY DEF CInv, HInv, PlaceFinish, Matching
  <1>2. /\ r.rows = t.rows /\ r.purse = t.purse /\ r.purse \subseteq WalletRows
    BY <1>1, PlacePosts
  <1>3. /\ t \in Tx /\ TxOK(t) /\ MatchingOK(t, orders) /\ ArrivingOK(t)
        /\ orders[t.id] = Null /\ t.rows \subseteq Ids /\ t.id \in t.rows
        /\ Taker(t) = t.view[t.id] /\ Taker(t) \in Order
        /\ \A y \in t.fills : y.taker = t.id /\ y.maker \in t.rows \ {t.id}
    BY <1>1, MatchingFacts DEF MatchingOK
  <1>4. BookedOK(t, orders, wallets)
    BY <1>1 DEF HInv, PurseOK
  <1>5. LockRow(Taker(t)) \in t.purse /\ LockRow(Taker(t)) \in WalletRows /\ IsFiniteSet(t.fills)
    BY <1>2, <1>4 DEF BookedOK
  <1>6. /\ r.fills = t.fills
        /\ \A i \in t.rows : r.view[i].user = t.view[i].user /\ r.view[i].side = t.view[i].side
    <2>1. /\ r.fills = t.fills
          /\ \A i \in Ids \ {t.id} : r.view[i] = t.view[i]
          /\ \E status \in {Taker(t).status, "canceled", "rejected"} :
               r.view[t.id] = [Taker(t) EXCEPT !.status = status]
      BY <1>1, <1>3, EndsWrites
    <2> HIDE DEF r
    <2>2. r.view[t.id].user = t.view[t.id].user /\ r.view[t.id].side = t.view[t.id].side
      BY <1>3, <2>1 DEF Order
    <2> QED BY <1>3, <2>1, <2>2
  <1>7. \A q \in WalletRows :
          /\ r.funds[q].balance >= t.funds[q].balance - OwedBy(t, q)
          /\ r.funds[q].balance \in Int /\ t.funds[q].balance \in Int
          /\ OwedBy(t, q) \in Int
    BY <1>1, <1>3, <1>5, EndPays
  <1> HIDE DEF r
  <1>8. CInv'
    <2>1. \A u \in Sessions \ {s} : r.purse \cap tx[u].purse = {} BY <1>1, <1>2 DEF HInv
    <2> QED BY <1>1, <2>1, CommitCovers
  <1>9. ASSUME NEW u, SoldBelowZero(t.fills, t.view, u) PROVE SellsBelowZero(u)
    <2>1. PICK y \in t.fills : y.price < 0 /\ \E i \in {y.maker, y.taker} :
                                 t.view[i].user = u /\ t.view[i].side = "sell"
      BY <1>9 DEF SoldBelowZero
    <2>2. PICK i \in {y.maker, y.taker} : t.view[i].user = u /\ t.view[i].side = "sell" BY <2>1
    <2>3. i \in t.rows /\ i \in Ids BY <1>3, <2>2
    <2>4. orders'[i] = r.view[i] BY <1>1, <1>2, <2>3 DEF Commit
    <2>5. orders'[i].user = u /\ orders'[i].side = "sell" BY <1>6, <2>2, <2>3, <2>4
    <2>6. y \in trades' BY <1>1, <1>6 DEF Commit
    <2>7. y \notin trades
      <3>1. orders[y.taker] = Null BY <1>3
      <3> QED BY <1>1, <3>1 DEF LInv, TakersOK
    <2> QED BY <2>1, <2>2, <2>5, <2>6, <2>7 DEF SellsBelowZero
  <1>10. ASSUME NEW u \in Users, NEW a \in Assets, wallets'[<<u, a>>].balance < 0
         PROVE  \/ wallets'[<<u, a>>].balance >= wallets[<<u, a>>].balance
                \/ a = "quote" /\ SellsBelowZero(u)
    <2> DEFINE q   == <<u, a>>
               now == r.funds[q].balance
               was == t.funds[q].balance
               old == wallets[q].balance
               k   == OwedBy(t, q)
    <2>1. q \in Wallets /\ old \in Int
      BY <1>1 DEF LInv, IInv, FundsOK, Wallets, Wallet
    <2>2. CASE q \notin r.purse
      <3>1. wallets'[q] = wallets[q] BY <1>1, <2>1, <2>2 DEF Commit
      <3> QED BY <2>1, <3>1
    <2>3. CASE q \in r.purse
      <3>1. wallets'[q] = r.funds[q]
        <4> HIDE DEF q
        <4> QED BY <1>1, <2>1, <2>3 DEF Commit
      <3>2. now < 0 BY <1>10, <3>1
      <3>3. now >= was - k /\ now \in Int /\ was \in Int /\ k \in Int
        BY <1>2, <1>7, <2>3
      <3>4. \/ a = "quote" /\ SoldBelowZero(t.fills, t.view, u)
            \/ was >= k
            \/ was >= old + k
        BY <1>1, <1>2, <2>3 DEF CoveredOK
      <3> HIDE DEF now, was, old, k
      <3>5. (was >= k \/ was >= old + k) => now >= old BY ONLY <2>1, <3>2, <3>3
      <3> QED BY <1>9, <3>1, <3>4, <3>5 DEF now, old
    <2> QED BY <2>2, <2>3
  <1>11. DebitsChecked BY <1>10 DEF DebitsChecked
  <1> QED BY <1>8, <1>11

(* A cancel gives back what the order has locked; where that is negative, a buy at a
   negative price is canceled. *)
LEMMA CancelCovers ==
  ASSUME CInv, LInv', HInv', NEW s \in Sessions, tx[s].pc = "canceling", Ready(s),
         OwnerMay(tx[s]), NEW r, r = Canceled(tx[s]), Commit(s, r)
  PROVE  CInv' /\ DebitsChecked
  <1> DEFINE t == tx[s]
             o == orders[t.id]
             left == LockedFor({}, t.id, o)
  <1>1. HInv /\ LInv /\ orders \in [Ids -> Order \cup {Null}] BY DEF CInv, HInv, LInv, IInv, BookOK
  <1>2. /\ r.purse \subseteq WalletRows
        /\ \A u \in Sessions \ {s} : r.purse \cap tx[u].purse = {}
        /\ orders'[t.id].status = "canceled"
        /\ \A q \in WalletRows :
             /\ Total(wallets'[q]) = Total(wallets[q])
             /\ wallets'[q].inOrders = wallets[q].inOrders
                  - (IF LockRow(o) = q /\ ~ IsMarketBuy(o) THEN left ELSE 0)
    BY <1>1, CancelPosts
  <1>3. /\ t.id \in Ids /\ o # Null /\ OrderOK(o) /\ o.status \in Live
    BY <1>1, ChangedRow DEF Lifecycle!IsLive, Live
  <1>4. CInv' BY <1>2, CommitCovers
  <1>5. /\ Owed(o) \in Int /\ Owed(o) >= 0
        /\ ~ IsMarketBuy(o) => left \in Int /\ left >= 0 - Owed(o)
    BY <1>3, OwedNat DEF Live
  <1>6. ASSUME NEW u \in Users, NEW a \in Assets
        PROVE  \/ wallets'[<<u, a>>].balance >= wallets[<<u, a>>].balance
               \/ a = "quote" /\ CancelsBelowZero(u)
    <2> DEFINE q   == <<u, a>>
               now == wallets'[q]
               old == wallets[q]
               d   == IF LockRow(o) = q /\ ~ IsMarketBuy(o) THEN left ELSE 0
    <2>1. /\ q \in Wallets /\ old.balance \in Int /\ old.inOrders \in Int
          /\ now.balance \in Int /\ now.inOrders \in Int
      BY <1>1 DEF HInv, LInv, IInv, FundsOK, Wallets, Wallet
    <2>2. CASE q \notin WalletRows
      <3>1. now = old BY <1>2, <2>1, <2>2 DEF Commit
      <3> QED BY <2>1, <3>1
    <2>3. CASE q \in WalletRows /\ LockRow(o) = q /\ Owed(o) # 0
      <3>1. o.side = "buy" /\ o.type = "limit" /\ o.price < 0 BY <2>3 DEF Owed
      <3>2. u = o.user /\ a = "quote" BY <2>3, <3>1 DEF LockRow, LockedAsset
      <3>3. CancelsBelowZero(u) BY <1>2, <1>3, <3>1, <3>2 DEF CancelsBelowZero, Placed
      <3> QED BY <3>2, <3>3
    <2>4. CASE q \in WalletRows /\ ~ (LockRow(o) = q /\ Owed(o) # 0)
      <3>1. d \in Int /\ d >= 0
        <4> HIDE DEF left, o, q
        <4> QED BY <1>5, <2>4
      <3>2. /\ now.balance + now.inOrders = old.balance + old.inOrders
            /\ now.inOrders = old.inOrders - d
        BY <1>2, <2>4 DEF Total
      <3> HIDE DEF now, old, d
      <3>3. now.balance >= old.balance BY ONLY <2>1, <3>1, <3>2
      <3> QED BY <3>3 DEF now, old
    <2> QED BY <2>2, <2>3, <2>4
  <1>7. DebitsChecked BY <1>6 DEF DebitsChecked
  <1> QED BY <1>4, <1>7

(* An amend takes what it has seen to be there, or gives back. *)
LEMMA AmendCovers ==
  ASSUME CInv, LInv', HInv', NEW s \in Sessions, tx[s].pc = "amending", Ready(s),
         CanAmend(tx[s]), AmendCovered(tx[s]), NEW r, r = Amended(tx[s]), Commit(s, r)
  PROVE  CInv' /\ DebitsChecked
  <1> DEFINE t == tx[s]
             o == orders[t.id]
             k == AmendCost(t)
  <1>1. HInv /\ LInv BY DEF CInv, HInv
  <1>2. /\ r.purse \subseteq WalletRows
        /\ \A u \in Sessions \ {s} : r.purse \cap tx[u].purse = {}
        /\ k \in Int /\ (k > 0 => wallets[LockRow(o)].balance >= k)
        /\ \A q \in WalletRows :
             /\ Total(wallets'[q]) = Total(wallets[q])
             /\ wallets'[q].inOrders = wallets[q].inOrders + (IF LockRow(o) = q THEN k ELSE 0)
    BY <1>1, AmendPosts
  <1>3. CInv' BY <1>2, CommitCovers
  <1> HIDE DEF k, o
  <1>4. ASSUME NEW u \in Users, NEW a \in Assets, wallets'[<<u, a>>].balance < 0
        PROVE  wallets'[<<u, a>>].balance >= wallets[<<u, a>>].balance
    <2> DEFINE q   == <<u, a>>
               now == wallets'[q]
               old == wallets[q]
               d   == IF LockRow(o) = q THEN k ELSE 0
    <2>1. /\ q \in Wallets /\ old.balance \in Int /\ old.inOrders \in Int
          /\ now.balance \in Int /\ now.inOrders \in Int
      BY <1>1 DEF HInv, LInv, IInv, FundsOK, Wallets, Wallet
    <2>2. CASE q \notin WalletRows
      <3>1. now = old BY <1>2, <2>1, <2>2 DEF Commit
      <3> QED BY <2>1, <3>1
    <2>3. CASE q \in WalletRows
      <3>1. d \in Int /\ (d > 0 => old.balance >= d)
        <4> HIDE DEF q
        <4> QED BY <1>2
      <3>2. /\ now.balance + now.inOrders = old.balance + old.inOrders
            /\ now.inOrders = old.inOrders + d
        BY <1>2, <2>3 DEF Total
      <3>3. now.balance < 0 BY <1>4
      <3> HIDE DEF now, old, d
      <3>4. now.balance >= old.balance BY ONLY <2>1, <3>1, <3>2, <3>3
      <3> QED BY <3>4 DEF now, old
    <2> QED BY <2>2, <2>3
  <1>5. DebitsChecked BY <1>4 DEF DebitsChecked
  <1> QED BY <1>3, <1>5

(* Every step of a session keeps what transactions have covered, and debits no balance
   below zero but as the property says. *)
LEMMA SessionCovers ==
  ASSUME CInv, LInv', HInv', NEW s \in Sessions, Arrive(s) \/ Step(s) \/ Rollback(s)
  PROVE  CInv' /\ DebitsChecked
  <1> DEFINE t == tx[s]
  <1>1. CASE Arrive(s)
    <2>1. PICK pc \in {"place", "cancel", "amend"} :
            \E user, req, id : Begin(s, pc, user, req, id)
      BY <1>1 DEF Arrive, PlaceBegin, CancelBegin, AmendBegin
    <2>2. PICK user, req, id : Begin(s, pc, user, req, id) BY <2>1
    <2> DEFINE r == [IdleTx EXCEPT !.pc = pc, !.user = user, !.req = req, !.id = id,
                                   !.view = orders, !.funds = wallets]
    <2>3. Become(s, r) /\ wallets' = wallets BY <2>2 DEF Begin
    <2>4. r.pc = pc BY DEF IdleTx
    <2> HIDE DEF r
    <2>5. CoveredOK(r, wallets) BY <2>4 DEF CoveredOK, Matching
    <2> QED BY <2>3, <2>5, MoveCovers
  <1>2. CASE Abandon(s) BY <1>2, GiveUpCovers
  <1>3. CASE Rollback(s) \/ Fail(s) \/ PlaceRefuse(s)
    BY <1>2, <1>3 DEF Rollback, Fail, PlaceRefuse
  <1>4. CASE PlaceLock(s) BY <1>4, PlaceLockCovers
  <1>5. t \in Tx /\ CoveredOK(t, wallets) BY DEF CInv, HInv, LInv, IInv
  <1>6. CASE MatchSelect(s)
    <2> DEFINE batch == IF Exhausted(t) THEN {} ELSE SelectMakers(s)
               r == [t EXCEPT !.pc = IF batch = {} THEN "finish" ELSE "fill",
                              !.batch = batch, !.rows = @ \cup batch]
    <2>1. t.pc = "match" /\ Become(s, r) /\ wallets' = wallets BY <1>6 DEF MatchSelect
    <2> HIDE DEF batch
    <2>2. /\ r.id = t.id /\ r.view = t.view /\ r.fills = t.fills /\ r.funds = t.funds
          /\ r.purse = t.purse
      BY <1>5 DEF Tx
    <2> HIDE DEF r
    <2>3. CoveredOK(r, wallets) BY <1>5, <2>1, <2>2, CoversMoved DEF Matching
    <2> QED BY <2>1, <2>3, MoveCovers
  <1>7. CASE MatchFill(s) BY <1>7, MatchFillCovers
  <1>8. CASE MatchNext(s)
    <2> DEFINE r == [t EXCEPT !.pc = "match", !.batch = {}]
    <2>1. t.pc = "fill" /\ Become(s, r) /\ wallets' = wallets BY <1>8 DEF MatchNext
    <2>2. /\ r.id = t.id /\ r.view = t.view /\ r.fills = t.fills /\ r.funds = t.funds
          /\ r.purse = t.purse
      BY <1>5 DEF Tx
    <2> HIDE DEF r
    <2>3. CoveredOK(r, wallets) BY <1>5, <2>1, <2>2, CoversMoved DEF Matching
    <2> QED BY <2>1, <2>3, MoveCovers
  <1>9. CASE PlaceFinish(s) BY <1>9, PlaceCovers
  <1>10. CASE CancelLock(s) \/ AmendLock(s)
    <2>1. PICK from \in {"cancel", "amend"}, to \in {"canceling", "amending"} : LockOrder(s, from, to)
      BY <1>10 DEF CancelLock, AmendLock
    <2>2. CASE ~ Abandon(s)
      <3> DEFINE r == [t EXCEPT !.pc = to, !.rows = {t.id}]
      <3>1. Become(s, r) /\ wallets' = wallets BY <2>1, <2>2 DEF LockOrder
      <3>2. r.pc = to BY <1>5 DEF Tx
      <3> HIDE DEF r
      <3>3. CoveredOK(r, wallets) BY <3>2 DEF CoveredOK, Matching
      <3> QED BY <3>1, <3>3, MoveCovers
    <2> QED BY <1>2, <2>2
  <1>11. CASE CancelFinish(s)
    <2> DEFINE r == Canceled(t)
    <2>1. CASE OwnerMay(t)
      <3>1. t.pc = "canceling" /\ Ready(s) /\ Commit(s, r)
        BY <1>11, <2>1 DEF CancelFinish, Canceled
      <3>2. r = Canceled(tx[s]) OBVIOUS
      <3> HIDE DEF r
      <3> QED BY <2>1, <3>1, <3>2, CancelCovers
    <2>2. CASE ~ OwnerMay(t) BY <1>2, <1>11, <2>2 DEF CancelFinish
    <2> QED BY <2>1, <2>2
  <1>12. CASE AmendFinish(s)
    <2> DEFINE r == Amended(t)
    <2>1. CASE CanAmend(t) /\ AmendCovered(t)
      <3>1. t.pc = "amending" /\ Ready(s) /\ Commit(s, r) BY <1>12, <2>1 DEF AmendFinish
      <3>2. r = Amended(tx[s]) OBVIOUS
      <3> HIDE DEF r
      <3> QED BY <2>1, <3>1, <3>2, AmendCovers
    <2>2. CASE ~ (CanAmend(t) /\ AmendCovered(t)) BY <1>2, <1>12, <2>2 DEF AmendFinish
    <2> QED BY <2>1, <2>2
  <1> QED BY <1>1, <1>3, <1>4, <1>6, <1>7, <1>8, <1>9, <1>10, <1>11, <1>12 DEF Step

(* No request is matching at the start. *)
LEMMA StartsCovered == Init => CInv
  <1> SUFFICES ASSUME Init PROVE CInv OBVIOUS
  <1>1. HInv BY StartsBalanced
  <1>2. \A s \in Sessions : tx[s] = IdleTx BY DEF Init
  <1>3. ~ Matching(IdleTx) BY DEF Matching, IdleTx
  <1> QED BY <1>1, <1>2, <1>3 DEF CInv, CoveredOK

(* Every step keeps CInv. *)
LEMMA NextCovers == CInv /\ [Next]_vars => CInv' /\ [DebitsChecked]_vars
  <1> SUFFICES ASSUME CInv, [Next]_vars PROVE CInv' /\ [DebitsChecked]_vars OBVIOUS
  <1>1. HInv' BY NextBalances DEF CInv
  <1>2. CASE UNCHANGED vars
    <2>1. \A s \in Sessions : CoveredOK(tx[s], wallets)' BY <1>2 DEF CInv, CoveredOK, Matching,
            SoldBelowZero, OwedBy, Taker, vars
    <2> QED BY <1>1, <1>2, <2>1 DEF CInv
  <1>3. ASSUME NEW s \in Sessions, Arrive(s) \/ Step(s) \/ Rollback(s)
        PROVE  CInv' /\ [DebitsChecked]_vars
    <2>1. LInv' BY <1>1 DEF HInv
    <2> QED BY <1>1, <1>3, <2>1, SessionCovers
  <1> QED BY <1>2, <1>3 DEF Next

(* Whatever the funds, the requests, their prices and the interleaving, no step takes a
   wallet below zero, or further below, but the two debits that nobody checks. *)
THEOREM NoOverdraft == Spec => OnlyNegativePricesOverdraw
  <1>1. CInv /\ [Next]_vars =>
          [\A u \in Users, a \in Assets :
             wallets'[<<u, a>>].balance < 0 =>
               \/ wallets'[<<u, a>>].balance >= wallets[<<u, a>>].balance
               \/ a = "quote" /\ (SellsBelowZero(u) \/ CancelsBelowZero(u))]_vars
    BY NextCovers DEF DebitsChecked
  <1> QED BY <1>1, StartsCovered, NextCovers, PTL DEF Spec, OnlyNegativePricesOverdraw
=============================================================================
