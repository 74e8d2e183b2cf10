------------------------- MODULE CandleHistoryProofs -------------------------
(***************************************************************************)
(* Proofs about CandleHistory, for any tables, intervals, limits and end   *)
(* times: what GetCandles answers.  The argument: the query's rows are the *)
(* newest ones, newest first; read oldest first they are put together by a *)
(* loop whose invariant is LoopOK, so that each candle is that of all rows *)
(* fetched of its interval; and of the intervals that have rows fetched,   *)
(* only the oldest can have more rows than those.                          *)
(***************************************************************************)
EXTENDS CandleHistory, SumLemmas, SequenceTheorems

-----------------------------------------------------------------------------
(* Greatest and least *)

(* A finite set of integers has a greatest element, and that is Max. *)
LEMMA MaxIs ==
  ASSUME NEW S, S \subseteq Int, IsFiniteSet(S), S # {}
  PROVE  Max(S) \in S /\ \A y \in S : y <= Max(S)
  <1> DEFINE C == {T \in SUBSET S : T # {} /\ ~ \E x \in T : \A y \in T : y <= x}
  <1>1. SUFFICES ASSUME C # {} PROVE FALSE
    <2>1. SUFFICES ASSUME S \notin C PROVE Max(S) \in S /\ \A y \in S : y <= Max(S)
      OBVIOUS
    <2>2. PICK x \in S : \A y \in S : y <= x BY <2>1
    <2>3. \A y \in S : x >= y BY <2>2
    <2>4. Max(S) \in S /\ \A y \in S : Max(S) >= y BY <2>3 DEF Max
    <2> QED BY <2>4
  <1>2. PICK T \in C : \A U \in C : U \subseteq T => U = T
    <2>1. IsFiniteSet(S) /\ C \subseteq SUBSET S /\ C # {} BY <1>1
    <2> HIDE DEF C
    <2> QED BY ONLY <2>1, Smallest
  <1>3. PICK x \in T : TRUE OBVIOUS
  <1>4. CASE T = {x} BY <1>4
  <1>5. CASE T # {x}
    <2>1. T \ {x} # {} /\ T \ {x} \notin C BY <1>2, <1>3, <1>5
    <2>2. PICK z \in T \ {x} : \A y \in T \ {x} : y <= z BY <2>1
    <2>3. \E w \in T : \A y \in T : y <= w
      <3>1. CASE x <= z BY <2>2, <3>1
      <3>2. CASE ~ x <= z BY <2>2, <3>2, <1>3
      <3> QED BY <3>1, <3>2
    <2> QED BY <2>3
  <1> QED BY <1>4, <1>5

(* And a least one. *)
LEMMA MinIs ==
  ASSUME NEW S, S \subseteq Int, IsFiniteSet(S), S # {}
  PROVE  Min(S) \in S /\ \A y \in S : Min(S) <= y
  <1> DEFINE C == {T \in SUBSET S : T # {} /\ ~ \E x \in T : \A y \in T : x <= y}
  <1>1. SUFFICES ASSUME C # {} PROVE FALSE
    <2>1. SUFFICES ASSUME S \notin C PROVE Min(S) \in S /\ \A y \in S : Min(S) <= y
      OBVIOUS
    <2>2. PICK x \in S : \A y \in S : x <= y BY <2>1
    <2> QED BY <2>2 DEF Min
  <1>2. PICK T \in C : \A U \in C : U \subseteq T => U = T
    <2>1. IsFiniteSet(S) /\ C \subseteq SUBSET S /\ C # {} BY <1>1
    <2> HIDE DEF C
    <2> QED BY ONLY <2>1, Smallest
  <1>3. PICK x \in T : TRUE OBVIOUS
  <1>4. CASE T = {x} BY <1>4
  <1>5. CASE T # {x}
    <2>1. T \ {x} # {} /\ T \ {x} \notin C BY <1>2, <1>3, <1>5
    <2>2. PICK z \in T \ {x} : \A y \in T \ {x} : z <= y BY <2>1
    <2>3. \E w \in T : \A y \in T : w <= y
      <3>1. CASE z <= x BY <2>2, <3>1
      <3>2. CASE ~ z <= x BY <2>2, <3>2, <1>3
      <3> QED BY <3>1, <3>2
    <2> QED BY <2>3
  <1> QED BY <1>4, <1>5

(* There is only one greatest element. *)
LEMMA MaxOnly ==
  ASSUME NEW S, S \subseteq Int, NEW x \in S, \A y \in S : y <= x
  PROVE  Max(S) = x
  <1>1. \A y \in S : x >= y OBVIOUS
  <1>2. Max(S) \in S /\ \A y \in S : Max(S) >= y BY <1>1 DEF Max
  <1>3. Max(S) >= x /\ x >= Max(S) /\ x \in Int /\ Max(S) \in Int BY <1>1, <1>2
  <1> QED BY <1>3

(* And only one least. *)
LEMMA MinOnly ==
  ASSUME NEW S, S \subseteq Int, NEW x \in S, \A y \in S : x <= y
  PROVE  Min(S) = x
  <1>1. Min(S) \in S /\ \A y \in S : Min(S) =< y BY DEF Min
  <1>2. Min(S) <= x /\ x <= Min(S) /\ x \in Int /\ Min(S) \in Int BY <1>1
  <1> QED BY <1>2

-----------------------------------------------------------------------------
(* Rows in order *)

(* How many members of S are newer than m. *)
Newer(S, m) == {k \in S : k > m}

(* The newer of two has fewer that are newer still. *)
LEMMA NewerOrders ==
  ASSUME NEW S, S \subseteq Int, IsFiniteSet(S), NEW m \in S, NEW k \in S, k < m
  PROVE  /\ Cardinality(Newer(S, m)) < Cardinality(Newer(S, k))
         /\ Cardinality(Newer(S, k)) < Cardinality(S)
  <1>1. IsFiniteSet(Newer(S, k)) /\ IsFiniteSet(Newer(S, m)) BY FS_Subset DEF Newer
  <1>2. Newer(S, m) \in SUBSET Newer(S, k) /\ m \in Newer(S, k) /\ m \notin Newer(S, m)
    <2>1. k \in Int /\ m \in Int /\ m > k /\ ~ m > m OBVIOUS
    <2>2. ASSUME NEW l \in S, l > m PROVE l > k BY <2>1, <2>2
    <2> QED BY <2>1, <2>2 DEF Newer
  <1>3. Newer(S, k) \in SUBSET S /\ k \notin Newer(S, k) BY DEF Newer
  <1>4. /\ Cardinality(Newer(S, m)) <= Cardinality(Newer(S, k))
        /\ Cardinality(Newer(S, k)) = Cardinality(Newer(S, m)) => Newer(S, k) = Newer(S, m)
    BY ONLY <1>1, <1>2, FS_Subset
  <1>5. /\ Cardinality(Newer(S, k)) <= Cardinality(S)
        /\ Cardinality(S) = Cardinality(Newer(S, k)) => S = Newer(S, k)
    BY ONLY IsFiniteSet(S), <1>3, FS_Subset
  <1>6. /\ Cardinality(Newer(S, m)) \in Nat /\ Cardinality(Newer(S, k)) \in Nat
        /\ Cardinality(S) \in Nat
    BY <1>1, FS_CardinalityType
  <1> QED BY <1>2, <1>3, <1>4, <1>5, <1>6

(* The number of newer members is less than the number of members. *)
LEMMA NewerBound ==
  ASSUME NEW S, S \subseteq Int, IsFiniteSet(S), NEW m \in S
  PROVE  IsFiniteSet(Newer(S, m)) /\ Cardinality(Newer(S, m)) \in 0 .. Cardinality(S) - 1
  <1>1. Newer(S, m) \in SUBSET S /\ m \notin Newer(S, m) BY DEF Newer
  <1>2. /\ IsFiniteSet(Newer(S, m))
        /\ Cardinality(Newer(S, m)) <= Cardinality(S)
        /\ Cardinality(S) = Cardinality(Newer(S, m)) => S = Newer(S, m)
    BY ONLY IsFiniteSet(S), <1>1, FS_Subset
  <1>3. Cardinality(Newer(S, m)) \in Nat /\ Cardinality(S) \in Nat
    BY <1>2, FS_CardinalityType
  <1> QED BY <1>1, <1>2, <1>3

(* Every place in the order is taken. *)
LEMMA NewerFills ==
  ASSUME NEW S, S \subseteq Int, IsFiniteSet(S)
  PROVE  \A i \in 0 .. Cardinality(S) - 1 : \E m \in S : Cardinality(Newer(S, m)) = i
  <1> DEFINE Full(T) == \A i \in 0 .. Cardinality(T) - 1 :
                          \E m \in T : Cardinality(Newer(T, m)) = i
             C == {T \in SUBSET S : ~ Full(T)}
  <1>1. SUFFICES ASSUME C # {} PROVE FALSE OBVIOUS
  <1>2. PICK T \in C : \A U \in C : U \subseteq T => U = T
    <2>1. IsFiniteSet(S) /\ C \subseteq SUBSET S /\ C # {} BY <1>1
    <2> HIDE DEF C
    <2> QED BY ONLY <2>1, Smallest
  <1>3. IsFiniteSet(T) /\ T \subseteq Int /\ Cardinality(T) \in Nat BY FS_Subset, FS_CardinalityType
  <1>4. T # {}
    <2>1. Cardinality({}) = 0 BY FS_EmptySet
    <2>2. 0 .. Cardinality({}) - 1 = {} BY <2>1
    <2>3. Full({}) BY <2>2
    <2> HIDE DEF Full
    <2> QED BY <2>3
  <1> DEFINE x == Min(T)
             U == T \ {x}
  <1>5. x \in T /\ \A y \in T : x <= y BY <1>3, <1>4, MinIs
  <1>6. IsFiniteSet(U) /\ Cardinality(U) = Cardinality(T) - 1
    BY <1>3, <1>5, FS_RemoveElement
  <1>7. Full(U)
    <2>1. U \in SUBSET S /\ U # T BY <1>5
    <2> HIDE DEF Full, x
    <2> QED BY <1>2, <2>1
  <1>a. ASSUME NEW y \in U PROVE x < y /\ y \in Int /\ x \in Int
    <2>1. x <= y /\ x # y /\ y \in Int /\ x \in Int BY <1>3, <1>5
    <2> HIDE DEF x
    <2> QED BY <2>1
  <1>8. \A m \in U : Newer(T, m) = Newer(U, m)
    <2> HIDE DEF x
    <2>1. \A m \in U : ~ x > m BY <1>a
    <2> QED BY <2>1 DEF Newer
  <1>9. Newer(T, x) = U
    <2> HIDE DEF x
    <2>1. \A y \in U : y > x BY <1>a
    <2>2. ~ x > x BY <1>3, <1>5
    <2> QED BY <2>1, <2>2 DEF Newer
  <1>10. ASSUME NEW i \in 0 .. Cardinality(T) - 1
         PROVE  \E m \in T : Cardinality(Newer(T, m)) = i
    <2>1. CASE i = Cardinality(T) - 1 BY <1>5, <1>6, <1>9, <2>1
    <2>2. CASE i # Cardinality(T) - 1
      <3>1. i \in 0 .. Cardinality(U) - 1 BY <1>3, <1>6, <2>2
      <3> HIDE DEF x, U
      <3>2. PICK m \in U : Cardinality(Newer(U, m)) = i BY <1>7, <3>1
      <3> QED BY <1>8, <3>2 DEF U
    <2> QED BY <2>1, <2>2
  <1> QED BY <1>10

(* The query's rows: each once, the newest first. *)
LEMMA NewestFirstSorts ==
  ASSUME NEW S, S \subseteq Int, IsFiniteSet(S)
  PROVE  /\ Cardinality(S) \in Nat
         /\ NewestFirst(S) \in [1 .. Cardinality(S) -> S]
         /\ \A i, j \in 1 .. Cardinality(S) : i < j => NewestFirst(S)[i] > NewestFirst(S)[j]
         /\ \A m \in S : \E i \in 1 .. Cardinality(S) : NewestFirst(S)[i] = m
  <1> DEFINE s == NewestFirst(S)
             n == Cardinality(S)
  <1>1. n \in Nat BY FS_CardinalityType
  <1>2. \A i \in 1 .. n : s[i] \in S /\ Cardinality(Newer(S, s[i])) = i - 1
    <2> SUFFICES ASSUME NEW i \in 1 .. n
                 PROVE  s[i] \in S /\ Cardinality(Newer(S, s[i])) = i - 1
      OBVIOUS
    <2>1. \E m \in S : Cardinality(Newer(S, m)) = i - 1
      <3>1. i - 1 \in 0 .. n - 1 BY <1>1
      <3> QED BY <3>1, NewerFills
    <2>2. s[i] = CHOOSE m \in S : Cardinality(Newer(S, m)) = i - 1 BY DEF NewestFirst, Newer
    <2> QED BY <2>1, <2>2
  <1>3. s \in [1 .. n -> S]
    <2>1. s = [i \in 1 .. n |-> s[i]] BY DEF NewestFirst
    <2> HIDE DEF s
    <2> QED BY <1>2, <2>1
  <1>4. ASSUME NEW i \in 1 .. n, NEW j \in 1 .. n, i < j PROVE s[i] > s[j]
    <2>1. s[i] \in Int /\ s[j] \in Int /\ s[i] \in S /\ s[j] \in S BY <1>2
    <2>2. Cardinality(Newer(S, s[i])) = i - 1 /\ Cardinality(Newer(S, s[j])) = j - 1 BY <1>2
    <2>3. ~ s[i] < s[j]
      <3> HIDE DEF s
      <3>1. SUFFICES ASSUME s[i] < s[j] PROVE FALSE OBVIOUS
      <3>2. Cardinality(Newer(S, s[j])) < Cardinality(Newer(S, s[i]))
        BY <2>1, <3>1, NewerOrders
      <3> QED BY <1>1, <1>4, <2>2, <3>2
    <2>4. s[i] # s[j] BY <1>4, <2>2
    <2> HIDE DEF s
    <2> QED BY <2>1, <2>3, <2>4
  <1>5. ASSUME NEW m \in S PROVE \E i \in 1 .. n : s[i] = m
    <2> DEFINE r == Cardinality(Newer(S, m))
    <2>1. r \in 0 .. n - 1 BY NewerBound
    <2> DEFINE i == r + 1
    <2>2. i \in 1 .. n /\ i - 1 = r BY <1>1, <2>1
    <2>3. s[i] \in S /\ Cardinality(Newer(S, s[i])) = r BY <1>2, <2>2
    <2>4. s[i] = m
      <3> DEFINE k == s[i]
      <3>a. k \in S /\ Cardinality(Newer(S, k)) = r BY <2>3
      <3>b. r \in Int BY <2>1
      <3> HIDE DEF k, r
      <3>1. k \in S /\ Cardinality(Newer(S, k)) = r /\ k \in Int /\ m \in Int /\ r \in Int
        BY <3>a, <3>b
      <3>2. ASSUME k < m PROVE FALSE
        <4>1. Cardinality(Newer(S, m)) < Cardinality(Newer(S, k)) BY <3>1, <3>2, NewerOrders
        <4> QED BY <3>1, <4>1 DEF r
      <3>3. ASSUME m < k PROVE FALSE
        <4>1. Cardinality(Newer(S, k)) < Cardinality(Newer(S, m)) BY <3>1, <3>3, NewerOrders
        <4> QED BY <3>1, <4>1 DEF r
      <3>4. k = m BY <3>1, <3>2, <3>3
      <3> QED BY <3>4 DEF k
    <2> QED BY <2>2, <2>4
  <1> QED BY <1>1, <1>3, <1>4, <1>5

-----------------------------------------------------------------------------
(* The loop of aggregateCandles *)

(* What the fold has made of the rows c[i] with i in s, when g holds what it made of
   less. *)
Looped(c, n, g, s) ==
  IF s = {} THEN <<>> ELSE Bucketed(g[s \ {Max(s)}], c[Max(s)], n)

HoldsLoops(c, n, S, g) == g = [s \in SUBSET S |-> Looped(c, n, g, s)]

Indices(S) == IsFiniteSet(S) /\ S \subseteq Int

(* The last of some indices. *)
LEMMA LastIndex ==
  ASSUME NEW S, Indices(S), NEW s \in SUBSET S, s # {}
  PROVE  Max(s) \in s
  <1>a. IsFiniteSet(S) BY DEF Indices
  <1>1. IsFiniteSet(s) BY ONLY <1>a, s \in SUBSET S, FS_Subset
  <1>2. s \subseteq Int BY DEF Indices
  <1> QED BY <1>1, <1>2, MaxIs

(* Two tables of the loop agree wherever both are defined. *)
LEMMA LoopOnce ==
  ASSUME NEW c, NEW n, NEW S, Indices(S), NEW T \in SUBSET S,
         NEW g, HoldsLoops(c, n, S, g), NEW h, HoldsLoops(c, n, T, h)
  PROVE  \A s \in SUBSET T : g[s] = h[s]
  <1> DEFINE C == {s \in SUBSET T : g[s] # h[s]}
  <1>1. SUFFICES ASSUME C # {} PROVE FALSE OBVIOUS
  <1>2. PICK s \in C : \A u \in C : u \subseteq s => u = s
    <2>1. IsFiniteSet(S) /\ C \subseteq SUBSET S /\ C # {} BY <1>1 DEF Indices
    <2> HIDE DEF C
    <2> QED BY ONLY <2>1, Smallest
  <1>3. s \in SUBSET S /\ g[s] = Looped(c, n, g, s) /\ h[s] = Looped(c, n, h, s)
    BY DEF HoldsLoops
  <1>4. CASE s = {} BY <1>3, <1>4 DEF Looped
  <1>5. CASE s # {}
    <2>1. Max(s) \in s BY <1>5, LastIndex
    <2>2. s \ {Max(s)} \notin C BY <1>2, <2>1
    <2>3. g[s \ {Max(s)}] = h[s \ {Max(s)}] BY <2>2
    <2> QED BY <1>3, <1>5, <2>3 DEF Looped
  <1> QED BY <1>4, <1>5

(* There is a table of the loop. *)
LEMMA LoopSome ==
  ASSUME NEW c, NEW n, NEW S, Indices(S)
  PROVE  \E g : HoldsLoops(c, n, S, g)
  <1> DEFINE C == {T \in SUBSET S : ~ \E g : HoldsLoops(c, n, T, g)}
  <1>1. SUFFICES ASSUME C # {} PROVE FALSE OBVIOUS
  <1>2. PICK T \in C : \A u \in C : u \subseteq T => u = T
    <2>1. IsFiniteSet(S) /\ C \subseteq SUBSET S /\ C # {} BY <1>1 DEF Indices
    <2> HIDE DEF C
    <2> QED BY ONLY <2>1, Smallest
  <1>3. \A U \in SUBSET T : U # T => \E g : HoldsLoops(c, n, U, g) BY <1>2
  <1>t. T \in SUBSET S OBVIOUS
  <1> DEFINE table(U) == CHOOSE g : HoldsLoops(c, n, U, g)
             below    == [s \in (SUBSET T) \ {T} |-> table(s)[s]]
             g        == [s \in SUBSET T |-> IF s = T THEN Looped(c, n, below, T) ELSE below[s]]
  <1>4. \A U \in SUBSET T : U # T => HoldsLoops(c, n, U, table(U)) BY <1>3
  <1>5. ASSUME NEW s \in SUBSET T PROVE g[s] = Looped(c, n, g, s)
    <2>1. CASE s = {} /\ s # T
      <3>1. HoldsLoops(c, n, s, table(s)) BY <1>4, <2>1
      <3>2. table(s)[s] = Looped(c, n, table(s), s)
        <4> HIDE DEF table
        <4> QED BY <3>1 DEF HoldsLoops
      <3>3. g[s] = table(s)[s] BY <2>1
      <3> HIDE DEF table, g
      <3> QED BY <2>1, <3>2, <3>3 DEF Looped
    <2>2. CASE s = {} /\ s = T BY <2>2 DEF Looped
    <2>3. CASE s # {}
      <3> DEFINE r == s \ {Max(s)}
      <3>1. Max(s) \in s BY <1>t, <2>3, LastIndex
      <3>2. r \in SUBSET T /\ r # T /\ r # s BY <3>1
      <3>3. g[r] = below[r] /\ below[r] = table(r)[r]
        <4>1. below[r] = table(r)[r]
          <5>1. r \in (SUBSET T) \ {T} BY <3>2
          <5> HIDE DEF r, table
          <5> QED BY <5>1
        <4>2. g[r] = below[r]
          <5> HIDE DEF r, below
          <5> QED BY <3>2
        <4> QED BY <4>1, <4>2
      <3>4. CASE s = T BY <2>3, <3>3, <3>4 DEF Looped
      <3>5. CASE s # T
        <4>1. g[s] = table(s)[s] BY <3>5
        <4>2. HoldsLoops(c, n, s, table(s)) /\ HoldsLoops(c, n, r, table(r))
          BY <1>4, <3>2, <3>5
        <4>3. Indices(s) /\ r \in SUBSET s
          <5>1. IsFiniteSet(S) /\ s \in SUBSET S BY <1>t DEF Indices
          <5>2. IsFiniteSet(s) BY ONLY <5>1, FS_Subset
          <5> QED BY <1>t, <5>2 DEF Indices
        <4>4. table(s)[r] = table(r)[r]
          <5>1. PICK a : a = table(s) OBVIOUS
          <5>2. PICK q : q = r OBVIOUS
          <5>3. PICK b : b = table(q) OBVIOUS
          <5>4. HoldsLoops(c, n, s, a) /\ HoldsLoops(c, n, q, b)
            <6> HIDE DEF table, r
            <6> QED BY <4>2, <5>1, <5>2, <5>3
          <5>5. Indices(s) /\ q \in SUBSET s
            <6> HIDE DEF r
            <6> QED BY <4>3, <5>2
          <5>6. \A u \in SUBSET q : a[u] = b[u] BY ONLY <5>4, <5>5, LoopOnce
          <5> HIDE DEF table, r
          <5> QED BY <5>1, <5>2, <5>3, <5>6
        <4>5. table(s)[s] = Looped(c, n, table(s), s)
          <5> HIDE DEF table
          <5> QED BY <4>2 DEF HoldsLoops
        <4> HIDE DEF table, below, g
        <4> QED BY <2>3, <3>3, <4>1, <4>4, <4>5 DEF Looped
      <3> QED BY <3>4, <3>5
    <2> QED BY <2>1, <2>2, <2>3
  <1>6. HoldsLoops(c, n, T, g)
    <2>1. g = [s \in SUBSET T |-> g[s]] OBVIOUS
    <2> HIDE DEF g
    <2> QED BY <1>5, <2>1 DEF HoldsLoops
  <1> QED BY <1>2, <1>6

(* The fold is a loop: after each row what it was before it, with that row. *)
LEMMA LoopSteps ==
  ASSUME NEW c, NEW n, NEW L \in Nat, DOMAIN c = 1 .. L
  PROVE  \E h : /\ h[0] = <<>>
                /\ \A k \in 1 .. L : h[k] = Bucketed(h[k - 1], c[k], n)
                /\ Aggregated(c, n) = h[L]
  <1> DEFINE g == CHOOSE g : HoldsLoops(c, n, 1 .. L, g)
             h == [k \in 0 .. L |-> g[1 .. k]]
  <1>1. HoldsLoops(c, n, 1 .. L, g)
    <2>1. Indices(1 .. L) BY FS_Interval DEF Indices
    <2>2. \E f : HoldsLoops(c, n, 1 .. L, f) BY ONLY <2>1, LoopSome
    <2> QED BY <2>2
  <1>2. Aggregated(c, n) = g[1 .. L]
    BY DEF Aggregated, FoldLeft, MapThenFoldSet, HoldsLoops, Looped
  <1> HIDE DEF g
  <1>3. \A s \in SUBSET (1 .. L) : g[s] = Looped(c, n, g, s) BY <1>1 DEF HoldsLoops
  <1>4. h[0] = <<>>
    <2>1. h[0] = g[1 .. 0] /\ 1 .. 0 = {} OBVIOUS
    <2> QED BY <1>3, <2>1 DEF Looped
  <1>5. ASSUME NEW k \in 1 .. L PROVE h[k] = Bucketed(h[k - 1], c[k], n)
    <2>1. 1 .. k \in SUBSET (1 .. L) /\ 1 .. k # {} /\ k \in 1 .. k
      <3>1. k \in 1 .. k OBVIOUS
      <3>2. \A i \in 1 .. k : i \in 1 .. L OBVIOUS
      <3> QED BY <3>1, <3>2
    <2>2. Max(1 .. k) = k
      <3>1. 1 .. k \subseteq Int /\ \A y \in 1 .. k : y <= k OBVIOUS
      <3> QED BY <2>1, <3>1, MaxOnly
    <2>3. (1 .. k) \ {k} = 1 .. (k - 1) OBVIOUS
    <2>4. g[1 .. k] = Bucketed(g[1 .. (k - 1)], c[k], n) BY <1>3, <2>1, <2>2, <2>3 DEF Looped
    <2>5. h[k] = g[1 .. k] /\ h[k - 1] = g[1 .. (k - 1)] OBVIOUS
    <2> QED BY <2>4, <2>5
  <1>6. h[L] = g[1 .. L] OBVIOUS
  <1> QED BY <1>2, <1>4, <1>5, <1>6

-----------------------------------------------------------------------------
(* The candle of some rows *)

BarType == [open : Int, high : Int, low : Int, close : Int, volume : Int]

LongCandle == [from : Int, to : Int, bar : BarType]

TableOK(rows) ==
  /\ IsFiniteSet(DOMAIN rows) /\ DOMAIN rows \subseteq Int
  /\ \A m \in DOMAIN rows : rows[m] \in BarType

(* The bar of the rows in S, by what IsCandleOf asks of it. *)
BarOf(bar, rows, S) ==
  /\ S # {}
  /\ bar.open = rows[Min(S)].open /\ bar.close = rows[Max(S)].close
  /\ bar.high = Max({rows[m].high : m \in S})
  /\ bar.low = Min({rows[m].low : m \in S})
  /\ bar.volume = SumFunctionOnSet([m \in S |-> rows[m].volume], S)

(* One row is the candle of itself. *)
LEMMA BarOfOne ==
  ASSUME NEW rows, TableOK(rows), NEW m \in DOMAIN rows
  PROVE  BarOf(rows[m], rows, {m})
  <1>1. m \in Int /\ rows[m] \in BarType BY DEF TableOK
  <1>2. Min({m}) = m /\ Max({m}) = m
    <2>1. {m} \subseteq Int /\ m \in {m} /\ \A y \in {m} : y <= m /\ m <= y BY <1>1
    <2> QED BY <2>1, MaxOnly, MinOnly
  <1>3. {rows[x].high : x \in {m}} = {rows[m].high} /\ {rows[x].low : x \in {m}} = {rows[m].low}
    OBVIOUS
  <1>4. Max({rows[m].high}) = rows[m].high
    <2> DEFINE v == rows[m].high
    <2>1. v \in Int BY <1>1 DEF BarType
    <2> HIDE DEF v
    <2>2. {v} \subseteq Int /\ v \in {v} /\ \A y \in {v} : y <= v BY <2>1
    <2>3. Max({v}) = v BY <2>2, MaxOnly
    <2> QED BY <2>3 DEF v
  <1>5. Min({rows[m].low}) = rows[m].low
    <2> DEFINE v == rows[m].low
    <2>1. v \in Int BY <1>1 DEF BarType
    <2> HIDE DEF v
    <2>2. {v} \subseteq Int /\ v \in {v} /\ \A y \in {v} : v <= y BY <2>1
    <2>3. Min({v}) = v BY <2>2, MinOnly
    <2> QED BY <2>3 DEF v
  <1>6. SumFunctionOnSet([x \in {m} |-> rows[x].volume], {m}) = rows[m].volume
    <2> DEFINE f == [x \in {m} |-> rows[x].volume]
    <2>1. f[m] = rows[m].volume /\ rows[m].volume \in Int BY <1>1 DEF BarType
    <2> HIDE DEF f
    <2>2. SumFunctionOnSet(f, {m}) = f[m] BY <2>1, SumSingle
    <2> QED BY <2>1, <2>2 DEF f
  <1> QED BY <1>2, <1>3, <1>4, <1>5, <1>6 DEF BarOf

(* The greatest of some numbers and one more. *)
LEMMA MaxWith ==
  ASSUME NEW S, S \subseteq Int, IsFiniteSet(S), S # {}, NEW v \in Int
  PROVE  Max(S \cup {v}) = IF v > Max(S) THEN v ELSE Max(S)
  <1> DEFINE w == IF v > Max(S) THEN v ELSE Max(S)
  <1>1. Max(S) \in S /\ \A y \in S : y <= Max(S) BY MaxIs
  <1>2. w \in S \cup {v} /\ v <= w /\ Max(S) <= w /\ w \in Int
    <2>1. Max(S) \in Int BY <1>1
    <2>2. CASE v > Max(S) BY <2>1, <2>2
    <2>3. CASE ~ (v > Max(S)) BY <1>1, <2>1, <2>3
    <2> QED BY <2>2, <2>3
  <1>3. \A y \in S \cup {v} : y <= w
    <2> HIDE DEF w
    <2>1. ASSUME NEW y \in S PROVE y <= w
      <3>1. y <= Max(S) /\ y \in Int /\ Max(S) \in Int BY <1>1
      <3> QED BY <1>2, <3>1
    <2> QED BY <1>2, <2>1
  <1>4. S \cup {v} \subseteq Int OBVIOUS
  <1> HIDE DEF w
  <1>5. Max(S \cup {v}) = w BY <1>2, <1>3, <1>4, MaxOnly
  <1> QED BY <1>5 DEF w

(* And the least. *)
LEMMA MinWith ==
  ASSUME NEW S, S \subseteq Int, IsFiniteSet(S), S # {}, NEW v \in Int
  PROVE  Min(S \cup {v}) = IF v < Min(S) THEN v ELSE Min(S)
  <1> DEFINE w == IF v < Min(S) THEN v ELSE Min(S)
  <1>1. Min(S) \in S /\ \A y \in S : Min(S) <= y BY MinIs
  <1>2. w \in S \cup {v} /\ w <= v /\ w <= Min(S) /\ w \in Int
    <2>1. Min(S) \in Int BY <1>1
    <2>2. CASE v < Min(S) BY <2>1, <2>2
    <2>3. CASE ~ (v < Min(S)) BY <1>1, <2>1, <2>3
    <2> QED BY <2>2, <2>3
  <1>3. \A y \in S \cup {v} : w <= y
    <2> HIDE DEF w
    <2>1. ASSUME NEW y \in S PROVE w <= y
      <3>1. Min(S) <= y /\ y \in Int /\ Min(S) \in Int BY <1>1
      <3> QED BY <1>2, <3>1
    <2> QED BY <1>2, <2>1
  <1>4. S \cup {v} \subseteq Int OBVIOUS
  <1> HIDE DEF w
  <1>5. Min(S \cup {v}) = w BY <1>2, <1>3, <1>4, MinOnly
  <1> QED BY <1>5 DEF w

(* A newer row widens the candle of the rows before it to theirs and its own. *)
LEMMA BarWidens ==
  ASSUME NEW rows, TableOK(rows), NEW S, S \subseteq DOMAIN rows, NEW bar \in BarType,
         BarOf(bar, rows, S), NEW m \in DOMAIN rows, \A k \in S : k < m
  PROVE  /\ BarOf(Widened(bar, rows[m]), rows, S \cup {m})
         /\ Widened(bar, rows[m]) \in BarType
  <1> DEFINE w == Widened(bar, rows[m])
  <1>1. /\ m \in Int /\ rows[m] \in BarType /\ S \subseteq Int /\ S # {}
        /\ \A k \in S : rows[k] \in BarType
    BY DEF TableOK, BarOf
  <1>2. IsFiniteSet(S)
    <2>1. IsFiniteSet(DOMAIN rows) /\ S \in SUBSET DOMAIN rows BY DEF TableOK
    <2> QED BY ONLY <2>1, FS_Subset
  <1>3. /\ w.open = bar.open /\ w.close = rows[m].close
        /\ w.high = (IF rows[m].high > bar.high THEN rows[m].high ELSE bar.high)
        /\ w.low = (IF rows[m].low < bar.low THEN rows[m].low ELSE bar.low)
        /\ w.volume = bar.volume + rows[m].volume
    BY DEF Widened, BarType
  <1>4. w \in BarType
    <2>1. /\ rows[m].high \in Int /\ rows[m].low \in Int /\ rows[m].close \in Int
          /\ rows[m].volume \in Int /\ bar.high \in Int /\ bar.low \in Int
          /\ bar.volume \in Int
      BY <1>1 DEF BarType
    <2> DEFINE high == IF rows[m].high > bar.high THEN rows[m].high ELSE bar.high
               low  == IF rows[m].low < bar.low THEN rows[m].low ELSE bar.low
               vol  == bar.volume + rows[m].volume
    <2>2. high \in Int /\ low \in Int /\ vol \in Int BY <2>1
    <2>3. w = [bar EXCEPT !.high = high, !.low = low, !.close = rows[m].close, !.volume = vol]
      BY DEF Widened
    <2> HIDE DEF high, low, vol, w
    <2> QED BY <2>1, <2>2, <2>3 DEF BarType
  <1> HIDE DEF w
  <1>5. Max(S \cup {m}) = m
    <2>1. S \cup {m} \subseteq Int /\ m \in S \cup {m} /\ \A y \in S \cup {m} : y <= m BY <1>1
    <2> QED BY <2>1, MaxOnly
  <1>6. Min(S \cup {m}) = Min(S)
    <2>1. Min(S) \in S BY <1>1, <1>2, MinIs
    <2>2. ~ m < Min(S) BY <1>1, <2>1
    <2>3. Min(S \cup {m}) = IF m < Min(S) THEN m ELSE Min(S) BY <1>1, <1>2, MinWith
    <2> QED BY <2>2, <2>3
  <1>7. w.high = Max({rows[k].high : k \in S \cup {m}})
    <2> DEFINE H == {rows[k].high : k \in S}
               v == rows[m].high
    <2>1. H \subseteq Int /\ H # {} /\ v \in Int BY <1>1 DEF BarType
    <2>2. IsFiniteSet(H)
      <3> DEFINE f == [k \in S |-> rows[k].high]
      <3>1. f \in Surjection(S, H) BY DEF Surjection
      <3> HIDE DEF H, f
      <3> QED BY ONLY <1>2, <3>1, FS_Surjection
    <2>3. {rows[k].high : k \in S \cup {m}} = H \cup {v} OBVIOUS
    <2>4. bar.high = Max(H) BY DEF BarOf
    <2> HIDE DEF H, v
    <2>5. Max(H \cup {v}) = IF v > Max(H) THEN v ELSE Max(H) BY <2>1, <2>2, MaxWith
    <2>6. w.high = IF v > bar.high THEN v ELSE bar.high BY <1>3 DEF v
    <2> QED BY <2>3, <2>4, <2>5, <2>6
  <1>8. w.low = Min({rows[k].low : k \in S \cup {m}})
    <2> DEFINE H == {rows[k].low : k \in S}
               v == rows[m].low
    <2>1. H \subseteq Int /\ H # {} /\ v \in Int BY <1>1 DEF BarType
    <2>2. IsFiniteSet(H)
      <3> DEFINE f == [k \in S |-> rows[k].low]
      <3>1. f \in Surjection(S, H) BY DEF Surjection
      <3> HIDE DEF H, f
      <3> QED BY ONLY <1>2, <3>1, FS_Surjection
    <2>3. {rows[k].low : k \in S \cup {m}} = H \cup {v} OBVIOUS
    <2>4. bar.low = Min(H) BY DEF BarOf
    <2> HIDE DEF H, v
    <2>5. Min(H \cup {v}) = IF v < Min(H) THEN v ELSE Min(H) BY <2>1, <2>2, MinWith
    <2>6. w.low = IF v < bar.low THEN v ELSE bar.low BY <1>3 DEF v
    <2> QED BY <2>3, <2>4, <2>5, <2>6
  <1>9. w.volume = SumFunctionOnSet([k \in S \cup {m} |-> rows[k].volume], S \cup {m})
    <2> DEFINE f == [k \in S |-> rows[k].volume]
               g == [k \in S \cup {m} |-> rows[k].volume]
    <2>1. m \notin S BY <1>1
    <2>2. /\ \A k \in S \cup {m} : g[k] \in Int
          /\ \A k \in S : f[k] = g[k]
          /\ g[m] = rows[m].volume
      BY <1>1 DEF BarType
    <2>3. bar.volume = SumFunctionOnSet(f, S) BY DEF BarOf
    <2> HIDE DEF f, g
    <2>4. SumFunctionOnSet(f, S) = SumFunctionOnSet(g, S) BY <1>2, <2>2, SumSame
    <2>5. SumFunctionOnSet(g, S \cup {m}) = g[m] + SumFunctionOnSet(g, S)
      BY <1>2, <2>1, <2>2, SumAdd
    <2>6. bar.volume \in Int /\ rows[m].volume \in Int BY <1>1 DEF BarType
    <2>7. w.volume = SumFunctionOnSet(g, S \cup {m})
      BY <1>3, <2>2, <2>3, <2>4, <2>5, <2>6
    <2> QED BY <2>7 DEF g
  <1>10. BarOf(w, rows, S \cup {m})
    <2>1. bar.open = rows[Min(S)].open BY DEF BarOf
    <2> QED BY <1>3, <1>5, <1>6, <1>7, <1>8, <1>9, <2>1 DEF BarOf
  <1> QED BY <1>4, <1>10 DEF w

-----------------------------------------------------------------------------
(* Intervals of minutes *)

(* A minute is in its interval. *)
LEMMA Truncated ==
  ASSUME NEW m \in Int, NEW n \in Nat \ {0}
  PROVE  m \div n \in Int /\ (m \div n) * n <= m /\ m < (m \div n) * n + n
  OBVIOUS

(* And in no other. *)
LEMMA InInterval ==
  ASSUME NEW m \in Int, NEW n \in Nat \ {0}, NEW q \in Int, q * n <= m, m < q * n + n
  PROVE  m \div n = q
  <1>1. m - q * n \in 0 .. n - 1 OBVIOUS
  <1> QED BY <1>1

(* Where an interval starts. *)
LEMMA StartOf ==
  ASSUME NEW q \in Int, NEW n \in Nat \ {0}
  PROVE  (q * n) \div n = q /\ (q * n) % n = 0 /\ q * n \in Int
  OBVIOUS

(* Intervals come in the order of their minutes. *)
LEMMA IntervalOrder ==
  ASSUME NEW m \in Int, NEW k \in Int, NEW n \in Nat \ {0}, m <= k
  PROVE  m \div n <= k \div n
  OBVIOUS

(* What starts no earlier than the end of an interval is in a later one. *)
LEMMA LaterInterval ==
  ASSUME NEW m \in Int, NEW n \in Nat \ {0}, NEW q \in Int, q * n + n <= m
  PROVE  q < m \div n
  <1>1. (q + 1) * n <= m /\ ((q + 1) * n) \div n = q + 1 /\ (q + 1) * n \in Int OBVIOUS
  <1>2. ((q + 1) * n) \div n <= m \div n BY ONLY <1>1, m \in Int, n \in Nat \ {0}, IntervalOrder
  <1>3. m \div n \in Int OBVIOUS
  <1> QED BY <1>1, <1>2, <1>3

-----------------------------------------------------------------------------
(* The loop invariant of aggregateCandles *)

(* c is rows of the table, the oldest first. *)
OldestFirst(c, rows, L) ==
  /\ L \in Nat /\ DOMAIN c = 1 .. L
  /\ \A i \in 1 .. L : c[i].from \in DOMAIN rows /\ c[i].bar = rows[c[i].from]
  /\ \A i, j \in 1 .. L : i < j => c[i].from < c[j].from

(* The minutes of the first k rows, and those of them in interval q. *)
Seen(c, k) == {c[i].from : i \in 1 .. k}

SeenIn(c, n, k, q) == {m \in Seen(c, k) : m \div n = q}

(* The candle x is that of its interval, as far as the rows have been read. *)
CandleSoFar(x, c, rows, n, k) ==
  /\ x.from = (x.from \div n) * n /\ x.to = x.from + n
  /\ BarOf(x.bar, rows, SeenIn(c, n, k, x.from \div n))

(* After k rows: the candles are of later and later intervals, each that of its
   interval, the last that of the row read last, and no interval is left out. *)
LoopOK(agg, c, rows, n, k) ==
  /\ agg \in Seq(LongCandle)
  /\ k = 0 => agg = <<>>
  /\ k > 0 => agg # <<>> /\ agg[Len(agg)].from \div n = c[k].from \div n
  /\ \A i \in 1 .. Len(agg) : CandleSoFar(agg[i], c, rows, n, k)
  /\ \A i, j \in 1 .. Len(agg) : i < j => agg[i].from \div n < agg[j].from \div n
  /\ \A m \in Seen(c, k) : \E i \in 1 .. Len(agg) : agg[i].from \div n = m \div n

(* One row more. *)
LEMMA SeenMore ==
  ASSUME NEW c, NEW k \in Nat \ {0}
  PROVE  Seen(c, k) = Seen(c, k - 1) \cup {c[k].from}
  <1>1. 1 .. k = (1 .. (k - 1)) \cup {k} OBVIOUS
  <1> QED BY <1>1 DEF Seen

(* The row read last goes into the interval that is being filled. *)
LEMMA LoopFills ==
  ASSUME NEW rows, TableOK(rows), NEW c, NEW L, OldestFirst(c, rows, L),
         NEW n \in Nat \ {0}, NEW k \in 1 .. L, NEW agg, LoopOK(agg, c, rows, n, k - 1),
         agg # <<>> /\ c[k].from < Last(agg).to
  PROVE  LoopOK(Bucketed(agg, c[k], n), c, rows, n, k)
  <1> DEFINE l == Len(agg)
             x == agg[l]
             m == c[k].from
             q == x.from \div n
             y == [x EXCEPT !.bar = Widened(x.bar, rows[m])]
             new == [agg EXCEPT ![l] = y]
  <1>1. L \in Nat /\ k \in Nat \ {0} /\ k - 1 \in Nat BY DEF OldestFirst
  <1>s. Seen(c, k) = Seen(c, k - 1) \cup {m}
    <2>1. k \in Nat \ {0} BY <1>1
    <2> QED BY ONLY <2>1, SeenMore
  <1>2. agg \in Seq(LongCandle) /\ l \in Nat \ {0} /\ l \in 1 .. l /\ x \in LongCandle
    BY DEF LoopOK
  <1>3. k - 1 > 0 /\ k - 1 \in 1 .. L BY <1>1 DEF LoopOK
  <1>4. q = c[k - 1].from \div n BY <1>3 DEF LoopOK
  <1>5. m \in DOMAIN rows /\ m \in Int /\ c[k - 1].from \in Int /\ c[k].bar = rows[m]
    BY <1>3 DEF OldestFirst, TableOK
  <1>6. c[k - 1].from < m BY <1>1, <1>3 DEF OldestFirst
  <1>7. CandleSoFar(x, c, rows, n, k - 1) BY <1>2 DEF LoopOK
  <1>8. x.from = q * n /\ x.to = q * n + n /\ x.from \in Int /\ x.bar \in BarType /\ q \in Int
    BY <1>2, <1>7 DEF CandleSoFar, LongCandle
  <1>9. m \div n = q
    <2>1. q * n <= c[k - 1].from BY <1>4, <1>5, Truncated
    <2>2. m < q * n + n BY <1>8 DEF Last
    <2>3. q * n <= m
      <3>1. q * n \in Int BY <1>8
      <3> QED BY <1>5, <1>6, <2>1, <3>1
    <2> QED BY <1>5, <1>8, <2>2, <2>3, InInterval
  <1>10. Bucketed(agg, c[k], n) = new
    BY <1>5 DEF Bucketed, Last
  <1>11. BarOf(y.bar, rows, SeenIn(c, n, k, q)) /\ y.bar \in BarType
    <2> DEFINE S == SeenIn(c, n, k - 1, q)
    <2>1. S \subseteq DOMAIN rows BY <1>3 DEF SeenIn, Seen, OldestFirst
    <2>2. \A j \in S : j < m
      <3>1. \A i \in 1 .. (k - 1) : c[i].from < m BY <1>1 DEF OldestFirst
      <3> QED BY <3>1 DEF SeenIn, Seen
    <2>3. BarOf(x.bar, rows, S) BY <1>7 DEF CandleSoFar
    <2>4. y.bar = Widened(x.bar, rows[m]) BY <1>2 DEF LongCandle
    <2>5. SeenIn(c, n, k, q) = S \cup {m} BY <1>9, <1>s DEF SeenIn
    <2> HIDE DEF S, x, y, m
    <2>6. BarOf(Widened(x.bar, rows[m]), rows, S \cup {m}) /\ Widened(x.bar, rows[m]) \in BarType
      BY <1>5, <1>8, <2>1, <2>2, <2>3, BarWidens
    <2> QED BY <2>4, <2>5, <2>6
  <1>12. y.from = x.from /\ y.to = x.to /\ y \in LongCandle
    BY <1>2, <1>11 DEF LongCandle
  <1>13. /\ new \in Seq(LongCandle) /\ Len(new) = l /\ new[l] = y
         /\ \A i \in 1 .. l : i # l => new[i] = agg[i]
    <2> HIDE DEF y
    <2> QED BY <1>2, <1>12, ExceptSeq
  <1>14. \A i \in 1 .. l : new[i].from = agg[i].from BY <1>12, <1>13
  <1> HIDE DEF new, y
  <1>15. ASSUME NEW i \in 1 .. l PROVE CandleSoFar(new[i], c, rows, n, k)
    <2>1. CASE i = l
      <3>1. new[i].from \div n = q
        <4>1. new[i].from = x.from BY <1>14, <2>1
        <4> QED BY <4>1
      <3> QED BY <1>8, <1>11, <1>12, <1>13, <2>1, <3>1 DEF CandleSoFar
    <2>2. CASE i # l
      <3>1. agg[i].from \div n < q BY <1>2, <2>2 DEF LoopOK
      <3>2. agg[i].from \div n # q
        <4>a. agg[i] \in LongCandle BY <1>2
        <4>1. agg[i].from \in Int BY <4>a DEF LongCandle
        <4> QED BY <1>8, <3>1, <4>1
      <3>3. SeenIn(c, n, k, agg[i].from \div n) = SeenIn(c, n, k - 1, agg[i].from \div n)
        BY <1>9, <1>s, <3>2 DEF SeenIn
      <3>4. CandleSoFar(agg[i], c, rows, n, k - 1) BY DEF LoopOK
      <3> QED BY <1>13, <2>2, <3>3, <3>4 DEF CandleSoFar
    <2> QED BY <2>1, <2>2
  <1>16. \A i, j \in 1 .. l : i < j => new[i].from \div n < new[j].from \div n
    BY <1>14 DEF LoopOK
  <1>17. ASSUME NEW j \in Seen(c, k) PROVE \E i \in 1 .. l : new[i].from \div n = j \div n
    <2>1. CASE j = m BY <1>2, <1>9, <1>14, <2>1
    <2>2. CASE j \in Seen(c, k - 1)
      <3>1. PICK i \in 1 .. l : agg[i].from \div n = j \div n BY <2>2 DEF LoopOK
      <3> QED BY <1>14, <3>1
    <2> QED BY <1>s, <2>1, <2>2
  <1>18. new # <<>> /\ new[Len(new)].from \div n = m \div n BY <1>2, <1>9, <1>13, <1>14
  <1> QED BY <1>1, <1>10, <1>13, <1>15, <1>16, <1>17, <1>18 DEF LoopOK

(* The row read last opens an interval later than the others. *)
LEMMA LoopOpens ==
  ASSUME NEW rows, TableOK(rows), NEW c, NEW L, OldestFirst(c, rows, L),
         NEW n \in Nat \ {0}, NEW k \in 1 .. L, NEW agg, LoopOK(agg, c, rows, n, k - 1),
         ~ (agg # <<>> /\ c[k].from < Last(agg).to)
  PROVE  LoopOK(Bucketed(agg, c[k], n), c, rows, n, k)
  <1> DEFINE l == Len(agg)
             m == c[k].from
             q == m \div n
             y == [from |-> q * n, to |-> q * n + n, bar |-> rows[m]]
             new == Append(agg, y)
  <1>1. L \in Nat /\ k \in Nat \ {0} /\ k - 1 \in Nat BY DEF OldestFirst
  <1>s. Seen(c, k) = Seen(c, k - 1) \cup {m}
    <2>1. k \in Nat \ {0} BY <1>1
    <2> QED BY ONLY <2>1, SeenMore
  <1>2. agg \in Seq(LongCandle) /\ l \in Nat BY DEF LoopOK
  <1>3. m \in DOMAIN rows /\ m \in Int /\ c[k].bar = rows[m] /\ rows[m] \in BarType
    BY DEF OldestFirst, TableOK
  <1>4. q \in Int /\ (q * n) \div n = q /\ q * n \in Int BY <1>3, Truncated, StartOf
  <1>5. Bucketed(agg, c[k], n) = new BY <1>3 DEF Bucketed, Last
  <1>6. y \in LongCandle BY <1>3, <1>4 DEF LongCandle
  <1>7. y.from = q * n /\ y.to = q * n + n /\ y.bar = rows[m] OBVIOUS
  <1> HIDE DEF y
  <1>8. /\ new \in Seq(LongCandle) /\ Len(new) = l + 1 /\ new[l + 1] = y
        /\ \A i \in 1 .. l : new[i] = agg[i]
    BY <1>2, <1>6
  <1>9. \A i \in 1 .. l : agg[i].from \in Int /\ agg[i].from \div n \in Int
    <2>1. \A i \in 1 .. l : agg[i] \in LongCandle BY <1>2
    <2> QED BY <2>1 DEF LongCandle
  <1>10. \A i \in 1 .. l : agg[i].from \div n < q
    <2> SUFFICES ASSUME NEW i \in 1 .. l PROVE agg[i].from \div n < q OBVIOUS
    <2> DEFINE p == agg[l].from \div n
    <2>1. l \in 1 .. l /\ agg # <<>> BY <1>2
    <2>2. CandleSoFar(agg[l], c, rows, n, k - 1) BY <2>1 DEF LoopOK
    <2>3. agg[l].to = p * n + n /\ p \in Int BY <1>9, <2>1, <2>2 DEF CandleSoFar
    <2>4. p * n + n <= m
      <3>1. p * n + n \in Int BY <2>3
      <3>2. ~ m < p * n + n BY <2>1, <2>3 DEF Last
      <3> HIDE DEF p, m
      <3> QED BY <1>3, <3>1, <3>2
    <2>5. p < q
      <3>1. m \in Int /\ n \in Nat \ {0} /\ p \in Int /\ p * n + n <= m BY <1>3, <2>3, <2>4
      <3> QED BY ONLY <3>1, LaterInterval
    <2>6. agg[i].from \div n <= p
      <3>1. CASE i = l BY <1>9, <3>1
      <3>2. CASE i # l
        <4>1. agg[i].from \div n < p BY <1>2, <2>1, <3>2 DEF LoopOK
        <4> QED BY <1>9, <2>3, <4>1
      <3> QED BY <3>1, <3>2
    <2>7. agg[i].from \div n \in Int BY <1>9
    <2> HIDE DEF p, q
    <2> QED BY <1>4, <2>3, <2>5, <2>6, <2>7
  <1>11. SeenIn(c, n, k, q) = {m}
    <2>1. \A j \in Seen(c, k - 1) : j \div n # q
      <3> SUFFICES ASSUME NEW j \in Seen(c, k - 1) PROVE j \div n # q OBVIOUS
      <3>1. PICK i \in 1 .. l : agg[i].from \div n = j \div n BY DEF LoopOK
      <3>2. agg[i].from \div n < q /\ agg[i].from \div n \in Int BY <1>9, <1>10
      <3> QED BY <1>4, <3>1, <3>2
    <2> QED BY <1>s, <2>1 DEF SeenIn
  <1>12. CandleSoFar(y, c, rows, n, k)
    <2>1. BarOf(rows[m], rows, {m}) BY <1>3, BarOfOne
    <2> QED BY <1>4, <1>7, <1>11, <2>1 DEF CandleSoFar
  <1> HIDE DEF new
  <1>13. ASSUME NEW i \in 1 .. Len(new) PROVE CandleSoFar(new[i], c, rows, n, k)
    <2>1. CASE i = l + 1 BY <1>8, <1>12, <2>1
    <2>2. CASE i # l + 1
      <3>1. i \in 1 .. l BY <1>2, <1>8, <2>2
      <3>2. agg[i].from \div n # q BY <1>4, <1>9, <1>10, <3>1
      <3>3. SeenIn(c, n, k, agg[i].from \div n) = SeenIn(c, n, k - 1, agg[i].from \div n)
        BY <1>s, <3>2 DEF SeenIn
      <3>4. CandleSoFar(agg[i], c, rows, n, k - 1) BY <3>1 DEF LoopOK
      <3> QED BY <1>8, <3>1, <3>3, <3>4 DEF CandleSoFar
    <2> QED BY <2>1, <2>2
  <1>14. ASSUME NEW i \in 1 .. Len(new), NEW j \in 1 .. Len(new), i < j
         PROVE  new[i].from \div n < new[j].from \div n
    <2>1. i \in 1 .. l BY <1>2, <1>8, <1>14
    <2>2. CASE j = l + 1 BY <1>4, <1>7, <1>8, <1>10, <2>1, <2>2
    <2>3. CASE j # l + 1
      <3>1. j \in 1 .. l BY <1>2, <1>8, <2>3
      <3> QED BY <1>8, <1>14, <2>1, <3>1 DEF LoopOK
    <2> QED BY <2>2, <2>3
  <1>15. ASSUME NEW j \in Seen(c, k)
         PROVE  \E i \in 1 .. Len(new) : new[i].from \div n = j \div n
    <2>1. CASE j = m
      <3>1. l + 1 \in 1 .. Len(new) /\ new[l + 1].from \div n = j \div n
        BY <1>2, <1>4, <1>7, <1>8, <2>1
      <3> QED BY <3>1
    <2>2. CASE j \in Seen(c, k - 1)
      <3>1. PICK i \in 1 .. l : agg[i].from \div n = j \div n BY <2>2 DEF LoopOK
      <3>2. i \in 1 .. Len(new) /\ new[i].from \div n = j \div n BY <1>2, <1>8, <3>1
      <3> QED BY <3>2
    <2> QED BY <1>s, <2>1, <2>2
  <1>16. new # <<>> /\ new[Len(new)].from \div n = q BY <1>2, <1>4, <1>7, <1>8
  <1> QED BY <1>1, <1>5, <1>8, <1>13, <1>14, <1>15, <1>16 DEF LoopOK

(* What the loop has made of all rows. *)
LEMMA LoopEnds ==
  ASSUME NEW rows, TableOK(rows), NEW c, NEW L, OldestFirst(c, rows, L),
         NEW n \in Nat \ {0}
  PROVE  LoopOK(Aggregated(c, n), c, rows, n, L)
  <1>1. L \in Nat /\ DOMAIN c = 1 .. L BY DEF OldestFirst
  <1>2. PICK h : /\ h[0] = <<>>
                 /\ \A k \in 1 .. L : h[k] = Bucketed(h[k - 1], c[k], n)
                 /\ Aggregated(c, n) = h[L]
    BY <1>1, LoopSteps
  <1> DEFINE C == {k \in 0 .. L : ~ LoopOK(h[k], c, rows, n, k)}
  <1>3. SUFFICES ASSUME C # {} PROVE FALSE
    <2>1. L \in 0 .. L BY <1>1
    <2> QED BY <1>2, <2>1
  <1> DEFINE k == Min(C)
  <1>4. k \in C /\ \A j \in C : k <= j
    <2>1. IsFiniteSet(0 .. L)
      <3>1. 0 \in Int /\ L \in Int BY <1>1
      <3> QED BY ONLY <3>1, FS_Interval
    <2>2. C \in SUBSET (0 .. L) /\ C \subseteq Int OBVIOUS
    <2> HIDE DEF C
    <2>3. IsFiniteSet(C) BY ONLY <2>1, <2>2, FS_Subset
    <2> QED BY <1>3, <2>2, <2>3, MinIs
  <1> HIDE DEF k
  <1>5. k \in 0 .. L /\ ~ LoopOK(h[k], c, rows, n, k) BY <1>4
  <1>6. CASE k = 0
    <2>1. Seen(c, 0) = {} BY DEF Seen
    <2>2. LoopOK(<<>>, c, rows, n, 0) BY <2>1 DEF LoopOK
    <2> QED BY <1>2, <1>5, <1>6, <2>2
  <1>7. CASE k # 0
    <2>1. k \in 1 .. L /\ k - 1 \in 0 .. L /\ ~ k <= k - 1 BY <1>1, <1>5, <1>7
    <2>2. LoopOK(h[k - 1], c, rows, n, k - 1)
      <3>1. k - 1 \notin C BY <1>4, <2>1
      <3> QED BY <2>1, <3>1
    <2>3. h[k] = Bucketed(h[k - 1], c[k], n) BY <1>2, <2>1
    <2> HIDE DEF C
    <2> DEFINE agg == h[k - 1]
    <2>4. LoopOK(agg, c, rows, n, k - 1) BY <2>2
    <2> HIDE DEF agg
    <2>5. LoopOK(Bucketed(agg, c[k], n), c, rows, n, k)
      <3>1. CASE agg # <<>> /\ c[k].from < Last(agg).to BY <2>1, <2>4, <3>1, LoopFills
      <3>2. CASE ~ (agg # <<>> /\ c[k].from < Last(agg).to) BY <2>1, <2>4, <3>2, LoopOpens
      <3> QED BY <3>1, <3>2
    <2> QED BY <1>5, <2>3, <2>5 DEF agg
  <1> QED BY <1>6, <1>7

-----------------------------------------------------------------------------
(* What GetCandles fetches *)

Before(rows, end) == {m \in DOMAIN rows : m < end}

(* The newest of some rows, and every row that is newer than one of them. *)
LEMMA NewestAreUpper ==
  ASSUME NEW S, S \subseteq Int, IsFiniteSet(S), NEW limit \in Int
  PROVE  /\ NewestRows(S, limit) \subseteq S
         /\ \A m \in NewestRows(S, limit), k \in S : m < k => k \in NewestRows(S, limit)
  <1>1. NewestRows(S, limit) \subseteq S BY DEF NewestRows
  <1>2. ASSUME NEW m \in NewestRows(S, limit), NEW k \in S, m < k
        PROVE  k \in NewestRows(S, limit)
    <2>1. m \in S /\ Cardinality(Newer(S, m)) < limit BY DEF NewestRows, Newer
    <2>2. Cardinality(Newer(S, k)) < Cardinality(Newer(S, m))
      BY <1>2, <2>1, NewerOrders
    <2>3. Cardinality(Newer(S, k)) \in Int /\ Cardinality(Newer(S, m)) \in Int
      <3>1. IsFiniteSet(Newer(S, k)) /\ IsFiniteSet(Newer(S, m)) BY <2>1, NewerBound
      <3> QED BY <3>1, FS_CardinalityType
    <2>4. Cardinality(Newer(S, k)) < limit BY <2>1, <2>2, <2>3
    <2> QED BY <2>4 DEF NewestRows, Newer
  <1> QED BY <1>1, <1>2

RowsFetched(rows, limit, end) == NewestRows(Before(rows, end), limit)

(* The rows fetched are rows before end, and with each of them all that are newer. *)
LEMMA FetchedAre ==
  ASSUME NEW rows, TableOK(rows), NEW limit \in Int, NEW end \in Int
  PROVE  /\ Before(rows, end) \subseteq Int /\ IsFiniteSet(Before(rows, end))
         /\ RowsFetched(rows, limit, end) \subseteq Before(rows, end)
         /\ IsFiniteSet(RowsFetched(rows, limit, end))
         /\ \A m \in RowsFetched(rows, limit, end), k \in Before(rows, end) :
              m < k => k \in RowsFetched(rows, limit, end)
  <1> DEFINE S == Before(rows, end)
  <1>1. S \subseteq Int BY DEF Before, TableOK
  <1>2. IsFiniteSet(S)
    <2>1. IsFiniteSet(DOMAIN rows) /\ S \in SUBSET DOMAIN rows BY DEF TableOK, Before
    <2> QED BY ONLY <2>1, FS_Subset
  <1> HIDE DEF S
  <1>3. /\ NewestRows(S, limit) \subseteq S
        /\ \A m \in NewestRows(S, limit), k \in S : m < k => k \in NewestRows(S, limit)
    BY <1>1, <1>2, NewestAreUpper
  <1>4. IsFiniteSet(NewestRows(S, limit))
    <2>1. IsFiniteSet(S) /\ NewestRows(S, limit) \in SUBSET S BY <1>2, <1>3
    <2> QED BY ONLY <2>1, FS_Subset
  <1> QED BY <1>1, <1>2, <1>3, <1>4 DEF S, RowsFetched

(* The answer to the query: the rows fetched, newest first. *)
LEMMA FetchedInOrder ==
  ASSUME NEW rows, TableOK(rows), NEW limit \in Int, NEW end \in Int
  PROVE  LET one == Get1mCandles(rows, limit, end)
             F   == RowsFetched(rows, limit, end)
         IN  /\ one \in Seq(LongCandle) /\ Len(one) = Cardinality(F)
             /\ \A i \in 1 .. Len(one) : /\ one[i].from \in F
                                         /\ one[i].to = one[i].from + 1
                                         /\ one[i].bar = rows[one[i].from]
             /\ \A i, j \in 1 .. Len(one) : i < j => one[i].from > one[j].from
             /\ \A m \in F : \E i \in 1 .. Len(one) : one[i].from = m
  <1> DEFINE one == Get1mCandles(rows, limit, end)
             F   == RowsFetched(rows, limit, end)
             s   == NewestFirst(F)
             N   == Cardinality(F)
             e(m) == [from |-> m, to |-> m + 1, bar |-> rows[m]]
  <1>1. F \subseteq Int /\ IsFiniteSet(F) /\ F \subseteq DOMAIN rows
    BY FetchedAre DEF Before
  <1>2. one = [i \in DOMAIN s |-> e(s[i])] BY DEF Get1mCandles, RowsFetched, Before
  <1> HIDE DEF F, one
  <1>3. /\ N \in Nat /\ s \in [1 .. N -> F]
        /\ \A i, j \in 1 .. N : i < j => s[i] > s[j]
        /\ \A m \in F : \E i \in 1 .. N : s[i] = m
    BY <1>1, NewestFirstSorts
  <1> HIDE DEF s, N
  <1>4. \A m \in F : e(m) \in LongCandle
    <2> SUFFICES ASSUME NEW m \in F PROVE e(m) \in LongCandle OBVIOUS
    <2>1. m \in Int /\ m + 1 \in Int /\ rows[m] \in BarType BY <1>1 DEF TableOK
    <2> QED BY <2>1 DEF LongCandle
  <1>5. \A m \in F : e(m).from = m /\ e(m).to = m + 1 /\ e(m).bar = rows[m] OBVIOUS
  <1> HIDE DEF e
  <1>6. \A i \in 1 .. N : s[i] \in F /\ one[i] = e(s[i]) BY <1>2, <1>3
  <1>7. one \in [1 .. N -> LongCandle]
    <2>1. one = [i \in 1 .. N |-> e(s[i])] BY <1>2, <1>3
    <2> QED BY <1>4, <1>6, <2>1
  <1>8. one \in Seq(LongCandle) /\ Len(one) = N BY <1>3, <1>7
  <1>9. \A i \in 1 .. N : one[i].from = s[i] BY <1>5, <1>6
  <1>10. \A i \in 1 .. N : one[i].to = s[i] + 1 /\ one[i].bar = rows[s[i]] BY <1>5, <1>6
  <1> QED BY <1>3, <1>6, <1>8, <1>9, <1>10 DEF one, F, N

(* Reversed they are read oldest first. *)
LEMMA ReadOldestFirst ==
  ASSUME NEW rows, TableOK(rows), NEW limit \in Int, NEW end \in Int,
         NEW c, c = Reverse(Get1mCandles(rows, limit, end)),
         NEW L, L = Cardinality(RowsFetched(rows, limit, end))
  PROVE  OldestFirst(c, rows, L) /\ Seen(c, L) = RowsFetched(rows, limit, end)
  <1> DEFINE one == Get1mCandles(rows, limit, end)
             F   == RowsFetched(rows, limit, end)
  <1>1. /\ one \in Seq(LongCandle) /\ Len(one) = L
        /\ \A i \in 1 .. L : one[i].from \in F /\ one[i].bar = rows[one[i].from]
        /\ \A i, j \in 1 .. L : i < j => one[i].from > one[j].from
        /\ \A m \in F : \E i \in 1 .. L : one[i].from = m
    BY FetchedInOrder
  <1>2. F \subseteq DOMAIN rows /\ DOMAIN rows \subseteq Int
    BY FetchedAre DEF Before, TableOK
  <1> HIDE DEF one, F
  <1>3. L \in Nat BY <1>1
  <1>4. DOMAIN c = 1 .. L /\ \A i \in 1 .. L : c[i] = one[(L - i) + 1]
    BY <1>1 DEF Reverse, one
  <1>5. \A i \in 1 .. L : (L - i) + 1 \in 1 .. L BY <1>3
  <1>6. \A i \in 1 .. L : c[i].from \in DOMAIN rows /\ c[i].bar = rows[c[i].from]
    BY <1>1, <1>2, <1>4, <1>5
  <1>7. ASSUME NEW i \in 1 .. L, NEW j \in 1 .. L, i < j PROVE c[i].from < c[j].from
    <2> DEFINE a == (L - i) + 1
               b == (L - j) + 1
    <2>1. a \in 1 .. L /\ b \in 1 .. L /\ b < a BY <1>3, <1>7
    <2>2. c[i] = one[a] /\ c[j] = one[b] BY <1>4
    <2> HIDE DEF a, b
    <2>3. one[b].from > one[a].from /\ one[a].from \in Int /\ one[b].from \in Int
      BY <1>1, <1>2, <2>1
    <2> QED BY <2>2, <2>3
  <1>8. Seen(c, L) \subseteq F BY <1>1, <1>4, <1>5 DEF Seen
  <1>9. ASSUME NEW m \in F PROVE m \in Seen(c, L)
    <2>1. PICK i \in 1 .. L : one[i].from = m BY <1>1
    <2> DEFINE j == (L - i) + 1
    <2>2. j \in 1 .. L /\ (L - j) + 1 = i BY <1>3
    <2>3. c[j] = one[i] BY <1>4, <2>2
    <2> QED BY <2>1, <2>2, <2>3 DEF Seen
  <1> QED BY <1>3, <1>4, <1>6, <1>7, <1>8, <1>9 DEF OldestFirst, F

-----------------------------------------------------------------------------
(* The answer: longer intervals *)

(* all is what the loop makes of the rows fetched, and answer its first K candles,
   the newest of them first. *)
Answers(answer, all, K, rows, n, limit, end) ==
  \E c, L : /\ OldestFirst(c, rows, L) /\ Seen(c, L) = RowsFetched(rows, n * limit, end)
            /\ LoopOK(all, c, rows, n, L)
            /\ K = Min({limit, Len(all)})
            /\ answer \in Seq(LongCandle) /\ Len(answer) = K
            /\ \A i \in 1 .. K : answer[i] = all[(K - i) + 1]

(* The smaller of two numbers. *)
LEMMA MinOfTwo ==
  ASSUME NEW a \in Int, NEW b \in Int
  PROVE  Min({a, b}) = IF a <= b THEN a ELSE b
  <1> DEFINE w == IF a <= b THEN a ELSE b
  <1>1. {a, b} \subseteq Int /\ w \in {a, b} /\ \A y \in {a, b} : w <= y OBVIOUS
  <1> HIDE DEF w
  <1>2. Min({a, b}) = w BY <1>1, MinOnly
  <1> QED BY <1>2 DEF w

(* The answer of GetCandles for intervals of several minutes. *)
LEMMA GetCandlesAnswers ==
  ASSUME NEW rows, TableOK(rows), NEW n \in Nat \ {0}, n # 1, NEW limit \in Nat,
         NEW end \in Int
  PROVE  \E all, K : Answers(GetCandles(rows, n, limit, end), all, K, rows, n, limit, end)
  <1> DEFINE c   == Reverse(Get1mCandles(rows, n * limit, end))
             L   == Cardinality(RowsFetched(rows, n * limit, end))
             all == Aggregated(c, n)
             K   == Min({limit, Len(all)})
             cut == SubSeq(all, 1, K)
             answer == Reverse(cut)
  <1>0. n * limit \in Int /\ limit * n = n * limit OBVIOUS
  <1>1. GetCandles(rows, n, limit, end) = answer
    BY <1>0 DEF GetCandles, AggregateCandles, RequiredCandles
  <1>2. OldestFirst(c, rows, L) /\ Seen(c, L) = RowsFetched(rows, n * limit, end)
    <2>1. PICK d : d = c OBVIOUS
    <2>2. PICK N : N = L OBVIOUS
    <2>3. OldestFirst(d, rows, N) /\ Seen(d, N) = RowsFetched(rows, n * limit, end)
      BY <1>0, <2>1, <2>2, ReadOldestFirst
    <2> QED BY <2>1, <2>2, <2>3
  <1> HIDE DEF c, L
  <1>3. LoopOK(all, c, rows, n, L) BY <1>2, LoopEnds
  <1>4. all \in Seq(LongCandle) BY <1>3 DEF LoopOK
  <1> HIDE DEF all
  <1>5. K \in Nat /\ K <= Len(all)
    <2>1. Len(all) \in Nat BY <1>4
    <2>2. K = IF limit <= Len(all) THEN limit ELSE Len(all) BY <2>1, MinOfTwo
    <2> QED BY <2>1, <2>2
  <1>k. K = Min({limit, Len(all)}) OBVIOUS
  <1> HIDE DEF K
  <1>6. cut \in Seq(LongCandle) /\ Len(cut) = K /\ \A i \in 1 .. K : cut[i] = all[i]
    <2>1. \A i \in 1 .. K : all[i] \in LongCandle BY <1>4, <1>5
    <2> QED BY <1>5, <2>1, SubSeqProperties
  <1> HIDE DEF cut
  <1>7. \A i \in 1 .. K : (K - i) + 1 \in 1 .. K BY <1>5
  <1>8. answer = [i \in 1 .. K |-> cut[(K - i) + 1]] BY <1>6 DEF Reverse
  <1> HIDE DEF answer
  <1>9. \A i \in 1 .. K : answer[i] = cut[(K - i) + 1] BY <1>8
  <1>10. answer \in [1 .. K -> LongCandle]
    <2>1. \A i \in 1 .. K : cut[(K - i) + 1] \in LongCandle BY <1>4, <1>5, <1>6, <1>7
    <2> QED BY <1>8, <2>1
  <1>11. answer \in Seq(LongCandle) /\ Len(answer) = K BY <1>5, <1>10
  <1>12. \A i \in 1 .. K : answer[i] = all[(K - i) + 1] BY <1>6, <1>7, <1>9
  <1>13. Answers(answer, all, K, rows, n, limit, end)
    BY <1>2, <1>3, <1>11, <1>12, <1>k DEF Answers
  <1> QED BY <1>1, <1>13

(* A candle of the loop is whole when every row of its interval was fetched. *)
LEMMA WholeWhenFetched ==
  ASSUME NEW rows, TableOK(rows), NEW n \in Nat \ {0}, NEW end \in Int, NEW c, NEW L,
         NEW x \in LongCandle, CandleSoFar(x, c, rows, n, L),
         Seen(c, L) \subseteq Before(rows, end),
         RowsIn(rows, n, end, x.from \div n) \subseteq Seen(c, L)
  PROVE  IsCandleOf(x, rows, n, end)
  <1> DEFINE q == x.from \div n
             S == RowsIn(rows, n, end, q)
  <1>1. SeenIn(c, n, L, q) = S BY DEF SeenIn, RowsIn, Before
  <1>2. BarOf(x.bar, rows, S) /\ x.from = q * n /\ x.to = x.from + n
    BY <1>1 DEF CandleSoFar
  <1>3. x.from % n = 0
    <2>1. x.from \in Int BY DEF LongCandle
    <2>2. q \in Int BY <2>1, Truncated
    <2>3. (q * n) % n = 0 BY <2>2, StartOf
    <2> HIDE DEF q
    <2> QED BY <1>2, <2>3
  <1> QED BY <1>2, <1>3 DEF IsCandleOf, BarOf

(* The candles of longer intervals do not overlap, the newest is first, and all but
   the oldest are whole. *)
LEMMA LongerArePartialOnce ==
  ASSUME NEW rows, TableOK(rows), NEW n \in Nat \ {0}, NEW limit \in Nat,
         NEW end \in Int, NEW answer, NEW all, NEW K,
         Answers(answer, all, K, rows, n, limit, end)
  PROVE  /\ \A i, j \in DOMAIN answer : i < j => answer[i].from >= answer[j].to
         /\ \A i \in DOMAIN answer : i < Len(answer) => IsCandleOf(answer[i], rows, n, end)
  <1> DEFINE F == RowsFetched(rows, n * limit, end)
             q(i) == all[i].from \div n
  <1>0. PICK c, L : /\ OldestFirst(c, rows, L) /\ Seen(c, L) = F
                    /\ LoopOK(all, c, rows, n, L)
                    /\ K = Min({limit, Len(all)})
                    /\ answer \in Seq(LongCandle) /\ Len(answer) = K
                    /\ \A i \in 1 .. K : answer[i] = all[(K - i) + 1]
    BY DEF Answers
  <1>1. /\ all \in Seq(LongCandle) /\ Len(all) \in Nat
        /\ \A i \in 1 .. Len(all) : CandleSoFar(all[i], c, rows, n, L)
        /\ \A i, j \in 1 .. Len(all) : i < j => q(i) < q(j)
    BY <1>0 DEF LoopOK
  <1>2. K \in Nat /\ K <= Len(all)
    <2>1. K = IF limit <= Len(all) THEN limit ELSE Len(all) BY <1>0, <1>1, MinOfTwo
    <2> QED BY <1>1, <2>1
  <1>3. DOMAIN answer = 1 .. K BY <1>0
  <1>4. \A i \in 1 .. Len(all) : /\ all[i] \in LongCandle /\ all[i].from \in Int
                                 /\ q(i) \in Int /\ all[i].from = q(i) * n
                                 /\ all[i].to = q(i) * n + n
    <2> SUFFICES ASSUME NEW i \in 1 .. Len(all)
                 PROVE  /\ all[i] \in LongCandle /\ all[i].from \in Int
                        /\ q(i) \in Int /\ all[i].from = q(i) * n
                        /\ all[i].to = q(i) * n + n
      OBVIOUS
    <2>1. all[i] \in LongCandle BY <1>1
    <2>2. all[i].from \in Int BY <2>1 DEF LongCandle
    <2>3. q(i) \in Int BY <2>2, Truncated
    <2> QED BY <1>1, <2>1, <2>2, <2>3 DEF CandleSoFar
  <1> HIDE DEF q
  <1>5. ASSUME NEW i \in 1 .. K, NEW j \in 1 .. K, i < j PROVE answer[i].from >= answer[j].to
    <2> DEFINE a == (K - i) + 1
               b == (K - j) + 1
    <2>1. a \in 1 .. Len(all) /\ b \in 1 .. Len(all) /\ b < a BY <1>1, <1>2, <1>5
    <2>2. answer[i] = all[a] /\ answer[j] = all[b] BY <1>0
    <2> HIDE DEF a, b
    <2>3. q(b) < q(a) /\ q(a) \in Int /\ q(b) \in Int BY <1>1, <1>4, <2>1
    <2>4. all[a].from = q(a) * n /\ all[b].to = q(b) * n + n BY <1>4, <2>1
    <2>5. q(b) * n + n <= q(a) * n
      <3>1. q(b) + 1 <= q(a) BY <2>3
      <3> QED BY <2>3, <3>1
    <2> QED BY <2>2, <2>3, <2>4, <2>5
  <1>6. ASSUME NEW i \in 1 .. K, i < K PROVE IsCandleOf(answer[i], rows, n, end)
    <2> DEFINE a == (K - i) + 1
               x == all[a]
    <2>1. a \in 1 .. Len(all) /\ 1 \in 1 .. Len(all) /\ 1 < a BY <1>1, <1>2, <1>6
    <2>2. answer[i] = x BY <1>0
    <2> HIDE DEF a
    <2>3. F \subseteq Before(rows, end) /\ Before(rows, end) \subseteq Int
          /\ \A m \in F, k \in Before(rows, end) : m < k => k \in F
      <3>1. n * limit \in Int OBVIOUS
      <3> QED BY <3>1, FetchedAre
    <2>4. PICK k \in F : k \div n = q(1)
      <3>1. BarOf(all[1].bar, rows, SeenIn(c, n, L, q(1))) BY <1>1, <2>1 DEF CandleSoFar, q
      <3>2. SeenIn(c, n, L, q(1)) # {} BY <3>1 DEF BarOf
      <3> QED BY <1>0, <3>2 DEF SeenIn
    <2>5. q(1) < q(a) /\ q(1) \in Int /\ q(a) \in Int BY <1>1, <1>4, <2>1
    <2>6. RowsIn(rows, n, end, q(a)) \subseteq F
      <3> SUFFICES ASSUME NEW m \in RowsIn(rows, n, end, q(a)) PROVE m \in F OBVIOUS
      <3>1. m \in Before(rows, end) /\ m \div n = q(a) BY DEF RowsIn, Before
      <3>2. m \in Int /\ k \in Int BY <2>3, <3>1
      <3>3. ASSUME m <= k PROVE FALSE
        <4>1. m \div n <= k \div n BY <3>2, <3>3, IntervalOrder
        <4> QED BY <2>4, <2>5, <3>1, <4>1
      <3>4. k < m BY <3>2, <3>3
      <3> QED BY <2>3, <3>1, <3>4
    <2>7. x \in LongCandle /\ CandleSoFar(x, c, rows, n, L) BY <1>1, <1>4, <2>1
    <2>8. x.from \div n = q(a) BY DEF q
    <2> HIDE DEF x
    <2>9. Seen(c, L) \subseteq Before(rows, end)
          /\ RowsIn(rows, n, end, x.from \div n) \subseteq Seen(c, L)
      BY <1>0, <2>3, <2>6, <2>8
    <2>10. IsCandleOf(x, rows, n, end) BY <2>7, <2>9, WholeWhenFetched
    <2> QED BY <2>2, <2>10
  <1> QED BY <1>0, <1>3, <1>5, <1>6

-----------------------------------------------------------------------------
(* The answer: single minutes *)

(* A row is the candle of its minute. *)
LEMMA MinuteIsCandle ==
  ASSUME NEW rows, TableOK(rows), NEW end \in Int, NEW m \in Before(rows, end),
         NEW x \in LongCandle, x.from = m, x.to = m + 1, x.bar = rows[m]
  PROVE  IsCandleOf(x, rows, 1, end)
  <1>1. m \in Int /\ m \in DOMAIN rows /\ m < end BY DEF Before, TableOK
  <1>2. \A k \in Int : k \div 1 = k /\ k % 1 = 0 OBVIOUS
  <1>3. x.from \div 1 = m /\ x.from % 1 = 0 BY <1>1, <1>2
  <1>4. RowsIn(rows, 1, end, m) = {m}
    <2>1. \A k \in DOMAIN rows : k \div 1 = k BY <1>2 DEF TableOK
    <2> QED BY <1>1, <2>1 DEF RowsIn
  <1>5. BarOf(rows[m], rows, {m}) BY <1>1, BarOfOne
  <1> QED BY <1>3, <1>4, <1>5 DEF IsCandleOf, BarOf

(* The candles of single minutes: one of each row fetched, the newest first. *)
LEMMA MinutesAreWhole ==
  ASSUME NEW rows, TableOK(rows), NEW limit \in Nat, NEW end \in Int
  PROVE  LET answer == GetCandles(rows, 1, limit, end)
         IN  /\ \A i, j \in DOMAIN answer : i < j => answer[i].from >= answer[j].to
             /\ \A i \in DOMAIN answer : IsCandleOf(answer[i], rows, 1, end)
  <1> DEFINE answer == GetCandles(rows, 1, limit, end)
             F == RowsFetched(rows, limit, end)
  <1>0. limit \in Int OBVIOUS
  <1>1. /\ answer \in Seq(LongCandle) /\ Len(answer) = Cardinality(F)
        /\ \A i \in 1 .. Len(answer) : /\ answer[i].from \in F
                                       /\ answer[i].to = answer[i].from + 1
                                       /\ answer[i].bar = rows[answer[i].from]
        /\ \A i, j \in 1 .. Len(answer) : i < j => answer[i].from > answer[j].from
    <2>1. answer = Get1mCandles(rows, limit, end) BY DEF GetCandles
    <2> HIDE DEF answer
    <2> QED BY <1>0, <2>1, FetchedInOrder
  <1>2. F \subseteq Before(rows, end) /\ Before(rows, end) \subseteq Int BY <1>0, FetchedAre
  <1> HIDE DEF answer, F
  <1>3. DOMAIN answer = 1 .. Len(answer) BY <1>1
  <1>4. ASSUME NEW i \in DOMAIN answer, NEW j \in DOMAIN answer, i < j
        PROVE  answer[i].from >= answer[j].to
    <2>1. /\ answer[i].from > answer[j].from /\ answer[j].to = answer[j].from + 1
          /\ answer[i].from \in Int /\ answer[j].from \in Int
      BY <1>1, <1>2, <1>3, <1>4
    <2> QED BY <2>1
  <1>5. ASSUME NEW i \in DOMAIN answer PROVE IsCandleOf(answer[i], rows, 1, end)
    <2> DEFINE x == answer[i]
               m == x.from
    <2>1. x \in LongCandle /\ m \in Before(rows, end) /\ x.to = m + 1 /\ x.bar = rows[m]
      BY <1>1, <1>2, <1>3
    <2> HIDE DEF x
    <2> QED BY <2>1, MinuteIsCandle DEF x
  <1> QED BY <1>4, <1>5 DEF answer

(* The table and the numbers of a request. *)
LEMMA RequestOK ==
  ASSUME NEW rows \in Tables, NEW n \in Intervals, NEW limit \in Limits, NEW end \in Ends
  PROVE  TableOK(rows) /\ n \in Nat \ {0} /\ limit \in Nat /\ end \in Int
  BY HistoryAssumption DEF HistoryAssumption, TableOK, BarType

(* An answer's candles do not overlap, and all but the oldest are whole. *)
LEMMA PartialOnce ==
  ASSUME NEW rows \in Tables, NEW n \in Intervals, NEW limit \in Limits, NEW end \in Ends
  PROVE  LET answer == GetCandles(rows, n, limit, end)
         IN  /\ \A i, j \in DOMAIN answer : i < j => answer[i].from >= answer[j].to
             /\ \A i \in DOMAIN answer : i < Len(answer) => IsCandleOf(answer[i], rows, n, end)
  <1> DEFINE answer == GetCandles(rows, n, limit, end)
  <1>1. TableOK(rows) /\ n \in Nat \ {0} /\ limit \in Nat /\ end \in Int BY RequestOK
  <1>2. CASE n = 1
    <2>1. /\ \A i, j \in DOMAIN answer : i < j => answer[i].from >= answer[j].to
          /\ \A i \in DOMAIN answer : IsCandleOf(answer[i], rows, n, end)
      BY <1>1, <1>2, MinutesAreWhole
    <2> QED BY <2>1
  <1>3. CASE n # 1
    <2>1. PICK all, K : Answers(answer, all, K, rows, n, limit, end)
      BY <1>1, <1>3, GetCandlesAnswers
    <2> HIDE DEF answer
    <2>2. /\ \A i, j \in DOMAIN answer : i < j => answer[i].from >= answer[j].to
          /\ \A i \in DOMAIN answer : i < Len(answer) => IsCandleOf(answer[i], rows, n, end)
      BY <1>1, <2>1, LongerArePartialOnce
    <2> QED BY <2>2 DEF answer
  <1> QED BY <1>2, <1>3

(* Whatever rows are missing from the table, an answer's candles are of different
   intervals, newest first, and each but the oldest is put together from all the rows
   of its interval. *)
THEOREM AnswersArePartialOnce == Spec => []OnlyTheOldestIsPartial
  <1>1. OnlyTheOldestIsPartial BY PartialOnce DEF OnlyTheOldestIsPartial
  <1> QED BY <1>1, PTL

-----------------------------------------------------------------------------
(* A history without gaps *)

(* The members of S are the consecutive minutes from a to b. *)
Span(S, a, b) == a \in Int /\ b \in Int /\ a <= b /\ S = a .. b

(* The newest of consecutive minutes. *)
LEMMA NewestOfRange ==
  ASSUME NEW a \in Int, NEW b \in Int, NEW limit \in Int
  PROVE  NewestRows(a .. b, limit) = {m \in a .. b : b - m < limit}
  <1>1. ASSUME NEW m \in a .. b PROVE Cardinality({k \in a .. b : k > m}) = b - m
    <2> DEFINE c == m + 1
    <2>1. {k \in a .. b : k > m} = c .. b OBVIOUS
    <2>2. c \in Int /\ c <= b + 1 /\ b - m = (b - c) + 1 OBVIOUS
    <2> HIDE DEF c
    <2>3. Cardinality(c .. b) = IF c > b THEN 0 ELSE (b - c) + 1 BY <2>2, FS_Interval
    <2>4. CASE c > b BY <2>1, <2>2, <2>3, <2>4
    <2>5. CASE ~ (c > b) BY <2>1, <2>2, <2>3, <2>5
    <2> QED BY <2>4, <2>5
  <1> QED BY <1>1 DEF NewestRows

(* The newest of consecutive minutes are consecutive. *)
LEMMA NewestRange ==
  ASSUME NEW a \in Int, NEW M \in Int, a <= M, NEW r \in Nat \ {0}
  PROVE  \E b \in Int : /\ NewestRows(a .. M, r) = b .. M
                        /\ a <= b /\ b <= M
                        /\ M - r + 1 <= b
                        /\ b = a \/ b = M - r + 1
  <1> DEFINE b == IF a <= M - r + 1 THEN M - r + 1 ELSE a
  <1>1. NewestRows(a .. M, r) = {m \in a .. M : M - m < r} BY NewestOfRange
  <1>2. /\ b \in Int /\ a <= b /\ b <= M /\ M - r + 1 <= b
        /\ b = a \/ b = M - r + 1
    OBVIOUS
  <1>3. {m \in a .. M : M - m < r} = b .. M OBVIOUS
  <1> QED BY <1>1, <1>2, <1>3

(* The minutes from a to M are in the intervals from a's to M's, and in all of these. *)
InIntervals(a, M, n) ==
  /\ \A m \in a .. M : m \div n \in (a \div n) .. (M \div n)
  /\ \A q \in (a \div n) .. (M \div n) : \E m \in a .. M : m \div n = q

(* Consecutive minutes are in consecutive intervals. *)
LEMMA IntervalsOfRange ==
  ASSUME NEW a \in Int, NEW M \in Int, a <= M, NEW n \in Nat \ {0}
  PROVE  InIntervals(a, M, n)
  <1>1. ASSUME NEW m \in a .. M PROVE m \div n \in (a \div n) .. (M \div n)
    <2>1. m \in Int /\ a <= m /\ m <= M OBVIOUS
    <2>2. a \div n <= m \div n /\ m \div n <= M \div n BY <2>1, IntervalOrder
    <2>3. a \div n \in Int /\ m \div n \in Int /\ M \div n \in Int BY <2>1, Truncated
    <2> QED BY <2>2, <2>3
  <1>2. ASSUME NEW q \in (a \div n) .. (M \div n) PROVE \E m \in a .. M : m \div n = q
    <2>1. /\ a \div n \in Int /\ M \div n \in Int
          /\ a < (a \div n) * n + n /\ (M \div n) * n <= M
      BY Truncated
    <2> DEFINE s == q * n
               qa == a \div n
               qM == M \div n
               m == IF a <= s THEN s ELSE a
    <2>2. q \in Int /\ s \in Int /\ qa <= q /\ q <= qM BY <2>1
    <2>3. qa * n <= s /\ s <= qM * n
      <3> HIDE DEF qa, qM
      <3>1. qa \in Int /\ qM \in Int BY <2>1 DEF qa, qM
      <3> QED BY <2>2, <3>1
    <2>4. a < s + n /\ s <= M
      <3>1. qa * n \in Int /\ qM * n \in Int BY <2>1
      <3>2. a < qa * n + n /\ qM * n <= M BY <2>1
      <3> HIDE DEF qa, qM, s
      <3> QED BY <2>2, <2>3, <3>1, <3>2
    <2>5. m \in Int /\ m \in a .. M /\ s <= m /\ m < s + n
      <3> HIDE DEF s
      <3> QED BY <2>2, <2>4
    <2> HIDE DEF m
    <2>6. m \div n = q BY <2>2, <2>5, InInterval
    <2> QED BY <2>5, <2>6
  <1> QED BY <1>1, <1>2 DEF InIntervals

(* q[1 .. N] are larger and larger numbers from a to b that leave none out. *)
LeavesNoneOut(q, N, a, b) ==
  /\ N \in Nat /\ a \in Int /\ b \in Int /\ a <= b
  /\ \A i \in 1 .. N : q[i] \in a .. b
  /\ \A i, j \in 1 .. N : i < j => q[i] < q[j]
  /\ \A x \in a .. b : \E i \in 1 .. N : q[i] = x

(* They are one after the other. *)
LEMMA Consecutive ==
  ASSUME NEW q, NEW N, NEW a, NEW b, LeavesNoneOut(q, N, a, b)
  PROVE  N = (b - a) + 1 /\ \A i \in 1 .. N : q[i] = (a + i) - 1
  <1>0. /\ N \in Nat /\ a \in Int /\ b \in Int /\ a <= b
        /\ \A i \in 1 .. N : q[i] \in a .. b
        /\ \A i, j \in 1 .. N : i < j => q[i] < q[j]
        /\ \A x \in a .. b : \E i \in 1 .. N : q[i] = x
    BY DEF LeavesNoneOut
  <1> DEFINE C == {i \in 1 .. N : q[i] # (a + i) - 1}
  <1>1. ASSUME C # {} PROVE FALSE
    <2> DEFINE i == Min(C)
    <2>1. C \subseteq Int /\ IsFiniteSet(C)
      <3>1. IsFiniteSet(1 .. N) /\ C \in SUBSET (1 .. N) BY <1>0, FS_Interval
      <3>2. IsFiniteSet(C) BY ONLY <3>1, FS_Subset
      <3> QED BY <1>0, <3>1, <3>2
    <2>2. i \in C /\ \A j \in C : i <= j
      <3> HIDE DEF C
      <3> QED BY <1>1, <2>1, MinIs
    <2> HIDE DEF i
    <2>3. i \in 1 .. N /\ q[i] # (a + i) - 1 /\ q[i] \in a .. b BY <1>0, <2>2
    <2>4. \A j \in 1 .. N : j < i => q[j] = (a + j) - 1 BY <1>0, <2>2, <2>3
    <2>5. q[i] > (a + i) - 1
      <3>1. CASE i = 1 BY <1>0, <2>3, <3>1
      <3>2. CASE i # 1
        <4>1. i - 1 \in 1 .. N /\ i - 1 < i BY <1>0, <2>3, <3>2
        <4>2. q[i - 1] = (a + i) - 2 /\ q[i - 1] < q[i] BY <1>0, <2>3, <2>4, <4>1
        <4> QED BY <1>0, <2>3, <4>2
      <3> QED BY <1>0, <3>1, <3>2
    <2>6. (a + i) - 1 \in a .. b BY <1>0, <2>3, <2>5
    <2>7. PICK j \in 1 .. N : q[j] = (a + i) - 1 BY <1>0, <2>6
    <2>8. CASE j < i
      <3>1. q[j] = (a + j) - 1 BY <1>0, <2>4, <2>8
      <3> QED BY <1>0, <2>3, <2>7, <2>8, <3>1
    <2>9. CASE i < j
      <3>1. q[i] < q[j] BY <1>0, <2>3, <2>9
      <3> QED BY <1>0, <2>3, <2>5, <2>7, <3>1
    <2>10. CASE i = j BY <1>0, <2>3, <2>7, <2>10
    <2> QED BY <1>0, <2>3, <2>8, <2>9, <2>10
  <1>2. \A i \in 1 .. N : q[i] = (a + i) - 1 BY <1>0, <1>1
  <1>3. N = (b - a) + 1
    <2>1. PICK i \in 1 .. N : q[i] = b BY <1>0
    <2>2. i = (b - a) + 1 BY <1>0, <1>2, <2>1
    <2>3. N \in 1 .. N BY <1>0, <2>1
    <2>4. q[N] = (a + N) - 1 /\ q[N] <= b BY <1>0, <1>2, <2>3
    <2> QED BY <1>0, <2>2, <2>4
  <1> QED BY <1>2, <1>3

-----------------------------------------------------------------------------
(* The answer for a history without gaps *)

(* all has one candle of each interval from that of b to that of M. *)
OneOfEach(all, n, b, M) ==
  /\ Len(all) = (M \div n - b \div n) + 1
  /\ \A i \in 1 .. Len(all) : all[i].from \div n = (b \div n + i) - 1

(* The loop makes one candle of each interval of consecutive rows. *)
LEMMA LoopOfRange ==
  ASSUME NEW rows, NEW c, NEW L, NEW n \in Nat \ {0}, NEW all,
         LoopOK(all, c, rows, n, L),
         NEW b, NEW M, Span(Seen(c, L), b, M)
  PROVE  OneOfEach(all, n, b, M)
  <1> DEFINE qb == b \div n
             qM == M \div n
             N  == Len(all)
             q  == [i \in 1 .. N |-> all[i].from \div n]
  <1>0. b \in Int /\ M \in Int /\ b <= M /\ Seen(c, L) = b .. M BY DEF Span
  <1>1. /\ all \in Seq(LongCandle) /\ N \in Nat
        /\ \A i \in 1 .. N : CandleSoFar(all[i], c, rows, n, L)
        /\ \A i, j \in 1 .. N : i < j => q[i] < q[j]
        /\ \A m \in b .. M : \E i \in 1 .. N : q[i] = m \div n
    <2>1. /\ all \in Seq(LongCandle) /\ N \in Nat
          /\ \A i \in 1 .. N : CandleSoFar(all[i], c, rows, n, L)
          /\ \A i, j \in 1 .. N : i < j => all[i].from \div n < all[j].from \div n
          /\ \A m \in b .. M : \E i \in 1 .. N : all[i].from \div n = m \div n
      <3>1. all \in Seq(LongCandle) /\ N \in Nat BY DEF LoopOK
      <3>2. \A i \in 1 .. N : CandleSoFar(all[i], c, rows, n, L) BY DEF LoopOK
      <3>3. \A i, j \in 1 .. N : i < j => all[i].from \div n < all[j].from \div n
        BY DEF LoopOK
      <3>4. \A m \in Seen(c, L) : \E i \in 1 .. N : all[i].from \div n = m \div n
        BY DEF LoopOK
      <3> HIDE DEF N
      <3> QED BY <1>0, <3>1, <3>2, <3>3, <3>4
    <2>2. \A i \in 1 .. N : q[i] = all[i].from \div n OBVIOUS
    <2> HIDE DEF q, N
    <2> QED BY <2>1, <2>2
  <1>2. qb \in Int /\ qM \in Int /\ qb <= qM BY <1>0, Truncated, IntervalOrder
  <1>3. /\ \A m \in b .. M : m \div n \in qb .. qM
        /\ \A x \in qb .. qM : \E m \in b .. M : m \div n = x
    <2>1. InIntervals(b, M, n) BY <1>0, IntervalsOfRange
    <2> QED BY <2>1 DEF InIntervals
  <1>5. ASSUME NEW i \in 1 .. N PROVE q[i] \in qb .. qM
    <2>1. BarOf(all[i].bar, rows, SeenIn(c, n, L, q[i])) BY <1>1 DEF CandleSoFar
    <2>2. SeenIn(c, n, L, q[i]) # {} BY <2>1 DEF BarOf
    <2>3. PICK m \in b .. M : m \div n = q[i] BY <1>0, <2>2 DEF SeenIn
    <2> HIDE DEF q, qb, qM
    <2> QED BY <1>3, <2>3
  <1>e. \A i \in 1 .. N : q[i] = all[i].from \div n OBVIOUS
  <1> HIDE DEF q, qb, qM
  <1>6. \A x \in qb .. qM : \E i \in 1 .. N : q[i] = x BY <1>1, <1>3
  <1>7. LeavesNoneOut(q, N, qb, qM) BY <1>1, <1>2, <1>5, <1>6 DEF LeavesNoneOut
  <1>8. N = (qM - qb) + 1 /\ \A i \in 1 .. N : q[i] = (qb + i) - 1
    BY <1>7, Consecutive
  <1> QED BY <1>e, <1>8 DEF qb, qM, OneOfEach

(* The rows from b to M are all rows from a on or hold limit intervals. *)
FetchedFrom(b, a, M, n, limit) ==
  /\ a <= b
  /\ M \div n <= b \div n + limit
  /\ M % n = n - 1 => /\ (M \div n - limit) + 1 <= b \div n
                      /\ \/ b = a
                         \/ b = (b \div n) * n /\ b \div n = (M \div n - limit) + 1

(* The rows fetched of consecutive ones: up to the last of them, and from the first of
   them or from as many as limit intervals hold. *)
LEMMA FetchedRange ==
  ASSUME NEW rows, NEW end, NEW n \in Nat \ {0}, NEW limit \in Nat \ {0},
         NEW a, NEW M, Span(Before(rows, end), a, M)
  PROVE  \E b \in Int : /\ Span(RowsFetched(rows, n * limit, end), b, M)
                        /\ FetchedFrom(b, a, M, n, limit)
  <1> DEFINE r  == n * limit
             qM == M \div n
  <1>0. a \in Int /\ M \in Int /\ a <= M /\ Before(rows, end) = a .. M BY DEF Span
  <1>1. r \in Nat \ {0} OBVIOUS
  <1> HIDE DEF r
  <1>2. PICK b \in Int : /\ NewestRows(a .. M, r) = b .. M
                         /\ a <= b /\ b <= M /\ M - r + 1 <= b
                         /\ b = a \/ b = M - r + 1
    BY <1>0, <1>1, NewestRange
  <1> DEFINE qb == b \div n
  <1>3. qb \in Int /\ qb * n <= b /\ b < qb * n + n BY <1>0, Truncated
  <1>4. qM \in Int /\ qM * n <= M /\ M < qM * n + n BY <1>0, Truncated
  <1>5. M % n = n - 1 => M = (qM * n + n) - 1 BY <1>0
  <1>6. RowsFetched(rows, r, end) = b .. M BY <1>0, <1>2 DEF RowsFetched
  <1>d. r = n * limit BY DEF r
  <1> HIDE DEF qb, qM
  <1>7. qM <= qb + limit
    <2>1. (qb + limit + 1) * n = qb * n + n + r /\ qb + limit + 1 \in Int BY <1>3, <1>d
    <2>2. M < (qb + limit + 1) * n
      <3>1. M < b + r BY <1>0, <1>1, <1>2
      <3> HIDE DEF r
      <3>2. qb * n \in Int BY <1>3
      <3>3. M < qb * n + n + r BY <1>0, <1>1, <1>3, <3>1, <3>2
      <3> QED BY <2>1, <3>3
    <2>3. qM < qb + limit + 1
      <3>1. qM * n < (qb + limit + 1) * n
        <4>1. qM * n \in Int /\ (qb + limit + 1) * n \in Int BY <1>4, <2>1
        <4> QED BY <1>0, <1>4, <2>2, <4>1
      <3> DEFINE s == qb + limit + 1
      <3>2. s \in Int /\ qM * n < s * n BY <2>1, <3>1
      <3> HIDE DEF s
      <3>3. qM < s
        <4>1. SUFFICES ASSUME s <= qM PROVE FALSE BY <1>4, <3>2
        <4>2. s * n <= qM * n BY <1>4, <3>2, <4>1
        <4>3. s * n \in Int /\ qM * n \in Int BY <1>4, <3>2
        <4> QED BY <3>2, <4>2, <4>3
      <3> QED BY <3>3 DEF s
    <2> QED BY <1>3, <1>4, <2>3
  <1>8. ASSUME M % n = n - 1
        PROVE  (qM - limit) + 1 <= qb /\ (b = a \/ (b = qb * n /\ qb = (qM - limit) + 1))
    <2> DEFINE s == (qM - limit) + 1
    <2>1. s \in Int BY <1>4
    <2>2. s * n = qM * n - r + n BY <1>4, <1>d
    <2>3. M - r + 1 = s * n
      <3>1. qM * n \in Int BY <1>4
      <3>2. M = (qM * n + n) - 1 BY <1>5, <1>8
      <3> HIDE DEF s
      <3> QED BY <1>0, <1>1, <2>2, <3>1, <3>2
    <2> HIDE DEF s
    <2>4. (s * n) \div n = s /\ s * n \in Int BY <2>1, StartOf
    <2>5. s <= qb
      <3>1. s * n <= b BY <1>2, <2>3
      <3>2. (s * n) \div n <= b \div n BY <2>4, <3>1, IntervalOrder
      <3> QED BY <2>4, <3>2 DEF qb
    <2>6. b = a \/ (b = s * n /\ qb = s)
      <3>1. CASE b = a BY <3>1
      <3>2. CASE b = M - r + 1 BY <2>3, <2>4, <3>2 DEF qb
      <3> QED BY <1>2, <3>1, <3>2
    <2> QED BY <2>5, <2>6 DEF s
  <1> QED BY <1>0, <1>2, <1>6, <1>7, <1>8, <1>d DEF qb, qM, Span, FetchedFrom

(* The intervals of consecutive rows, and the newest of them. *)
LEMMA PresentRange ==
  ASSUME NEW rows, NEW end, NEW n \in Nat \ {0},
         NEW a, NEW M, Span(Before(rows, end), a, M)
  PROVE  /\ IntervalsOf(rows, n, end) = (a \div n) .. (M \div n)
         /\ Max(IntervalsOf(rows, n, end)) = M \div n
  <1> DEFINE qa == a \div n
             qM == M \div n
  <1>0. a \in Int /\ M \in Int /\ a <= M /\ Before(rows, end) = a .. M BY DEF Span
  <1>1. IntervalsOf(rows, n, end) = {m \div n : m \in a .. M} BY <1>0 DEF IntervalsOf, Before
  <1>3. /\ \A m \in a .. M : m \div n \in qa .. qM
        /\ \A q \in qa .. qM : \E m \in a .. M : m \div n = q
    <2>1. InIntervals(a, M, n) BY <1>0, IntervalsOfRange
    <2> QED BY <2>1 DEF InIntervals
  <1>4. qa \in Int /\ qM \in Int /\ qa <= qM BY <1>0, Truncated, IntervalOrder
  <1>5. IntervalsOf(rows, n, end) = qa .. qM BY <1>1, <1>3
  <1> HIDE DEF qa, qM
  <1>6. qa .. qM \subseteq Int /\ qM \in qa .. qM /\ \A y \in qa .. qM : y <= qM BY <1>4
  <1>7. Max(qa .. qM) = qM BY <1>6, MaxOnly
  <1> QED BY <1>5, <1>7 DEF qa, qM

(* Longer intervals: the newest interval that has rows is missing from the answer only
   when the rows end within it; when they do not, the answer is complete and whole. *)
LEMMA LongerAreExact ==
  ASSUME NEW rows, TableOK(rows), NEW n \in Nat \ {0}, NEW limit \in Nat \ {0},
         NEW end \in Int, NEW answer, NEW all, NEW K,
         Answers(answer, all, K, rows, n, limit, end),
         NEW a, NEW M, Span(Before(rows, end), a, M)
  PROVE  /\ answer[1].from \div n >= M \div n - 1
         /\ M % n = n - 1 =>
              /\ {answer[i].from : i \in DOMAIN answer}
                   = {k * n : k \in NewestRows(IntervalsOf(rows, n, end), limit)}
              /\ \A i \in DOMAIN answer : IsCandleOf(answer[i], rows, n, end)
  <1> DEFINE F  == RowsFetched(rows, n * limit, end)
             qa == a \div n
             qM == M \div n
             N  == Len(all)
  <1>s. a \in Int /\ M \in Int /\ a <= M /\ Before(rows, end) = a .. M BY DEF Span
  <1>0. PICK c, L : /\ OldestFirst(c, rows, L) /\ Seen(c, L) = F
                    /\ LoopOK(all, c, rows, n, L)
                    /\ K = Min({limit, Len(all)})
                    /\ answer \in Seq(LongCandle) /\ Len(answer) = K
                    /\ \A i \in 1 .. K : answer[i] = all[(K - i) + 1]
    BY DEF Answers
  <1>1. PICK b \in Int : Span(F, b, M) /\ FetchedFrom(b, a, M, n, limit)
    BY FetchedRange
  <1>b. F = b .. M /\ a <= b /\ b <= M BY <1>1 DEF Span, FetchedFrom
  <1> DEFINE qb == b \div n
  <1> HIDE DEF F
  <1>2. N = (qM - qb) + 1 /\ \A i \in 1 .. N : all[i].from \div n = (qb + i) - 1
    <2>1. Span(Seen(c, L), b, M) BY <1>0, <1>1
    <2> HIDE DEF N, qM, qb
    <2>2. OneOfEach(all, n, b, M) BY <1>0, <2>1, LoopOfRange
    <2> QED BY <2>2 DEF N, qM, qb, OneOfEach
  <1>3. qa \in Int /\ qb \in Int /\ qM \in Int /\ qa <= qb /\ qb <= qM
    BY <1>s, <1>1, <1>b, Truncated, IntervalOrder
  <1>4. \A i \in 1 .. N : /\ all[i] \in LongCandle /\ all[i].from = ((qb + i) - 1) * n
                          /\ CandleSoFar(all[i], c, rows, n, L)
    <2> SUFFICES ASSUME NEW i \in 1 .. N
                 PROVE  /\ all[i] \in LongCandle /\ all[i].from = ((qb + i) - 1) * n
                        /\ CandleSoFar(all[i], c, rows, n, L)
      OBVIOUS
    <2>1. CandleSoFar(all[i], c, rows, n, L) /\ all \in Seq(LongCandle) BY <1>0 DEF LoopOK
    <2>2. all[i].from = (all[i].from \div n) * n BY <2>1 DEF CandleSoFar
    <2>3. all[i].from \div n = (qb + i) - 1 BY <1>2
    <2> QED BY <2>1, <2>2, <2>3
  <1>p. M % n = n - 1 => /\ (qM - limit) + 1 <= qb
                         /\ b = a \/ (b = qb * n /\ qb = (qM - limit) + 1)
    BY <1>1 DEF FetchedFrom
  <1>q. qM <= qb + limit BY <1>1 DEF FetchedFrom
  <1> HIDE DEF qa, qb, qM, N
  <1>5. K = (IF limit <= N THEN limit ELSE N) /\ N \in Nat \ {0}
    <2>1. N \in Int /\ limit \in Int /\ N > 0 BY <1>2, <1>3
    <2>2. Min({limit, N}) = IF limit <= N THEN limit ELSE N BY <2>1, MinOfTwo
    <2> QED BY <1>0, <2>1, <2>2 DEF N
  <1>6. K \in Nat \ {0} /\ K <= N /\ (K = N \/ K = limit) BY <1>5
  <1>7. answer[1].from \div n >= qM - 1
    <2>1. 1 \in 1 .. K /\ (K - 1) + 1 = K BY <1>6
    <2>2. answer[1] = all[K] BY <1>0, <2>1
    <2>3. K \in 1 .. N BY <1>5, <1>6
    <2>4. all[K].from \div n = (qb + K) - 1 BY <1>2, <2>3
    <2>5. (qb + K) - 1 >= qM - 1 BY <1>2, <1>3, <1>6, <1>q
    <2> QED BY <2>2, <2>4, <2>5
  <1>8. DOMAIN answer = 1 .. K BY <1>0
  <1>9. ASSUME M % n = n - 1
        PROVE  /\ {answer[i].from : i \in DOMAIN answer}
                    = {k * n : k \in NewestRows(IntervalsOf(rows, n, end), limit)}
               /\ \A i \in DOMAIN answer : IsCandleOf(answer[i], rows, n, end)
    <2>1. /\ (qM - limit) + 1 <= qb
          /\ b = a \/ (b = qb * n /\ qb = (qM - limit) + 1)
      BY <1>9, <1>p
    <2>2. K = N BY <1>2, <1>3, <1>6, <2>1
    <2>3. NewestRows(IntervalsOf(rows, n, end), limit) = qb .. qM
      <3>1. IntervalsOf(rows, n, end) = qa .. qM BY PresentRange DEF qa, qM
      <3>2. NewestRows(qa .. qM, limit) = {k \in qa .. qM : qM - k < limit}
        BY <1>3, NewestOfRange
      <3>3. b = a => qb = qa BY DEF qa, qb
      <3>4. {k \in qa .. qM : qM - k < limit} = qb .. qM BY <1>3, <2>1, <3>3
      <3> QED BY <3>1, <3>2, <3>4
    <2>4. \A i \in 1 .. K : /\ (K - i) + 1 \in 1 .. N
                            /\ answer[i] = all[(K - i) + 1]
                            /\ answer[i].from = (((qb + K) - i) * n)
      <3> SUFFICES ASSUME NEW i \in 1 .. K
                   PROVE  /\ (K - i) + 1 \in 1 .. N
                          /\ answer[i] = all[(K - i) + 1]
                          /\ answer[i].from = (((qb + K) - i) * n)
        OBVIOUS
      <3>1. (K - i) + 1 \in 1 .. N BY <1>5, <2>2
      <3>2. answer[i] = all[(K - i) + 1] BY <1>0
      <3>3. all[(K - i) + 1].from = ((qb + ((K - i) + 1)) - 1) * n BY <1>4, <3>1
      <3>4. (qb + ((K - i) + 1)) - 1 = (qb + K) - i BY <1>3, <1>6
      <3> QED BY <3>1, <3>2, <3>3, <3>4
    <2>5. {answer[i].from : i \in 1 .. K} = {k * n : k \in qb .. qM}
      <3>1. ASSUME NEW i \in 1 .. K PROVE (qb + K) - i \in qb .. qM
        BY <1>2, <1>3, <1>5, <2>2
      <3>2. ASSUME NEW k \in qb .. qM
            PROVE  (qb + K) - k \in 1 .. K /\ (qb + K) - ((qb + K) - k) = k
        BY <1>2, <1>3, <1>5, <2>2
      <3>3. ASSUME NEW k \in qb .. qM PROVE \E i \in 1 .. K : answer[i].from = k * n
        <4> DEFINE i == (qb + K) - k
        <4>1. i \in 1 .. K /\ (qb + K) - i = k BY <3>2
        <4> HIDE DEF i
        <4>2. answer[i].from = ((qb + K) - i) * n BY <2>4, <4>1
        <4> QED BY <4>1, <4>2
      <3>4. ASSUME NEW i \in 1 .. K PROVE \E k \in qb .. qM : answer[i].from = k * n
        BY <2>4, <3>1
      <3> QED BY <3>3, <3>4
    <2>6. ASSUME NEW i \in 1 .. K PROVE IsCandleOf(answer[i], rows, n, end)
      <3> DEFINE j == (K - i) + 1
                 x == all[j]
                 q == (qb + j) - 1
      <3>1. j \in 1 .. N /\ answer[i] = x BY <2>4
      <3> HIDE DEF j
      <3>2. /\ x \in LongCandle /\ CandleSoFar(x, c, rows, n, L)
            /\ x.from \div n = q
        BY <1>2, <1>4, <3>1
      <3>3. q \in Int /\ qb <= q BY <1>3, <1>5, <3>1
      <3> HIDE DEF x, q
      <3>4. RowsIn(rows, n, end, q) \subseteq b .. M
        <4> SUFFICES ASSUME NEW m \in RowsIn(rows, n, end, q) PROVE m \in b .. M OBVIOUS
        <4>1. m \in a .. M /\ m \div n = q BY <1>s DEF RowsIn, Before
        <4>2. CASE b = a BY <4>1, <4>2
        <4>3. CASE b = qb * n
          <5>1. m \in Int /\ q * n <= m
            <6>1. m \in Int BY <4>1
            <6> QED BY <4>1, <6>1, Truncated
          <5>2. qb * n <= q * n BY <1>3, <3>3
          <5>3. qb * n \in Int /\ q * n \in Int BY <1>3, <3>3
          <5>4. b <= m BY <4>3, <5>1, <5>2, <5>3
          <5> QED BY <4>1, <5>4
        <4> QED BY <2>1, <4>2, <4>3
      <3>5. b .. M \subseteq Before(rows, end) BY <1>s, <1>1, <1>b
      <3>6. Seen(c, L) = b .. M BY <1>0, <1>b
      <3>7. Seen(c, L) \subseteq Before(rows, end)
            /\ RowsIn(rows, n, end, x.from \div n) \subseteq Seen(c, L)
        BY <3>2, <3>4, <3>5, <3>6
      <3>8. IsCandleOf(x, rows, n, end) BY <3>2, <3>7, WholeWhenFetched
      <3> QED BY <3>1, <3>8
    <2> QED BY <1>8, <2>3, <2>5, <2>6
  <1> QED BY <1>7, <1>9 DEF qM

(* The newest limit minutes that have rows. *)
NewestMinutes(answer, rows, limit, end, M) ==
  /\ answer[1].from = M
  /\ {answer[i].from : i \in DOMAIN answer}
       = {k * 1 : k \in NewestRows(IntervalsOf(rows, 1, end), limit)}

(* The candles of single minutes are these. *)
LEMMA MinutesAreExact ==
  ASSUME NEW rows, TableOK(rows), NEW limit \in Nat \ {0}, NEW end \in Int,
         NEW a, NEW M, Span(Before(rows, end), a, M)
  PROVE  NewestMinutes(GetCandles(rows, 1, limit, end), rows, limit, end, M)
  <1> DEFINE answer == GetCandles(rows, 1, limit, end)
             F == RowsFetched(rows, limit, end)
  <1>0. limit \in Int OBVIOUS
  <1>s. a \in Int /\ M \in Int /\ a <= M /\ Before(rows, end) = a .. M BY DEF Span
  <1>1. /\ answer \in Seq(LongCandle)
        /\ \A i \in 1 .. Len(answer) : answer[i].from \in F
        /\ \A i, j \in 1 .. Len(answer) : i < j => answer[i].from > answer[j].from
        /\ \A m \in F : \E i \in 1 .. Len(answer) : answer[i].from = m
    <2>1. answer = Get1mCandles(rows, limit, end) BY DEF GetCandles
    <2> HIDE DEF answer
    <2> QED BY <1>0, <2>1, FetchedInOrder
  <1>2. DOMAIN answer = 1 .. Len(answer) BY <1>1
  <1> HIDE DEF answer
  <1>3. PICK b \in Int : F = b .. M /\ b <= M
    <2>1. NewestRows(a .. M, limit) = F BY <1>s DEF RowsFetched
    <2> HIDE DEF F
    <2> QED BY <1>s, <2>1, NewestRange
  <1>4. IntervalsOf(rows, 1, end) = a .. M
    <2>1. IntervalsOf(rows, 1, end) = (a \div 1) .. (M \div 1)
      <3>1. 1 \in Nat \ {0} OBVIOUS
      <3> QED BY <3>1, PresentRange
    <2>2. a \div 1 = a /\ M \div 1 = M BY <1>s
    <2> QED BY <2>1, <2>2
  <1>5. {k * 1 : k \in F} = F
    <2>1. \A k \in F : k * 1 = k BY <1>s, <1>3
    <2> HIDE DEF F
    <2> QED BY <2>1
  <1>6. NewestRows(IntervalsOf(rows, 1, end), limit) = F BY <1>s, <1>4 DEF RowsFetched
  <1> HIDE DEF F
  <1>7. answer[1].from = M
    <2>1. PICK i \in 1 .. Len(answer) : answer[i].from = M BY <1>s, <1>1, <1>3
    <2>2. CASE i = 1 BY <2>1, <2>2
    <2>3. CASE i # 1
      <3>1. Len(answer) \in Nat BY <1>1
      <3>2. 1 \in 1 .. Len(answer) /\ 1 < i BY <2>1, <2>3, <3>1
      <3>3. answer[1].from > M /\ answer[1].from \in b .. M BY <1>1, <1>3, <2>1, <3>2
      <3> QED BY <1>s, <3>3
    <2> QED BY <2>2, <2>3
  <1>8. {answer[i].from : i \in DOMAIN answer} = F BY <1>1, <1>2
  <1> QED BY <1>5, <1>6, <1>7, <1>8 DEF answer, NewestMinutes

(* The answer from a table without gaps. *)
LEMMA Exact ==
  ASSUME NEW rows \in Tables, NEW n \in Intervals, NEW limit \in Limits, NEW end \in Ends
  PROVE  LET answer  == GetCandles(rows, n, limit, end)
             minutes == {m \in DOMAIN rows : m < end}
             present == IntervalsOf(rows, n, end)
         IN  limit > 0 /\ minutes # {} /\ Unbroken(minutes) =>
               /\ answer[1].from \div n >= Max(present) - 1
               /\ Max(minutes) % n = n - 1 =>
                    /\ {answer[i].from : i \in DOMAIN answer} = {k * n : k \in NewestRows(present, limit)}
                    /\ \A i \in DOMAIN answer : IsCandleOf(answer[i], rows, n, end)
  <1> DEFINE answer  == GetCandles(rows, n, limit, end)
             minutes == {m \in DOMAIN rows : m < end}
             present == IntervalsOf(rows, n, end)
             a == Min(minutes)
             M == Max(minutes)
  <1>1. TableOK(rows) /\ n \in Nat \ {0} /\ limit \in Nat /\ end \in Int BY RequestOK
  <1>2. SUFFICES ASSUME limit > 0, minutes # {}, Unbroken(minutes)
                 PROVE  /\ answer[1].from \div n >= Max(present) - 1
                        /\ M % n = n - 1 =>
                             /\ {answer[i].from : i \in DOMAIN answer}
                                  = {k * n : k \in NewestRows(present, limit)}
                             /\ \A i \in DOMAIN answer : IsCandleOf(answer[i], rows, n, end)
    OBVIOUS
  <1>3. limit \in Nat \ {0} BY <1>1, <1>2
  <1>4. minutes = Before(rows, end) BY DEF Before
  <1>5. minutes \subseteq Int /\ IsFiniteSet(minutes)
    <2> HIDE DEF minutes
    <2>1. 0 \in Int OBVIOUS
    <2> QED BY <1>1, <1>4, <2>1, FetchedAre
  <1>6. a \in Int /\ M \in Int /\ Span(Before(rows, end), a, M)
    <2> HIDE DEF minutes
    <2>1. a \in minutes /\ M \in minutes /\ \A y \in minutes : a <= y
      BY <1>2, <1>5, MinIs, MaxIs
    <2>2. minutes = a .. M BY <1>2 DEF Unbroken
    <2> QED BY <1>4, <1>5, <2>1, <2>2 DEF Span
  <1> HIDE DEF a, M, minutes
  <1>7. Max(present) = M \div n BY <1>1, <1>6, PresentRange
  <1>8. CASE n = 1
    <2>1. /\ answer[1].from = M
          /\ {answer[i].from : i \in DOMAIN answer}
               = {k * 1 : k \in NewestRows(IntervalsOf(rows, 1, end), limit)}
      <3>1. NewestMinutes(GetCandles(rows, 1, limit, end), rows, limit, end, M)
        BY <1>1, <1>3, <1>6, MinutesAreExact
      <3>2. NewestMinutes(answer, rows, limit, end, M) BY <1>8, <3>1
      <3> HIDE DEF answer
      <3> QED BY <3>2 DEF NewestMinutes
    <2>2. \A i \in DOMAIN answer : IsCandleOf(answer[i], rows, n, end)
      BY <1>1, <1>8, MinutesAreWhole
    <2> HIDE DEF answer
    <2>3. M \div n \in Int /\ answer[1].from \div n = M \div n BY <1>1, <1>6, <2>1
    <2> HIDE DEF present
    <2>4. answer[1].from \div n >= Max(present) - 1 BY <1>7, <2>3
    <2> QED BY <1>8, <2>1, <2>2, <2>4 DEF present
  <1>9. CASE n # 1
    <2>1. PICK all, K : Answers(answer, all, K, rows, n, limit, end)
      BY <1>1, <1>9, GetCandlesAnswers
    <2> HIDE DEF answer
    <2>2. /\ answer[1].from \div n >= M \div n - 1
          /\ M % n = n - 1 =>
               /\ {answer[i].from : i \in DOMAIN answer}
                    = {k * n : k \in NewestRows(present, limit)}
               /\ \A i \in DOMAIN answer : IsCandleOf(answer[i], rows, n, end)
      BY <1>1, <1>3, <1>6, <2>1, LongerAreExact
    <2> QED BY <1>7, <2>2
  <1> QED BY <1>8, <1>9

(* From rows without gaps the answer leaves out at most the newest interval, and
   nothing when the rows end with an interval: then it is the newest candles, each of
   them whole. *)
THEOREM UnbrokenAnswersAreExact == Spec => []UnbrokenHistoryIsExact
  <1>1. UnbrokenHistoryIsExact BY Exact DEF UnbrokenHistoryIsExact
  <1> QED BY <1>1, PTL

=============================================================================
