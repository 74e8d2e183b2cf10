------------------------------ MODULE SumLemmas ------------------------------
(***************************************************************************)
(* SumFunctionOnSet over finite sets: what the sums of amounts, of volumes *)
(* and of worth in this project rest on.  The fold is a recursive function *)
(* over sets; it is shown to be defined, and its laws to hold, by looking  *)
(* at a smallest set that would be an exception (Smallest), which has none *)
(* of the second-order quantifiers of an induction theorem.                *)
(***************************************************************************)
EXTENDS Integers, FiniteSets, Functions, FiniteSetTheorems, WellFoundedInduction, TLAPS

(* Among finite sets there is one that has no other of them within it. *)
LEMMA Smallest ==
  ASSUME NEW S, IsFiniteSet(S), NEW C, C \subseteq SUBSET S, C # {}
  PROVE  \E T \in C : \A U \in C : U \subseteq T => U = T
  <1>1. C \subseteq FiniteSubsetsOf(S) BY FS_FiniteSubsetsOfFinite
  <1>2. \E T \in C : \A U \in C : <<U, T>> \notin StrictSubsetOrdering(S)
    BY <1>1, FS_StrictSubsetOrderingWellFounded, WFMin
  <1> QED BY <1>2 DEF StrictSubsetOrdering

-----------------------------------------------------------------------------
(* The fold is defined *)

(* The element that the fold takes first. *)
First(s) == CHOOSE x \in s : TRUE

(* What the fold computes for s, when g holds the sums of smaller sets. *)
Folded(f, g, s) == IF s = {} THEN 0 ELSE f[First(s)] + g[s \ {First(s)}]

(* g holds the sums of all subsets of S. *)
Holds(f, S, g) == g = [s \in SUBSET S |-> Folded(f, g, s)]

(* The first element is one of the set. *)
LEMMA FirstIn == ASSUME NEW s, s # {} PROVE First(s) \in s
  BY DEF First

(* Two tables of sums agree wherever both are defined. *)
LEMMA HoldsOnce ==
  ASSUME NEW f, NEW S, IsFiniteSet(S), NEW T \in SUBSET S,
         NEW g, Holds(f, S, g), NEW h, Holds(f, T, h)
  PROVE  \A s \in SUBSET T : g[s] = h[s]
  <1> DEFINE C == {s \in SUBSET T : g[s] # h[s]}
  <1>1. SUFFICES ASSUME C # {} PROVE FALSE OBVIOUS
  <1>2. PICK s \in C : \A u \in C : u \subseteq s => u = s
    <2>1. C \subseteq SUBSET S OBVIOUS
    <2> HIDE DEF C
    <2> QED BY <1>1, <2>1, FS_Subset, Smallest
  <1>3. s \in SUBSET S /\ g[s] = Folded(f, g, s) /\ h[s] = Folded(f, h, s)
    BY DEF Holds
  <1>4. CASE s = {} BY <1>3, <1>4 DEF Folded
  <1>5. CASE s # {}
    <2>1. First(s) \in s BY <1>5, FirstIn
    <2>2. s \ {First(s)} \notin C BY <1>2, <2>1
    <2>3. g[s \ {First(s)}] = h[s \ {First(s)}] BY <2>2
    <2> QED BY <1>3, <1>5, <2>3 DEF Folded
  <1> QED BY <1>4, <1>5

(* Every finite set has such a table. *)
LEMMA HoldsSome ==
  ASSUME NEW f, NEW S, IsFiniteSet(S)
  PROVE  \E g : Holds(f, S, g)
  <1> DEFINE C == {T \in SUBSET S : ~ \E g : Holds(f, T, g)}
  <1>1. SUFFICES ASSUME C # {} PROVE FALSE OBVIOUS
  <1>2. PICK T \in C : \A u \in C : u \subseteq T => u = T
    <2>1. C \subseteq SUBSET S OBVIOUS
    <2> HIDE DEF C
    <2> QED BY <1>1, <2>1, Smallest
  <1>3. \A U \in SUBSET T : U # T => \E g : Holds(f, U, g) BY <1>2
  <1> DEFINE table(U) == CHOOSE g : Holds(f, U, g)
             below    == [s \in (SUBSET T) \ {T} |-> table(s)[s]]
             g        == [s \in SUBSET T |-> IF s = T THEN Folded(f, below, T) ELSE below[s]]
  <1>4. \A U \in SUBSET T : U # T => Holds(f, U, table(U)) BY <1>3
  <1>5. ASSUME NEW s \in SUBSET T PROVE g[s] = Folded(f, g, s)
    <2>1. CASE s = {} /\ s # T
      <3>1. Holds(f, s, table(s)) BY <1>4, <2>1
      <3>2. table(s)[s] = Folded(f, table(s), s)
        <4> HIDE DEF table
        <4> QED BY <3>1 DEF Holds
      <3>3. g[s] = table(s)[s] BY <2>1
      <3> HIDE DEF table, g
      <3> QED BY <2>1, <3>2, <3>3 DEF Folded
    <2>2. CASE s = {} /\ s = T BY <2>2 DEF Folded
    <2>3. CASE s # {}
      <3> DEFINE r == s \ {First(s)}
      <3>1. First(s) \in s BY <2>3, FirstIn
      <3>2. r \in SUBSET T /\ r # T /\ r # s BY <3>1
      <3>3. g[r] = below[r] /\ below[r] = table(r)[r]
        <4>1. below[r] = table(r)[r]
          <5>1. r \in (SUBSET T) \ {T} BY <3>2
          <5> HIDE DEF r, table
          <5> QED BY <5>1
        <4>2. g[r] = below[r]
          <5> HIDE DEF r, below
          <5> QED BY <3>2
        <4> QED BY <4>1, <4>2
      <3>4. CASE s = T BY <2>3, <3>3, <3>4 DEF Folded
      <3>5. CASE s # T
        <4>1. g[s] = table(s)[s] BY <3>5
        <4>2. Holds(f, s, table(s)) /\ Holds(f, r, table(r)) BY <1>4, <3>2, <3>5
        <4>3. IsFiniteSet(s) BY FS_Subset
        <4>4. table(s)[r] = table(r)[r]
          <5> HIDE DEF table, r
          <5> QED BY <3>1, <4>2, <4>3, HoldsOnce DEF r
        <4>5. table(s)[s] = Folded(f, table(s), s)
          <5> HIDE DEF table
          <5> QED BY <4>2 DEF Holds
        <4> HIDE DEF table, below, g
        <4> QED BY <2>3, <3>3, <4>1, <4>4, <4>5 DEF Folded
      <3> QED BY <3>4, <3>5
    <2> QED BY <2>1, <2>2, <2>3
  <1>6. Holds(f, T, g)
    <2>1. g = [s \in SUBSET T |-> g[s]] OBVIOUS
    <2> HIDE DEF g
    <2> QED BY <1>5, <2>1 DEF Holds
  <1> QED BY <1>2, <1>6

(* The fold reads its sum from the table of its set. *)
LEMMA SumIsHeld ==
  ASSUME NEW f, NEW S, IsFiniteSet(S)
  PROVE  \E g : Holds(f, S, g) /\ SumFunctionOnSet(f, S) = g[S]
  <1>1. SumFunctionOnSet(f, S) = (CHOOSE g : Holds(f, S, g))[S]
    BY DEF SumFunctionOnSet, FoldFunctionOnSet, MapThenFoldSet, Holds, Folded, First
  <1> QED BY <1>1, HoldsSome

-----------------------------------------------------------------------------
(* The laws of sums *)

(* The sum of nothing. *)
LEMMA SumEmpty == ASSUME NEW f PROVE SumFunctionOnSet(f, {}) = 0
  <1>1. PICK g : Holds(f, {}, g) /\ SumFunctionOnSet(f, {}) = g[{}]
    BY SumIsHeld, FS_EmptySet
  <1> QED BY <1>1 DEF Holds, Folded

(* The fold takes one element and sums the others. *)
LEMMA SumStep ==
  ASSUME NEW f, NEW S, IsFiniteSet(S), S # {}
  PROVE  /\ First(S) \in S
         /\ SumFunctionOnSet(f, S) = f[First(S)] + SumFunctionOnSet(f, S \ {First(S)})
  <1> DEFINE r == S \ {First(S)}
  <1>1. First(S) \in S BY FirstIn
  <1>2. IsFiniteSet(r) /\ r \in SUBSET S BY FS_RemoveElement
  <1>3. PICK g : Holds(f, S, g) /\ SumFunctionOnSet(f, S) = g[S] BY SumIsHeld
  <1> HIDE DEF r
  <1>4. PICK h : Holds(f, r, h) /\ SumFunctionOnSet(f, r) = h[r] BY <1>2, SumIsHeld
  <1>5. g[r] = h[r] BY <1>2, <1>3, <1>4, HoldsOnce
  <1>6. g[S] = Folded(f, g, S) BY <1>3 DEF Holds
  <1> QED BY <1>1, <1>3, <1>4, <1>5, <1>6 DEF Folded, r

(* Sums of integers are integers. *)
LEMMA SumType ==
  ASSUME NEW f, NEW S, IsFiniteSet(S), \A x \in S : f[x] \in Int
  PROVE  SumFunctionOnSet(f, S) \in Int
  <1> DEFINE C == {T \in SUBSET S : SumFunctionOnSet(f, T) \notin Int}
  <1>1. SUFFICES ASSUME C # {} PROVE FALSE OBVIOUS
  <1>2. PICK T \in C : \A U \in C : U \subseteq T => U = T
    <2>1. C \subseteq SUBSET S OBVIOUS
    <2> HIDE DEF C
    <2> QED BY <1>1, <2>1, Smallest
  <1>3. T # {} /\ IsFiniteSet(T)
    <2>1. SumFunctionOnSet(f, {}) \in Int BY SumEmpty
    <2> QED BY <1>2, <2>1, FS_Subset
  <1>4. /\ First(T) \in T
        /\ SumFunctionOnSet(f, T) = f[First(T)] + SumFunctionOnSet(f, T \ {First(T)})
    BY <1>3, SumStep
  <1>5. SumFunctionOnSet(f, T \ {First(T)}) \in Int BY <1>2, <1>4
  <1> QED BY <1>2, <1>4, <1>5

(* The elements may be taken in any order. *)
LEMMA SumRemove ==
  ASSUME NEW f, NEW S, IsFiniteSet(S), \A x \in S : f[x] \in Int, NEW x \in S
  PROVE  SumFunctionOnSet(f, S) = f[x] + SumFunctionOnSet(f, S \ {x})
  <1> DEFINE Sum(T) == SumFunctionOnSet(f, T)
             C == {T \in SUBSET S : \E y \in T : Sum(T) # f[y] + Sum(T \ {y})}
  <1>1. SUFFICES ASSUME C # {} PROVE FALSE OBVIOUS
  <1>2. PICK T \in C : \A U \in C : U \subseteq T => U = T
    <2>1. C \subseteq SUBSET S OBVIOUS
    <2> HIDE DEF C
    <2> QED BY <1>1, <2>1, Smallest
  <1>3. PICK y \in T : Sum(T) # f[y] + Sum(T \ {y}) BY <1>2
  <1> DEFINE p == First(T)
  <1>4. IsFiniteSet(T) BY FS_Subset
  <1>5. p \in T /\ Sum(T) = f[p] + Sum(T \ {p}) BY <1>4, SumStep
  <1>6. p # y BY <1>3, <1>5
  <1> DEFINE r == (T \ {p}) \ {y}
  <1>7. Sum(T \ {p}) = f[y] + Sum(r)
    <2>1. T \ {p} \notin C BY <1>2, <1>5
    <2>2. y \in T \ {p} BY <1>6
    <2> QED BY <2>1, <2>2
  <1>8. Sum(T \ {y}) = f[p] + Sum(r)
    <2>1. T \ {y} \notin C BY <1>2, <1>3
    <2>2. p \in T \ {y} /\ r = (T \ {y}) \ {p} BY <1>5, <1>6
    <2> QED BY <2>1, <2>2
  <1>9. Sum(r) \in Int /\ f[p] \in Int /\ f[y] \in Int
    <2>1. IsFiniteSet(r) /\ r \subseteq S BY <1>4, FS_RemoveElement
    <2> QED BY <1>5, <2>1, SumType
  <1> HIDE DEF Sum, r, p
  <1> QED BY <1>3, <1>5, <1>7, <1>8, <1>9

(* One element more. *)
LEMMA SumAdd ==
  ASSUME NEW f, NEW S, IsFiniteSet(S), NEW x, x \notin S, \A y \in S \cup {x} : f[y] \in Int
  PROVE  SumFunctionOnSet(f, S \cup {x}) = f[x] + SumFunctionOnSet(f, S)
  <1>1. IsFiniteSet(S \cup {x}) /\ (S \cup {x}) \ {x} = S BY FS_AddElement
  <1> QED BY <1>1, SumRemove

(* The sum over one element. *)
LEMMA SumSingle ==
  ASSUME NEW f, NEW x, f[x] \in Int
  PROVE  SumFunctionOnSet(f, {x}) = f[x]
  <1>1. {x} = {} \cup {x} /\ IsFiniteSet({}) BY FS_EmptySet
  <1>2. SumFunctionOnSet(f, {} \cup {x}) = f[x] + SumFunctionOnSet(f, {})
    BY <1>1, SumAdd
  <1> QED BY <1>1, <1>2, SumEmpty

(* Only the values at the elements of the set matter. *)
LEMMA SumSame ==
  ASSUME NEW f, NEW g, NEW S, IsFiniteSet(S), \A x \in S : f[x] = g[x]
  PROVE  SumFunctionOnSet(f, S) = SumFunctionOnSet(g, S)
  <1> DEFINE C == {T \in SUBSET S : SumFunctionOnSet(f, T) # SumFunctionOnSet(g, T)}
  <1>1. SUFFICES ASSUME C # {} PROVE FALSE OBVIOUS
  <1>2. PICK T \in C : \A U \in C : U \subseteq T => U = T
    <2>1. C \subseteq SUBSET S OBVIOUS
    <2> HIDE DEF C
    <2> QED BY <1>1, <2>1, Smallest
  <1>3. T # {} /\ IsFiniteSet(T) BY <1>2, SumEmpty, FS_Subset
  <1>4. /\ First(T) \in T
        /\ SumFunctionOnSet(f, T) = f[First(T)] + SumFunctionOnSet(f, T \ {First(T)})
        /\ SumFunctionOnSet(g, T) = g[First(T)] + SumFunctionOnSet(g, T \ {First(T)})
    BY <1>3, SumStep
  <1>5. SumFunctionOnSet(f, T \ {First(T)}) = SumFunctionOnSet(g, T \ {First(T)})
    BY <1>2, <1>4
  <1> QED BY <1>2, <1>4, <1>5

(* Sums over disjoint sets add up. *)
LEMMA SumUnion ==
  ASSUME NEW f, NEW A, IsFiniteSet(A), NEW B, IsFiniteSet(B), A \cap B = {},
         \A x \in A \cup B : f[x] \in Int
  PROVE  SumFunctionOnSet(f, A \cup B) = SumFunctionOnSet(f, A) + SumFunctionOnSet(f, B)
  <1> DEFINE Sum(T) == SumFunctionOnSet(f, T)
             C == {T \in SUBSET B : Sum(A \cup T) # Sum(A) + Sum(T)}
  <1>1. SUFFICES ASSUME C # {} PROVE FALSE OBVIOUS
  <1>2. PICK T \in C : \A U \in C : U \subseteq T => U = T
    <2>1. C \subseteq SUBSET B OBVIOUS
    <2> HIDE DEF C
    <2> QED BY <1>1, <2>1, Smallest
  <1>3. Sum(A) \in Int BY SumType
  <1>4. T # {}
    <2>1. SUFFICES ASSUME T = {} PROVE FALSE OBVIOUS
    <2>2. A \cup T = A BY <2>1
    <2>3. Sum(T) = 0 BY <2>1, SumEmpty
    <2>4. Sum(A \cup T) = Sum(A) BY <2>2
    <2>5. Sum(A \cup T) # Sum(A) + Sum(T) BY <1>2
    <2> HIDE DEF Sum
    <2> QED BY <1>3, <2>3, <2>4, <2>5
  <1>5. PICK x : x \in T BY <1>4
  <1> DEFINE r == T \ {x}
  <1>6. IsFiniteSet(T) /\ IsFiniteSet(r) /\ IsFiniteSet(A \cup r) BY FS_Subset, FS_Union
  <1>7. Sum(A \cup r) = Sum(A) + Sum(r)
    <2>1. r \notin C BY <1>2, <1>5
    <2> QED BY <2>1
  <1>8. r \cup {x} = T /\ (A \cup r) \cup {x} = A \cup T /\ x \notin A \cup r /\ x \notin r
    BY <1>5
  <1>9. Sum(T) = f[x] + Sum(r) BY <1>6, <1>8, SumAdd
  <1>10. Sum(A \cup T) = f[x] + Sum(A \cup r)
    <2> HIDE DEF r
    <2>1. \A y \in (A \cup r) \cup {x} : f[y] \in Int BY <1>8
    <2>2. Sum((A \cup r) \cup {x}) = f[x] + Sum(A \cup r) BY <1>6, <1>8, <2>1, SumAdd
    <2> QED BY <1>8, <2>2
  <1>11. Sum(r) \in Int /\ f[x] \in Int BY <1>5, <1>6, SumType
  <1> HIDE DEF Sum, r
  <1> QED BY <1>2, <1>3, <1>7, <1>9, <1>10, <1>11

(* A sum of zeros. *)
LEMMA SumZero ==
  ASSUME NEW f, NEW S, IsFiniteSet(S), \A x \in S : f[x] = 0
  PROVE  SumFunctionOnSet(f, S) = 0
  <1> DEFINE C == {T \in SUBSET S : SumFunctionOnSet(f, T) # 0}
  <1>1. SUFFICES ASSUME C # {} PROVE FALSE OBVIOUS
  <1>2. PICK T \in C : \A U \in C : U \subseteq T => U = T
    <2>1. C \subseteq SUBSET S OBVIOUS
    <2> HIDE DEF C
    <2> QED BY <1>1, <2>1, Smallest
  <1>3. T # {} /\ IsFiniteSet(T) BY <1>2, SumEmpty, FS_Subset
  <1>4. /\ First(T) \in T
        /\ SumFunctionOnSet(f, T) = f[First(T)] + SumFunctionOnSet(f, T \ {First(T)})
    BY <1>3, SumStep
  <1>5. SumFunctionOnSet(f, T \ {First(T)}) = 0 BY <1>2, <1>4
  <1> QED BY <1>2, <1>4, <1>5

(* Functions that differ in two elements only. *)
LEMMA SumChangeTwo ==
  ASSUME NEW f, NEW g, NEW S, IsFiniteSet(S), NEW x \in S, NEW y \in S, x # y,
         \A z \in S : f[z] \in Int /\ g[z] \in Int, \A z \in S \ {x, y} : g[z] = f[z]
  PROVE  SumFunctionOnSet(g, S) = SumFunctionOnSet(f, S) + (g[x] - f[x]) + (g[y] - f[y])
  <1> DEFINE Q == S \ {x}
             R == Q \ {y}
  <1>1. IsFiniteSet(Q) /\ IsFiniteSet(R) /\ y \in Q BY FS_Subset
  <1>2. SumFunctionOnSet(f, S) = f[x] + SumFunctionOnSet(f, Q)
        /\ SumFunctionOnSet(g, S) = g[x] + SumFunctionOnSet(g, Q)
    BY SumRemove
  <1>3. SumFunctionOnSet(f, Q) = f[y] + SumFunctionOnSet(f, R)
        /\ SumFunctionOnSet(g, Q) = g[y] + SumFunctionOnSet(g, R)
    <2>1. \A z \in Q : f[z] \in Int /\ g[z] \in Int OBVIOUS
    <2> HIDE DEF Q
    <2> QED BY <1>1, <2>1, SumRemove
  <1>4. \A z \in R : g[z] = f[z] OBVIOUS
  <1> HIDE DEF R
  <1>5. SumFunctionOnSet(g, R) = SumFunctionOnSet(f, R) BY <1>1, <1>4, SumSame
  <1>6. SumFunctionOnSet(f, R) \in Int BY <1>1, SumType DEF R
  <1> QED BY <1>2, <1>3, <1>5, <1>6

(* Functions that differ in one element only. *)
LEMMA SumChangeOne ==
  ASSUME NEW f, NEW g, NEW S, IsFiniteSet(S), NEW x \in S,
         \A z \in S : f[z] \in Int /\ g[z] \in Int, \A z \in S \ {x} : g[z] = f[z]
  PROVE  SumFunctionOnSet(g, S) = SumFunctionOnSet(f, S) + (g[x] - f[x])
  <1> DEFINE Q == S \ {x}
  <1>1. IsFiniteSet(Q) BY FS_Subset
  <1>2. SumFunctionOnSet(f, S) = f[x] + SumFunctionOnSet(f, Q)
        /\ SumFunctionOnSet(g, S) = g[x] + SumFunctionOnSet(g, Q)
    BY SumRemove
  <1>3. \A z \in Q : g[z] = f[z] /\ f[z] \in Int OBVIOUS
  <1> HIDE DEF Q
  <1>4. SumFunctionOnSet(g, Q) = SumFunctionOnSet(f, Q) BY <1>1, <1>3, SumSame
  <1>5. SumFunctionOnSet(f, Q) \in Int BY <1>1, <1>3, SumType
  <1> QED BY <1>2, <1>4, <1>5

(* Zeros add nothing. *)
LEMMA SumWithin ==
  ASSUME NEW f, NEW S, IsFiniteSet(S), NEW T \in SUBSET S,
         \A x \in T : f[x] \in Int, \A x \in S \ T : f[x] = 0
  PROVE  SumFunctionOnSet(f, S) = SumFunctionOnSet(f, T)
  <1> DEFINE R == S \ T
  <1>1. IsFiniteSet(T) /\ IsFiniteSet(R) /\ T \cap R = {} /\ S = T \cup R BY FS_Subset
  <1>2. SumFunctionOnSet(f, R) = 0
    <2>1. \A x \in R : f[x] = 0 OBVIOUS
    <2> HIDE DEF R
    <2> QED BY <1>1, <2>1, SumZero
  <1>3. \A x \in T \cup R : f[x] \in Int OBVIOUS
  <1>4. SumFunctionOnSet(f, T) \in Int BY <1>1, SumType
  <1> HIDE DEF R
  <1>5. SumFunctionOnSet(f, T \cup R) = SumFunctionOnSet(f, T) + SumFunctionOnSet(f, R)
    BY <1>1, <1>3, SumUnion
  <1> QED BY <1>1, <1>2, <1>4, <1>5

(* The difference of two sums. *)
LEMMA SumMinus ==
  ASSUME NEW f, NEW g, NEW h, NEW S, IsFiniteSet(S),
         \A x \in S : f[x] \in Int /\ g[x] \in Int /\ h[x] = g[x] - f[x]
  PROVE  SumFunctionOnSet(h, S) = SumFunctionOnSet(g, S) - SumFunctionOnSet(f, S)
  <1> DEFINE F(T) == SumFunctionOnSet(f, T)
             G(T) == SumFunctionOnSet(g, T)
             H(T) == SumFunctionOnSet(h, T)
             C == {T \in SUBSET S : H(T) # G(T) - F(T)}
  <1>1. SUFFICES ASSUME C # {} PROVE FALSE OBVIOUS
  <1>2. PICK T \in C : \A U \in C : U \subseteq T => U = T
    <2>1. C \subseteq SUBSET S OBVIOUS
    <2> HIDE DEF C
    <2> QED BY <1>1, <2>1, Smallest
  <1>3. T # {}
    <2>1. F({}) = 0 /\ G({}) = 0 /\ H({}) = 0 BY SumEmpty
    <2>2. H(T) # G(T) - F(T) BY <1>2
    <2> HIDE DEF F, G, H
    <2> QED BY <2>1, <2>2
  <1>4. PICK x \in T : TRUE BY <1>3
  <1> DEFINE R == T \ {x}
  <1>5. R \in SUBSET S /\ R \notin C /\ IsFiniteSet(R) /\ IsFiniteSet(T) BY <1>2, <1>4, FS_Subset
  <1>6. H(R) = G(R) - F(R) BY <1>5
  <1>7. F(R) \in Int /\ G(R) \in Int BY <1>5, SumType
  <1>8. \A y \in T : f[y] \in Int /\ g[y] \in Int /\ h[y] \in Int BY <1>5, <1>2
  <1> HIDE DEF C
  <1>9. F(T) = f[x] + F(R) /\ G(T) = g[x] + G(R) /\ H(T) = h[x] + H(R)
    BY <1>4, <1>5, <1>8, SumRemove
  <1>10. H(T) = G(T) - F(T)
    <2>1. x \in S BY <1>2, <1>4 DEF C
    <2>2. f[x] \in Int /\ g[x] \in Int /\ h[x] = g[x] - f[x] BY <2>1
    <2> HIDE DEF F, G, H, R
    <2> QED BY <1>6, <1>7, <1>9, <2>2
  <1> QED BY <1>2, <1>10 DEF C

(* The sum of two functions. *)
LEMMA SumPlus ==
  ASSUME NEW f, NEW g, NEW h, NEW S, IsFiniteSet(S),
         \A x \in S : f[x] \in Int /\ g[x] \in Int /\ h[x] = f[x] + g[x]
  PROVE  SumFunctionOnSet(h, S) = SumFunctionOnSet(f, S) + SumFunctionOnSet(g, S)
  <1>1. \A x \in S : f[x] \in Int /\ h[x] \in Int /\ g[x] = h[x] - f[x] OBVIOUS
  <1>2. SumFunctionOnSet(g, S) = SumFunctionOnSet(h, S) - SumFunctionOnSet(f, S)
    BY <1>1, SumMinus
  <1>3. SumFunctionOnSet(h, S) \in Int /\ SumFunctionOnSet(f, S) \in Int BY <1>1, SumType
  <1> QED BY <1>2, <1>3

(* A set has finitely many images if it is finite. *)
LEMMA ImageFinite ==
  ASSUME NEW h, NEW T, IsFiniteSet(T)
  PROVE  IsFiniteSet({h[x] : x \in T})
  <1> DEFINE k == [x \in T |-> h[x]]
  <1>1. k \in Surjection(T, {h[x] : x \in T}) BY DEF Surjection
  <1> HIDE DEF k
  <1> QED BY <1>1, FS_Surjection

(* Elements may be renamed one to one. *)
LEMMA SumImage ==
  ASSUME NEW f, NEW g, NEW h, NEW S, IsFiniteSet(S),
         \A x \in S : f[x] \in Int /\ g[h[x]] = f[x],
         \A x, y \in S : h[x] = h[y] => x = y
  PROVE  SumFunctionOnSet(g, {h[x] : x \in S}) = SumFunctionOnSet(f, S)
  <1> DEFINE Image(T) == {h[x] : x \in T}
             C == {T \in SUBSET S : SumFunctionOnSet(g, Image(T)) # SumFunctionOnSet(f, T)}
  <1>1. SUFFICES ASSUME C # {} PROVE FALSE OBVIOUS
  <1>2. PICK T \in C : \A U \in C : U \subseteq T => U = T
    <2>1. C \subseteq SUBSET S OBVIOUS
    <2> HIDE DEF C
    <2> QED BY <1>1, <2>1, Smallest
  <1>3. T # {}
    <2>1. Image({}) = {} OBVIOUS
    <2>2. SumFunctionOnSet(g, Image({})) = SumFunctionOnSet(f, {}) BY <2>1, SumEmpty
    <2> QED BY <1>2, <2>2
  <1>4. PICK x \in T : TRUE BY <1>3
  <1> DEFINE R == T \ {x}
  <1>5. R \in SUBSET S /\ R \notin C /\ IsFiniteSet(R) /\ IsFiniteSet(T) /\ T \subseteq S
    BY <1>2, <1>4, FS_Subset
  <1>6. SumFunctionOnSet(g, Image(R)) = SumFunctionOnSet(f, R) BY <1>5
  <1>7. SumFunctionOnSet(f, T) = f[x] + SumFunctionOnSet(f, R)
    <2>1. \A y \in T : f[y] \in Int BY <1>5
    <2> QED BY <1>4, <1>5, <2>1, SumRemove
  <1>8. SumFunctionOnSet(g, Image(T)) = g[h[x]] + SumFunctionOnSet(g, Image(R))
    <2>1. Image(T) = Image(R) \cup {h[x]} BY <1>4
    <2>2. h[x] \notin Image(R) BY <1>4, <1>5
    <2>3. IsFiniteSet(Image(R)) BY <1>5, ImageFinite
    <2>4. \A y \in Image(R) \cup {h[x]} : g[y] \in Int BY <1>4, <1>5
    <2> HIDE DEF Image, R
    <2> QED BY <2>1, <2>2, <2>3, <2>4, SumAdd
  <1>9. g[h[x]] = f[x] BY <1>4, <1>5
  <1>10. SumFunctionOnSet(g, Image(T)) # SumFunctionOnSet(f, T) BY <1>2
  <1> QED BY <1>6, <1>7, <1>8, <1>9, <1>10
=============================================================================
