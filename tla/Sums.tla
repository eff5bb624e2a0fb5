-------------------------------- MODULE Sums --------------------------------
(***************************************************************************)
(* What SumFunctionOnSet computes: as many units as there are coins, when  *)
(* f[x] coins lie on every x.  The proofs about sums count coins: a set    *)
(* that grows or is shifted says at once what becomes of its sum.          *)
(***************************************************************************)
EXTENDS Integers, FiniteSets, Functions, FiniteSetTheorems, WellFoundedInduction, TLAPS

Coins(f, S) == {p \in S \X Nat : 1 <= p[2] /\ p[2] <= f[p[1]]}

Counts(f, S) == IsFiniteSet(S) /\ \A x \in S : f[x] \in Nat

(* The element of a finite set of sets that is the first to fail           *)
LEMMA SmallestSet ==
  ASSUME NEW S, IsFiniteSet(S), NEW T \in SUBSET (SUBSET S), T # {}
  PROVE  \E s \in T : \A r \in T : ~(r \subseteq s /\ r # s)
<1>1. FiniteSubsetsOf(S) = SUBSET S  BY FS_FiniteSubsetsOfFinite
<1>2. IsWellFoundedOn(StrictSubsetOrdering(S), SUBSET S)
  BY <1>1, FS_StrictSubsetOrderingWellFounded
<1>3. PICK s \in T : \A r \in T : ~(<<r, s>> \in StrictSubsetOrdering(S))
  BY <1>2, WFMin
<1>4. ASSUME NEW r \in T, r \subseteq s, r # s PROVE FALSE
  <2>1. <<r, s>> \in StrictSubsetOrdering(S)  BY <1>4 DEF StrictSubsetOrdering
  <2> QED  BY <1>3, <2>1
<1> QED  BY <1>4

LEMMA CoinsOnOneMore ==
  ASSUME NEW f, NEW S, NEW x \in S, f[x] \in Nat,
         IsFiniteSet(Coins(f, S \ {x}))
  PROVE  /\ IsFiniteSet(Coins(f, S))
         /\ Cardinality(Coins(f, S)) = f[x] + Cardinality(Coins(f, S \ {x}))
<1> DEFINE Rest == Coins(f, S \ {x})
           Pile == {x} \X (1..f[x])
<1>1. Coins(f, S) = Rest \cup Pile /\ Rest \cap Pile = {}
  BY DEF Coins
<1>2. /\ IsFiniteSet({x}) /\ Cardinality({x}) = 1
      /\ IsFiniteSet(1..f[x]) /\ Cardinality(1..f[x]) = f[x]
  <2>1. IsFiniteSet({x}) /\ Cardinality({x}) = 1  BY FS_Singleton
  <2>2. 1 \in Int /\ f[x] \in Int  OBVIOUS
  <2>3. IsFiniteSet(1..f[x]) /\ Cardinality(1..f[x]) = IF 1 > f[x] THEN 0 ELSE f[x] - 1 + 1
    BY <2>2, FS_Interval
  <2> QED  BY <2>1, <2>3
<1>3. IsFiniteSet(Pile) /\ Cardinality(Pile) = f[x]
  <2>1. IsFiniteSet(Pile) /\ Cardinality(Pile) = Cardinality({x}) * Cardinality(1..f[x])
    BY <1>2, FS_Product
  <2> QED  BY <1>2, <2>1
<1>4. Cardinality(Rest) \in Nat
  BY FS_CardinalityType
<1> HIDE DEF Rest, Pile
<1>5. /\ IsFiniteSet(Rest \cup Pile)
      /\ Cardinality(Rest \cup Pile) = Cardinality(Rest) + Cardinality(Pile) - Cardinality(Rest \cap Pile)
  BY <1>3, FS_Union DEF Rest
<1>6. Cardinality(Rest \cap Pile) = 0
  BY <1>1, FS_EmptySet
<1> QED  BY <1>1, <1>3, <1>4, <1>5, <1>6 DEF Rest

LEMMA CoinsAreFinite ==
  ASSUME NEW f, NEW S, Counts(f, S)
  PROVE  IsFiniteSet(Coins(f, S)) /\ Cardinality(Coins(f, S)) \in Nat
<1> DEFINE Bad == {s \in SUBSET S : ~IsFiniteSet(Coins(f, s))}
<1>0. Bad \in SUBSET (SUBSET S) /\ IsFiniteSet(S)  BY DEF Counts
<1>1. ASSUME Bad # {} PROVE FALSE
  <2>1. PICK s \in Bad : \A r \in Bad : ~(r \subseteq s /\ r # s)
    <3> HIDE DEF Bad
    <3> QED  BY <1>0, <1>1, SmallestSet
  <2>2. CASE s = {}
    <3>1. Coins(f, {}) = {}  BY DEF Coins
    <3> QED  BY <2>2, <3>1, FS_EmptySet
  <2>3. CASE s # {}
    <3>1. PICK x \in s : TRUE  BY <2>3
    <3>2. s \ {x} \notin Bad  BY <2>1
    <3>3. IsFiniteSet(Coins(f, s \ {x}))  BY <3>2
    <3> QED  BY <3>1, <3>3, CoinsOnOneMore DEF Counts
  <2> QED  BY <2>2, <2>3
<1> QED  BY <1>1, FS_CardinalityType

(* The definition of the sum is recursive: a function that satisfies its   *)
(* equation, and there is only one                                         *)
LEMMA SumCountsCoins ==
  ASSUME NEW f, NEW S, Counts(f, S)
  PROVE  SumFunctionOnSet(f, S) = Cardinality(Coins(f, S))
<1> DEFINE one(s) == CHOOSE x \in s : TRUE
           Eq(g) == g = [s \in SUBSET S |-> IF s = {} THEN 0 ELSE f[one(s)] + g[s \ {one(s)}]]
           sum == CHOOSE g : Eq(g)
           count == [s \in SUBSET S |-> Cardinality(Coins(f, s))]
<1>1. SumFunctionOnSet(f, S) = sum[S]
  BY Zenon DEF SumFunctionOnSet, FoldFunctionOnSet, MapThenFoldSet
<1>2. \A s \in SUBSET S : s # {} => one(s) \in s
  OBVIOUS
<1>3. ASSUME NEW s \in SUBSET S
      PROVE  Cardinality(Coins(f, s)) = IF s = {} THEN 0 ELSE f[one(s)] + Cardinality(Coins(f, s \ {one(s)}))
  <2>1. CASE s = {}
    <3>1. Coins(f, {}) = {}  BY DEF Coins
    <3> QED  BY <2>1, <3>1, FS_EmptySet
  <2>2. CASE s # {}
    <3>1. one(s) \in s  BY <1>2, <2>2
    <3>2. Counts(f, s \ {one(s)})  BY FS_Subset DEF Counts
    <3> HIDE DEF one
    <3>3. IsFiniteSet(Coins(f, s \ {one(s)}))  BY <3>2, CoinsAreFinite
    <3>4. f[one(s)] \in Nat  BY <3>1 DEF Counts
    <3>5. Cardinality(Coins(f, s)) = f[one(s)] + Cardinality(Coins(f, s \ {one(s)}))
      BY <3>1, <3>3, <3>4, CoinsOnOneMore
    <3> QED  BY <2>2, <3>5
  <2> QED  BY <2>1, <2>2
<1> HIDE DEF one
<1>4. Eq(count)
  <2>1. \A s \in SUBSET S : s \ {one(s)} \in SUBSET S  OBVIOUS
  <2>2. \A s \in SUBSET S : count[s \ {one(s)}] = Cardinality(Coins(f, s \ {one(s)}))  BY <2>1
  <2> QED  BY <1>3, <2>2
<1> HIDE DEF count, Eq
<1>5. Eq(sum)  BY <1>4
<1>6. \A s \in SUBSET S : sum[s] = IF s = {} THEN 0 ELSE f[one(s)] + sum[s \ {one(s)}]
  <2> HIDE DEF sum
  <2> QED  BY <1>5 DEF Eq
<1> HIDE DEF sum
<1> DEFINE Bad == {s \in SUBSET S : sum[s] # Cardinality(Coins(f, s))}
<1>7. Bad \in SUBSET (SUBSET S) /\ IsFiniteSet(S)  BY DEF Counts
<1>8. ASSUME Bad # {} PROVE FALSE
  <2>1. PICK s \in Bad : \A r \in Bad : ~(r \subseteq s /\ r # s)
    <3> HIDE DEF Bad
    <3> QED  BY <1>7, <1>8, SmallestSet
  <2>2. CASE s = {}
    BY <1>3, <1>6, <2>2
  <2>3. CASE s # {}
    <3>1. one(s) \in s  BY <1>2, <2>3
    <3>2. sum[s \ {one(s)}] = Cardinality(Coins(f, s \ {one(s)}))  BY <2>1, <3>1
    <3> QED  BY <1>3, <1>6, <2>3, <3>2
  <2> QED  BY <2>2, <2>3
<1> QED  BY <1>1, <1>8

LEMMA SumIsNat ==
  ASSUME NEW f, NEW S, Counts(f, S)
  PROVE  SumFunctionOnSet(f, S) \in Nat
BY SumCountsCoins, CoinsAreFinite

LEMMA SumOfNothing == ASSUME NEW f PROVE SumFunctionOnSet(f, {}) = 0
<1>1. Counts(f, {}) /\ Coins(f, {}) = {}  BY FS_EmptySet DEF Counts, Coins
<1> QED  BY <1>1, SumCountsCoins, FS_EmptySet

LEMMA SumOfOneMore ==
  ASSUME NEW f, NEW S, Counts(f, S), NEW x \in S
  PROVE  SumFunctionOnSet(f, S) = f[x] + SumFunctionOnSet(f, S \ {x})
<1>1. Counts(f, S \ {x})  BY FS_Subset DEF Counts
<1>2. IsFiniteSet(Coins(f, S \ {x})) /\ f[x] \in Nat  BY <1>1, CoinsAreFinite DEF Counts
<1> QED  BY <1>1, <1>2, CoinsOnOneMore, SumCountsCoins

(* Of more elements, with more on each of them, the sum is not less        *)
LEMMA SumOfMore ==
  ASSUME NEW f, NEW T, Counts(f, T),
         NEW g, NEW S \in SUBSET T, \A x \in S : g[x] \in Nat /\ g[x] <= f[x]
  PROVE  Counts(g, S) /\ SumFunctionOnSet(g, S) <= SumFunctionOnSet(f, T)
<1>1. Counts(g, S)  BY FS_Subset DEF Counts
<1>2. Coins(g, S) \in SUBSET Coins(f, T)  BY DEF Coins, Counts
<1>3. Cardinality(Coins(g, S)) <= Cardinality(Coins(f, T))
  BY <1>2, CoinsAreFinite, FS_Subset
<1> QED  BY <1>1, <1>3, SumCountsCoins

LEMMA SumOfTheSame ==
  ASSUME NEW f, NEW S, Counts(f, S), NEW g, \A x \in S : g[x] = f[x]
  PROVE  Counts(g, S) /\ SumFunctionOnSet(g, S) = SumFunctionOnSet(f, S)
<1>1. Counts(g, S)  BY DEF Counts
<1>2. Coins(g, S) = Coins(f, S)  BY DEF Coins
<1> QED  BY <1>1, <1>2, SumCountsCoins

(* What one element has more, the sum has more                             *)
LEMMA SumOfOneChanged ==
  ASSUME NEW f, NEW S, Counts(f, S), NEW x \in S,
         NEW g, g[x] \in Nat, \A y \in S \ {x} : g[y] = f[y]
  PROVE  /\ Counts(g, S)
         /\ SumFunctionOnSet(g, S) + f[x] = SumFunctionOnSet(f, S) + g[x]
<1>1. Counts(g, S)  BY DEF Counts
<1>2. Counts(f, S \ {x})  BY FS_Subset DEF Counts
<1>3. SumFunctionOnSet(g, S \ {x}) = SumFunctionOnSet(f, S \ {x})  BY <1>2, SumOfTheSame
<1>4. /\ SumFunctionOnSet(f, S) = f[x] + SumFunctionOnSet(f, S \ {x})
      /\ SumFunctionOnSet(g, S) = g[x] + SumFunctionOnSet(g, S \ {x})
  BY <1>1, SumOfOneMore
<1>5. SumFunctionOnSet(f, S \ {x}) \in Nat /\ f[x] \in Nat  BY <1>2, SumIsNat DEF Counts
<1> QED  BY <1>1, <1>3, <1>4, <1>5

(* As SumOfMore, but for x, which may be new *)
LEMMA SumOfMoreButOne ==
  ASSUME NEW f, NEW T, Counts(f, T), NEW x,
         NEW g, NEW S \in SUBSET (T \cup {x}), g[x] \in Nat, \A y \in S \ {x} : g[y] \in Nat /\ g[y] <= f[y]
  PROVE  /\ Counts(g, S)
         /\ SumFunctionOnSet(g, S) + (IF x \in T THEN f[x] ELSE 0) <= SumFunctionOnSet(f, T) + g[x]
<1>1. Counts(g, S)  BY FS_AddElement, FS_Subset DEF Counts
<1>2. Counts(f, T \ {x})  BY FS_Subset DEF Counts
<1>3. SumFunctionOnSet(g, S \ {x}) <= SumFunctionOnSet(f, T \ {x})
  <2>1. S \ {x} \in SUBSET (T \ {x})  OBVIOUS
  <2> QED  BY <1>2, <2>1, SumOfMore
<1>4. SumFunctionOnSet(g, S) <= g[x] + SumFunctionOnSet(g, S \ {x})
  <2>1. CASE x \in S
    <3>1. SumFunctionOnSet(g, S) = g[x] + SumFunctionOnSet(g, S \ {x})  BY <1>1, <2>1, SumOfOneMore
    <3>2. SumFunctionOnSet(g, S) \in Nat  BY <1>1, SumIsNat
    <3> QED  BY <3>1, <3>2
  <2>2. CASE x \notin S
    <3>1. S \ {x} = S  BY <2>2
    <3>2. SumFunctionOnSet(g, S \ {x}) = SumFunctionOnSet(g, S)  BY <3>1
    <3>3. SumFunctionOnSet(g, S) \in Nat  BY <1>1, SumIsNat
    <3> QED  BY <3>2, <3>3
  <2> QED  BY <2>1, <2>2
<1>5. SumFunctionOnSet(f, T) = (IF x \in T THEN f[x] ELSE 0) + SumFunctionOnSet(f, T \ {x})
  <2>1. CASE x \in T  BY <2>1, SumOfOneMore
  <2>2. CASE x \notin T
    <3>1. T \ {x} = T  BY <2>2
    <3>2. SumFunctionOnSet(f, T \ {x}) = SumFunctionOnSet(f, T)  BY <3>1
    <3>3. SumFunctionOnSet(f, T) \in Nat  BY SumIsNat
    <3> QED  BY <2>2, <3>2, <3>3
  <2> QED  BY <2>1, <2>2
<1>6. /\ SumFunctionOnSet(g, S) \in Nat /\ SumFunctionOnSet(g, S \ {x}) \in Nat
      /\ SumFunctionOnSet(f, T \ {x}) \in Nat /\ (IF x \in T THEN f[x] ELSE 0) \in Nat
  <2>1. Counts(g, S \ {x})  BY <1>1, FS_Subset DEF Counts
  <2>2. x \in T => f[x] \in Nat  BY DEF Counts
  <2> QED  BY <1>1, <1>2, <2>1, <2>2, SumIsNat
<1> QED  BY <1>1, <1>3, <1>4, <1>5, <1>6

LEMMA SumOfZeros ==
  ASSUME NEW f, NEW S, IsFiniteSet(S), \A x \in S : f[x] = 0
  PROVE  SumFunctionOnSet(f, S) = 0
<1>1. Counts(f, S) /\ Coins(f, S) = {}  BY DEF Counts, Coins
<1> QED  BY <1>1, SumCountsCoins, FS_EmptySet

(* Of elements that are moved to others with as much on each of them, the  *)
(* sum is not less                                                         *)
LEMMA SumOfMoved ==
  ASSUME NEW f, NEW T, Counts(f, T), NEW S, NEW h \in [S -> T],
         \A x, y \in S : h[x] = h[y] => x = y,
         NEW g, \A x \in S : g[x] \in Nat /\ g[x] <= f[h[x]]
  PROVE  Counts(g, S) /\ SumFunctionOnSet(g, S) <= SumFunctionOnSet(f, T)
<1>1. h \in Injection(S, T)  BY DEF Injection, IsInjective
<1>2. Counts(g, S)  BY <1>1, FS_Injection DEF Counts
<1> DEFINE move == [p \in Coins(g, S) |-> <<h[p[1]], p[2]>>]
<1>3. move \in [Coins(g, S) -> Coins(f, T)]
  <2>1. \A x \in S : h[x] \in T /\ f[h[x]] \in Nat  BY DEF Counts
  <2> QED  BY <2>1 DEF Coins
<1>4. \A p, q \in Coins(g, S) : move[p] = move[q] => p = q
  BY DEF Coins
<1> HIDE DEF move
<1>5. move \in Injection(Coins(g, S), Coins(f, T))  BY <1>3, <1>4 DEF Injection, IsInjective
<1>6. Cardinality(Coins(g, S)) <= Cardinality(Coins(f, T))
  BY <1>5, CoinsAreFinite, FS_Injection
<1> QED  BY <1>2, <1>6, SumCountsCoins

=============================================================================
