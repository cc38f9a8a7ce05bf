------------------------------ MODULE SumProofs ------------------------------
(***************************************************************************)
(* Lemmas about SumFunctionOnSet of the community module Functions, for    *)
(* functions with values in Nat and finite sets: the sums of money and of  *)
(* rooms in RefundService and Bookings.                                    *)
(*                                                                         *)
(* The sum is defined by a recursion that picks the members in some order. *)
(* It is the number of pairs <<x, n>> with n \in 1..f[x] (SumIsCount), and *)
(* what else is needed of it follows from facts about cardinalities.       *)
(***************************************************************************)
EXTENDS Integers, FiniteSets, Functions, FiniteSetTheorems, TLAPS

UnitsOf(f, x) == {x} \X (1..f[x])

Units(f, S) == UNION {UnitsOf(f, x) : x \in S}

\* What the recursion of MapThenFoldSet asks of its function.
SumRecursion(f, S, iter) ==
    iter = [T \in SUBSET S |->
               IF T = {} THEN 0
               ELSE f[CHOOSE x \in T : TRUE] + iter[T \ {CHOOSE x \in T : TRUE}]]

----------------------------------------------------------------------------
(* Counting units                                                          *)

LEMMA UnitsOfFinite ==
    ASSUME NEW f, NEW x, f[x] \in Nat
    PROVE  IsFiniteSet(UnitsOf(f, x)) /\ Cardinality(UnitsOf(f, x)) = f[x]
<1>1. IsFiniteSet({x}) /\ Cardinality({x}) = 1
  BY FS_Singleton
<1>2. IsFiniteSet(1..f[x]) /\ Cardinality(1..f[x]) = f[x]
  <2>1. 1 \in Int /\ f[x] \in Int
    OBVIOUS
  <2>2. IsFiniteSet(1..f[x]) /\ Cardinality(1..f[x]) = IF 1 > f[x] THEN 0 ELSE f[x] - 1 + 1
    BY <2>1, FS_Interval
  <2>3. QED
    BY <2>2
<1>3. IsFiniteSet({x} \X (1..f[x])) /\ Cardinality({x} \X (1..f[x])) = 1 * f[x]
  BY <1>1, <1>2, FS_Product
<1>4. QED
  BY <1>3 DEF UnitsOf

LEMMA UnitsFinite ==
    ASSUME NEW f, NEW S, IsFiniteSet(S), \A x \in S : f[x] \in Nat
    PROVE  IsFiniteSet(Units(f, S))
<1> DEFINE all == {UnitsOf(f, x) : x \in S}
           g == [x \in S |-> UnitsOf(f, x)]
<1>1. g \in Surjection(S, all)
  BY DEF Surjection
<1>2. IsFiniteSet(all)
  <2> HIDE DEF g, all
  <2> QED
    BY <1>1, FS_Surjection
<1>3. \A U \in all : IsFiniteSet(U)
  BY UnitsOfFinite
<1> HIDE DEF all
<1>4. IsFiniteSet(UNION all)
  BY <1>2, <1>3, FS_UNION
<1>5. QED
  BY <1>4 DEF Units, all

\* A member adds its units to those of the others.
LEMMA UnitsSplit ==
    ASSUME NEW f, NEW S, IsFiniteSet(S), \A y \in S : f[y] \in Nat, NEW x \in S
    PROVE  Cardinality(Units(f, S)) = f[x] + Cardinality(Units(f, S \ {x}))
<1> DEFINE rest == Units(f, S \ {x})
           mine == UnitsOf(f, x)
<1>1. IsFiniteSet(S \ {x})
  BY FS_RemoveElement
<1>2. IsFiniteSet(rest)
  BY <1>1, UnitsFinite
<1>3. IsFiniteSet(mine) /\ Cardinality(mine) = f[x]
  BY UnitsOfFinite
<1>4. Units(f, S) = mine \cup rest
  BY DEF Units
<1>5. mine \cap rest = {}
  BY DEF Units, UnitsOf
<1> HIDE DEF rest, mine
<1>6. Cardinality(mine \cup rest) = Cardinality(mine) + Cardinality(rest) - Cardinality({})
  BY <1>2, <1>3, <1>5, FS_Union
<1>7. Cardinality({}) = 0 /\ Cardinality(rest) \in Nat
  BY <1>2, FS_EmptySet, FS_CardinalityType
<1>8. QED
  BY <1>3, <1>4, <1>6, <1>7 DEF rest

----------------------------------------------------------------------------
(* The sum is the count                                                    *)

LEMMA SumUnfolds ==
    ASSUME NEW f, NEW S, NEW g, SumRecursion(f, S, g)
    PROVE  \E iter : SumRecursion(f, S, iter) /\ SumFunctionOnSet(f, S) = iter[S]
<1> DEFINE P(iter) ==
      iter = [T \in SUBSET S |->
                IF T = {} THEN 0
                ELSE f[CHOOSE x \in T : TRUE] + iter[T \ {CHOOSE x \in T : TRUE}]]
           it == CHOOSE iter : P(iter)
<1>1. SumFunctionOnSet(f, S) = it[S]
  BY Zenon DEF SumFunctionOnSet, FoldFunctionOnSet, MapThenFoldSet
<1>2. P(g)
  BY DEF SumRecursion
<1>3. P(it)
  <2> HIDE DEF P
  <2> QED
    BY <1>2
<1>4. QED
  BY <1>1, <1>3 DEF SumRecursion

\* Counting satisfies the recursion, so there is a function that does; and two
\* that do could differ first on a smallest set, on which they cannot.
LEMMA SumIsCount ==
    ASSUME NEW f, NEW S, IsFiniteSet(S), \A x \in S : f[x] \in Nat
    PROVE  SumFunctionOnSet(f, S) = Cardinality(Units(f, S))
<1> DEFINE count == [T \in SUBSET S |-> Cardinality(Units(f, T))]
<1>0. \A T \in SUBSET S : IsFiniteSet(T)
  BY FS_Subset
<1>1. \A T \in SUBSET S : T # {} =>
        count[T] = f[CHOOSE x \in T : TRUE] + count[T \ {CHOOSE x \in T : TRUE}]
  <2> SUFFICES ASSUME NEW T \in SUBSET S, T # {}
               PROVE  count[T] = f[CHOOSE x \in T : TRUE] + count[T \ {CHOOSE x \in T : TRUE}]
    OBVIOUS
  <2> DEFINE c == CHOOSE x \in T : TRUE
  <2>1. c \in T
    OBVIOUS
  <2>2. Cardinality(Units(f, T)) = f[c] + Cardinality(Units(f, T \ {c}))
    <3> HIDE DEF c
    <3> QED
      BY <1>0, <2>1, UnitsSplit
  <2>3. QED
    BY <2>2
<1>2. count[{}] = 0
  BY FS_EmptySet DEF Units
<1>3. SumRecursion(f, S, count)
  <2>1. count = [T \in SUBSET S |->
                   IF T = {} THEN 0
                   ELSE f[CHOOSE x \in T : TRUE] + count[T \ {CHOOSE x \in T : TRUE}]]
    BY <1>1, <1>2
  <2>2. QED
    BY <2>1 DEF SumRecursion
<1>4. PICK iter : SumRecursion(f, S, iter) /\ SumFunctionOnSet(f, S) = iter[S]
  BY <1>3, SumUnfolds
<1>5. \A T \in SUBSET S :
        iter[T] = IF T = {} THEN 0
                  ELSE f[CHOOSE x \in T : TRUE] + iter[T \ {CHOOSE x \in T : TRUE}]
  <2> DEFINE e(T) == IF T = {} THEN 0
                     ELSE f[CHOOSE x \in T : TRUE] + iter[T \ {CHOOSE x \in T : TRUE}]
  <2>1. iter = [T \in SUBSET S |-> e(T)]
    BY <1>4 DEF SumRecursion
  <2> HIDE DEF e
  <2>2. \A T \in SUBSET S : iter[T] = e(T)
    BY <2>1
  <2>3. QED
    BY <2>2 DEF e
<1> HIDE DEF count
<1>6. \A T \in SUBSET S : iter[T] = count[T]
  <2> DEFINE bad == {T \in SUBSET S : iter[T] # count[T]}
  <2> SUFFICES ASSUME bad # {} PROVE FALSE
    OBVIOUS
  <2>1. SUBSET S = FiniteSubsetsOf(S)
    BY FS_FiniteSubsetsOfFinite
  <2>2. IsWellFoundedOn(StrictSubsetOrdering(S), SUBSET S)
    BY <2>1, FS_StrictSubsetOrderingWellFounded
  <2>3. bad \subseteq SUBSET S
    OBVIOUS
  <2>4. PICK T \in bad : \A U \in bad : ~ (<<U, T>> \in StrictSubsetOrdering(S))
    <3> HIDE DEF bad
    <3> QED
      BY <2>2, <2>3, WFMin
  <2>5. T # {}
    BY <1>2, <1>5
  <2> DEFINE c == CHOOSE x \in T : TRUE
  <2>6. c \in T
    BY <2>5
  <2>7. <<T \ {c}, T>> \in StrictSubsetOrdering(S)
    BY <2>6 DEF StrictSubsetOrdering
  <2>8. iter[T \ {c}] = count[T \ {c}]
    BY <2>4, <2>7
  <2>9. iter[T] = f[c] + iter[T \ {c}] /\ count[T] = f[c] + count[T \ {c}]
    <3>1. T \in SUBSET S
      OBVIOUS
    <3> HIDE DEF bad
    <3>2. QED
      BY <1>1, <1>5, <2>5, <3>1
  <2>10. QED
    BY <2>8, <2>9
<1>7. QED
  BY <1>4, <1>6 DEF count

----------------------------------------------------------------------------
(* What the proofs of sums cite                                            *)

LEMMA SumType ==
    ASSUME NEW f, NEW S, IsFiniteSet(S), \A x \in S : f[x] \in Nat
    PROVE  SumFunctionOnSet(f, S) \in Nat
BY SumIsCount, UnitsFinite, FS_CardinalityType

LEMMA SumOfNone ==
    ASSUME NEW f
    PROVE  SumFunctionOnSet(f, {}) = 0
<1>1. Units(f, {}) = {}
  BY DEF Units
<1>2. QED
  BY <1>1, SumIsCount, FS_EmptySet

\* One member is taken out of the sum.
LEMMA SumSplit ==
    ASSUME NEW f, NEW S, IsFiniteSet(S), \A y \in S : f[y] \in Nat, NEW x \in S
    PROVE  SumFunctionOnSet(f, S) = f[x] + SumFunctionOnSet(f, S \ {x})
<1>1. IsFiniteSet(S \ {x})
  BY FS_RemoveElement
<1>2. Cardinality(Units(f, S)) = f[x] + Cardinality(Units(f, S \ {x}))
  BY UnitsSplit
<1>3. SumFunctionOnSet(f, S) = Cardinality(Units(f, S))
  BY SumIsCount
<1>4. SumFunctionOnSet(f, S \ {x}) = Cardinality(Units(f, S \ {x}))
  BY <1>1, SumIsCount
<1>5. QED
  BY <1>2, <1>3, <1>4

LEMMA SumAdds ==
    ASSUME NEW f, NEW S, IsFiniteSet(S), NEW x, x \notin S,
           \A y \in S \cup {x} : f[y] \in Nat
    PROVE  SumFunctionOnSet(f, S \cup {x}) = f[x] + SumFunctionOnSet(f, S)
<1>1. IsFiniteSet(S \cup {x})
  BY FS_AddElement
<1>2. (S \cup {x}) \ {x} = S
  OBVIOUS
<1>3. QED
  BY <1>1, <1>2, SumSplit

\* Only the members' values count.
LEMMA SumSame ==
    ASSUME NEW f, NEW g, NEW S, IsFiniteSet(S),
           \A x \in S : f[x] \in Nat /\ g[x] = f[x]
    PROVE  SumFunctionOnSet(g, S) = SumFunctionOnSet(f, S)
<1>1. Units(f, S) = Units(g, S)
  BY DEF Units, UnitsOf
<1>2. SumFunctionOnSet(f, S) = Cardinality(Units(f, S))
  BY SumIsCount
<1>3. SumFunctionOnSet(g, S) = Cardinality(Units(g, S))
  BY SumIsCount
<1>4. QED
  BY <1>1, <1>2, <1>3

\* A sum over fewer members is no greater.
LEMMA SumGrows ==
    ASSUME NEW f, NEW S, NEW T \in SUBSET S, IsFiniteSet(S), \A x \in S : f[x] \in Nat
    PROVE  SumFunctionOnSet(f, T) <= SumFunctionOnSet(f, S)
<1>1. IsFiniteSet(T)
  BY FS_Subset
<1>2. IsFiniteSet(Units(f, S))
  BY UnitsFinite
<1>3. Units(f, T) \subseteq Units(f, S)
  BY DEF Units
<1>4. Cardinality(Units(f, T)) <= Cardinality(Units(f, S))
  BY <1>2, <1>3, FS_Subset
<1>5. SumFunctionOnSet(f, S) = Cardinality(Units(f, S))
  BY SumIsCount
<1>6. SumFunctionOnSet(f, T) = Cardinality(Units(f, T))
  BY <1>1, SumIsCount
<1>7. QED
  BY <1>4, <1>5, <1>6

\* One member's value changes.
LEMMA SumChanges ==
    ASSUME NEW f, NEW g, NEW S, IsFiniteSet(S), NEW x \in S,
           \A y \in S : f[y] \in Nat /\ g[y] \in Nat,
           \A y \in S \ {x} : g[y] = f[y]
    PROVE  SumFunctionOnSet(g, S) + f[x] = SumFunctionOnSet(f, S) + g[x]
<1>1. IsFiniteSet(S \ {x})
  BY FS_RemoveElement
<1>2. SumFunctionOnSet(g, S \ {x}) = SumFunctionOnSet(f, S \ {x})
  BY <1>1, SumSame
<1>3. SumFunctionOnSet(f, S \ {x}) \in Nat
  BY <1>1, SumType
<1>4. SumFunctionOnSet(f, S) = f[x] + SumFunctionOnSet(f, S \ {x})
  BY SumSplit
<1>5. SumFunctionOnSet(g, S) = g[x] + SumFunctionOnSet(g, S \ {x})
  BY SumSplit
<1>6. QED
  BY <1>2, <1>3, <1>4, <1>5

LEMMA SumOfZeros ==
    ASSUME NEW f, NEW S, IsFiniteSet(S), \A x \in S : f[x] = 0
    PROVE  SumFunctionOnSet(f, S) = 0
<1>1. Units(f, S) = {}
  BY DEF Units, UnitsOf
<1>2. QED
  BY <1>1, SumIsCount, FS_EmptySet
==============================================================================
