----------------------------- MODULE SumProofs -----------------------------
(* What the sums of the contracts' properties compute.  SumFunctionOnSet is *)
(* a recursive function, so its values are found by the smallest subset     *)
(* for which a claim would fail.                                            *)
EXTENDS Functions, FiniteSets, FiniteSetTheorems, WellFoundedInduction, TLAPS

\* A set of subsets of a finite set has a smallest member.
LEMMA SmallestSubset ==
  ASSUME NEW S, IsFiniteSet(S), NEW F, F \subseteq SUBSET S, F # {}
  PROVE  \E T \in F : \A U \in F : U \subseteq T => U = T
  <1>1. IsWellFoundedOn(StrictSubsetOrdering(S), SUBSET S)
    BY FS_StrictSubsetOrderingWellFounded, FS_FiniteSubsetsOfFinite
  <1>2. PICK T \in F : \A U \in F : <<U, T>> \notin StrictSubsetOrdering(S)
    BY <1>1, WFMin
  <1>3. ASSUME NEW U \in F, U \subseteq T
        PROVE  U = T
    <2>1. U # T => <<U, T>> \in StrictSubsetOrdering(S)
      BY <1>3 DEF StrictSubsetOrdering
    <2> QED
      BY <1>2, <2>1
  <1> QED
    BY <1>3

-----------------------------------------------------------------------------
(* Counting instead of adding *)

\* One element for every unit of every value.
Units(f, S) == {u \in S \X Nat : u[2] \in 1 .. f[u[1]]}

LEMMA UnitsAdd ==
  ASSUME NEW f, NEW S, NEW x \in S, f[x] \in Nat, IsFiniteSet(Units(f, S \ {x}))
  PROVE  /\ IsFiniteSet(Units(f, S))
         /\ Cardinality(Units(f, S)) = f[x] + Cardinality(Units(f, S \ {x}))
  <1> DEFINE rest == Units(f, S \ {x})
             mine == {x} \X (1 .. f[x])
  <1>1. Units(f, S) = rest \cup mine
    BY DEF Units
  <1>2. rest \cap mine = {}
    BY DEF Units
  <1>3. IsFiniteSet(mine) /\ Cardinality(mine) = f[x]
    <2>1. IsFiniteSet({x}) /\ Cardinality({x}) = 1
      BY FS_Singleton
    <2>2. IsFiniteSet(1 .. f[x]) /\ Cardinality(1 .. f[x]) = f[x]
      BY FS_Interval
    <2>3. IsFiniteSet(mine) /\ Cardinality(mine) = Cardinality({x}) * Cardinality(1 .. f[x])
      BY <2>1, <2>2, FS_Product
    <2> QED
      BY <2>1, <2>2, <2>3
  <1>4. Cardinality(rest) \in Nat
    BY FS_CardinalityType
  <1>5. /\ IsFiniteSet(rest \cup mine)
        /\ Cardinality(rest \cup mine)
             = Cardinality(rest) + Cardinality(mine) - Cardinality(rest \cap mine)
    BY <1>3, FS_Union
  <1>6. Cardinality(rest \cap mine) = 0
    BY <1>2, FS_EmptySet
  <1>7. Cardinality(rest \cup mine) = f[x] + Cardinality(rest)
    BY <1>3, <1>4, <1>5, <1>6
  <1> QED
    BY <1>1, <1>5, <1>7

LEMMA UnitsFinite ==
  ASSUME NEW f, NEW S, IsFiniteSet(S), \A x \in S : f[x] \in Nat
  PROVE  IsFiniteSet(Units(f, S))
  <1> DEFINE Bad == {T \in SUBSET S : ~IsFiniteSet(Units(f, T))}
  <1> SUFFICES ASSUME Bad # {} PROVE FALSE
    OBVIOUS
  <1>1. PICK T \in Bad : \A U \in Bad : U \subseteq T => U = T
    <2>1. Bad \subseteq SUBSET S
      OBVIOUS
    <2> HIDE DEF Bad
    <2> QED
      BY <2>1, SmallestSubset
  <1>2. T # {}
    <2>1. Units(f, {}) = {}
      BY DEF Units
    <2> QED
      BY <2>1, FS_EmptySet
  <1>3. PICK x \in T : TRUE
    BY <1>2
  <1>4. IsFiniteSet(Units(f, T \ {x}))
    BY <1>1, <1>3
  <1>5. f[x] \in Nat /\ T \in SUBSET S
    BY <1>3
  <1>6. IsFiniteSet(Units(f, T))
    BY <1>3, <1>4, <1>5, UnitsAdd
  <1> QED
    BY <1>6

-----------------------------------------------------------------------------
(* SumFunctionOnSet *)

Step(f, g, s) == IF s = {} THEN 0 ELSE f[CHOOSE x \in s : TRUE] + g[s \ {CHOOSE x \in s : TRUE}]

Recursion(f, S, g) == g = [s \in SUBSET S |-> Step(f, g, s)]

LEMMA SumIsRecursion == \A f, S : SumFunctionOnSet(f, S) = (CHOOSE g : Recursion(f, S, g))[S]
  BY DEF SumFunctionOnSet, FoldFunctionOnSet, MapThenFoldSet, Recursion, Step

\* Counting units is a recursion of this kind, and there is no other.
LEMMA CountIsRecursion ==
  ASSUME NEW f, NEW S, IsFiniteSet(S), \A x \in S : f[x] \in Nat
  PROVE  Recursion(f, S, [s \in SUBSET S |-> Cardinality(Units(f, s))])
  <1> DEFINE g == [s \in SUBSET S |-> Cardinality(Units(f, s))]
  <1> SUFFICES ASSUME NEW s \in SUBSET S
               PROVE  g[s] = Step(f, g, s)
    BY DEF Recursion
  <1>1. CASE s = {}
    <2>1. Units(f, {}) = {}
      BY DEF Units
    <2> QED
      BY <1>1, <2>1, FS_EmptySet DEF Step
  <1>2. CASE s # {}
    <2> DEFINE x == CHOOSE y \in s : TRUE
    <2>1. x \in s /\ s \ {x} \in SUBSET S /\ f[x] \in Nat
      BY <1>2
    <2>2. IsFiniteSet(Units(f, s \ {x}))
      BY <2>1, UnitsFinite, FS_Subset
    <2>3. Cardinality(Units(f, s)) = f[x] + Cardinality(Units(f, s \ {x}))
      <3> HIDE DEF x
      <3> QED
        BY <2>1, <2>2, UnitsAdd
    <2> QED
      BY <1>2, <2>1, <2>3 DEF Step
  <1> QED
    BY <1>1, <1>2

LEMMA RecursionIsUnique ==
  ASSUME NEW f, NEW S, IsFiniteSet(S), NEW g, NEW h, Recursion(f, S, g), Recursion(f, S, h)
  PROVE  g[S] = h[S]
  <1> DEFINE Bad == {T \in SUBSET S : g[T] # h[T]}
  <1>1. ASSUME Bad # {} PROVE FALSE
    <2>1. PICK T \in Bad : \A U \in Bad : U \subseteq T => U = T
      <3>1. Bad \subseteq SUBSET S
        OBVIOUS
      <3> HIDE DEF Bad
      <3> QED
        BY <1>1, <3>1, SmallestSubset
    <2>2. g[T] = Step(f, g, T) /\ h[T] = Step(f, h, T)
      BY <2>1 DEF Recursion
    <2>3. T # {}
      BY <2>1, <2>2 DEF Step
    <2> DEFINE x == CHOOSE y \in T : TRUE
    <2>4. x \in T
      BY <2>3
    <2>5. T \ {x} \notin Bad
      BY <2>1, <2>4
    <2>6. g[T \ {x}] = h[T \ {x}]
      BY <2>1, <2>5
    <2> QED
      BY <2>1, <2>2, <2>6 DEF Step
  <1> QED
    BY <1>1

\* Adding up natural numbers over a finite set counts their units: the order in which
\* the fold takes them does not matter.
THEOREM SumCounts ==
  ASSUME NEW f, NEW S, IsFiniteSet(S), \A x \in S : f[x] \in Nat
  PROVE  SumFunctionOnSet(f, S) = Cardinality(Units(f, S))
  <1> DEFINE count == [s \in SUBSET S |-> Cardinality(Units(f, s))]
             sum == CHOOSE g : Recursion(f, S, g)
  <1>1. Recursion(f, S, count)
    BY CountIsRecursion
  <1>2. Recursion(f, S, sum)
    BY <1>1
  <1>3. sum[S] = count[S]
    BY <1>1, <1>2, RecursionIsUnique
  <1> QED
    BY <1>3, SumIsRecursion

-----------------------------------------------------------------------------
(* What the proofs about the contracts use *)

LEMMA SumOfNone == ASSUME NEW f PROVE SumFunctionOnSet(f, {}) = 0
  <1>1. Units(f, {}) = {}
    BY DEF Units
  <1> QED
    BY <1>1, FS_EmptySet, SumCounts

LEMMA SumType ==
  ASSUME NEW f, NEW S, IsFiniteSet(S), \A x \in S : f[x] \in Nat
  PROVE  SumFunctionOnSet(f, S) \in Nat
  BY SumCounts, UnitsFinite, FS_CardinalityType

LEMMA SumAdd ==
  ASSUME NEW f, NEW S, IsFiniteSet(S), \A y \in S : f[y] \in Nat, NEW x \in S
  PROVE  SumFunctionOnSet(f, S) = f[x] + SumFunctionOnSet(f, S \ {x})
  <1>1. IsFiniteSet(S \ {x}) /\ \A y \in S \ {x} : f[y] \in Nat
    BY FS_Subset
  <1>2. IsFiniteSet(Units(f, S \ {x}))
    BY <1>1, UnitsFinite
  <1>3. Cardinality(Units(f, S)) = f[x] + Cardinality(Units(f, S \ {x}))
    BY <1>2, UnitsAdd
  <1>4. SumFunctionOnSet(f, S \ {x}) = Cardinality(Units(f, S \ {x}))
    BY <1>1, SumCounts
  <1>5. SumFunctionOnSet(f, S) = Cardinality(Units(f, S))
    BY SumCounts
  <1> QED
    BY <1>3, <1>4, <1>5

LEMMA SumSame ==
  ASSUME NEW f, NEW g, NEW S, IsFiniteSet(S), \A x \in S : f[x] \in Nat /\ g[x] = f[x]
  PROVE  SumFunctionOnSet(g, S) = SumFunctionOnSet(f, S)
  <1>1. Units(f, S) = Units(g, S)
    BY DEF Units
  <1> QED
    BY <1>1, SumCounts

\* One value changes.
LEMMA SumChange ==
  ASSUME NEW f, NEW g, NEW S, IsFiniteSet(S), \A y \in S : f[y] \in Nat /\ g[y] \in Nat,
         NEW x \in S, \A y \in S \ {x} : g[y] = f[y]
  PROVE  SumFunctionOnSet(g, S) - g[x] = SumFunctionOnSet(f, S) - f[x]
  <1>1. IsFiniteSet(S \ {x}) /\ \A y \in S \ {x} : f[y] \in Nat /\ g[y] = f[y]
    BY FS_Subset
  <1>2. SumFunctionOnSet(g, S \ {x}) = SumFunctionOnSet(f, S \ {x})
    BY <1>1, SumSame
  <1>3. SumFunctionOnSet(f, S \ {x}) \in Nat
    BY <1>1, SumType
  <1>4. SumFunctionOnSet(f, S) = f[x] + SumFunctionOnSet(f, S \ {x})
    BY SumAdd
  <1>5. SumFunctionOnSet(g, S) = g[x] + SumFunctionOnSet(g, S \ {x})
    BY SumAdd
  <1> QED
    BY <1>2, <1>3, <1>4, <1>5

\* One value more, whatever the functions are elsewhere.
LEMMA SumGrow ==
  ASSUME NEW f, NEW g, NEW S, IsFiniteSet(S), NEW x, x \notin S, g[x] \in Nat,
         \A y \in S : f[y] \in Nat /\ g[y] = f[y]
  PROVE  SumFunctionOnSet(g, S \cup {x}) = g[x] + SumFunctionOnSet(f, S)
  <1> DEFINE T == S \cup {x}
  <1>1. IsFiniteSet(T)
    BY FS_AddElement
  <1>2. T \ {x} = S /\ x \in T /\ \A y \in T : g[y] \in Nat
    OBVIOUS
  <1>3. SumFunctionOnSet(g, T) = g[x] + SumFunctionOnSet(g, T \ {x})
    <2> HIDE DEF T
    <2> QED
      BY <1>1, <1>2, SumAdd
  <1>4. SumFunctionOnSet(g, S) = SumFunctionOnSet(f, S)
    BY SumSame
  <1> QED
    BY <1>2, <1>3, <1>4

=============================================================================
