------------------------------ MODULE SumProofs ------------------------------
(***************************************************************************)
(* Sums over finite sets: the folds of the community modules apply a       *)
(* recursive function on the subsets of the set, and these lemmas say that *)
(* this function exists, that there is one only, and that its values are   *)
(* natural numbers.  They are proved from minimal counterexamples, since   *)
(* an induction theorem over an operator cannot be instantiated.           *)
(***************************************************************************)
EXTENDS Integers, FiniteSetsExt, Functions, FiniteSetTheorems, WellFoundedInduction, TLAPS

\* The element a fold takes of s next.
Element(s) == CHOOSE x \in s : TRUE

\* The recursive equation of the sums of f over the subsets of S.
Sums(S, f, g) ==
  g = [s \in SUBSET S |-> IF s = {} THEN 0 ELSE f[Element(s)] + g[s \ {Element(s)}]]

LEMMA LeastNatural ==
  ASSUME NEW T \in SUBSET Nat, T # {}
  PROVE  \E n \in T : \A m \in T : n <= m
  <1>1. PICK n \in T : \A m \in T : <<m, n>> \notin OpToRel(<, Nat)
    BY NatLessThanWellFounded, WFMin
  <1>2. \A m \in T : ~(m < n)
    BY <1>1 DEF OpToRel
  <1>. QED
    BY <1>2

LEMMA MinimalSubset ==
  ASSUME NEW S, IsFiniteSet(S), NEW B \in SUBSET (SUBSET S), B # {}
  PROVE  \E T \in B : \A U \in B : U \subseteq T => U = T
  <1>1. IsWellFoundedOn(StrictSubsetOrdering(S), SUBSET S)
    BY FS_StrictSubsetOrderingWellFounded, FS_FiniteSubsetsOfFinite
  <1>2. PICK T \in B : \A U \in B : <<U, T>> \notin StrictSubsetOrdering(S)
    BY <1>1, WFMin
  <1>. QED
    BY <1>2 DEF StrictSubsetOrdering

LEMMA ElementTaken ==
  ASSUME NEW s, s # {}
  PROVE  Element(s) \in s
  BY DEF Element

LEMMA SumsUnique ==
  ASSUME NEW S, IsFiniteSet(S), NEW f, NEW g, NEW h, Sums(S, f, g), Sums(S, f, h)
  PROVE  g = h
  <1> DEFINE B == {s \in SUBSET S : g[s] # h[s]}
  <1>1. ASSUME B # {} PROVE FALSE
    <2>0. B \in SUBSET (SUBSET S)
      OBVIOUS
    <2> HIDE DEF B
    <2>1. PICK T \in B : \A U \in B : U \subseteq T => U = T
      BY <1>1, <2>0, MinimalSubset
    <2> USE DEF B
    <2>2. T # {} /\ T \subseteq S
      <3>1. {} \in SUBSET S
        OBVIOUS
      <3>2. g[{}] = 0 /\ h[{}] = 0
        BY <3>1 DEF Sums
      <3>. QED
        BY <2>1, <3>2
    <2> DEFINE rest == T \ {Element(T)}
    <2>3. rest \subseteq T /\ rest # T
      BY <2>2, ElementTaken
    <2>4. g[rest] = h[rest]
      BY <2>1, <2>2, <2>3
    <2> HIDE DEF rest
    <2>5. g[T] = f[Element(T)] + g[rest] /\ h[T] = f[Element(T)] + h[rest]
      BY <2>2 DEF Sums, rest
    <2>. QED
      BY <2>1, <2>4, <2>5
  <1>2. \A s \in SUBSET S : g[s] = h[s]
    BY <1>1
  <1>. QED
    BY <1>2 DEF Sums

\* Solving the equation for ever larger subsets.
LEMMA SumsExist ==
  ASSUME NEW S, IsFiniteSet(S), NEW f \in [S -> Nat]
  PROVE  \E g \in [SUBSET S -> Nat] : Sums(S, f, g)
  <1> DEFINE Next(g, s) == IF s = {} THEN 0 ELSE f[Element(s)] + g[s \ {Element(s)}]
             UpTo(k, g) == \A s \in SUBSET S : Cardinality(s) <= k => g[s] = Next(g, s)
             Unsolved == {k \in Nat : ~ \E g \in [SUBSET S -> Nat] : UpTo(k, g)}
  <1>1. \A s \in SUBSET S : IsFiniteSet(s) /\ Cardinality(s) \in Nat /\ Cardinality(s) <= Cardinality(S)
    BY FS_Subset, FS_CardinalityType
  <1>2. \A s \in SUBSET S : s # {} =>
          /\ Element(s) \in S /\ s \ {Element(s)} \in SUBSET S
          /\ Cardinality(s \ {Element(s)}) = Cardinality(s) - 1
    BY <1>1, ElementTaken, FS_RemoveElement
  <1>3. \A g \in [SUBSET S -> Nat], s \in SUBSET S : Next(g, s) \in Nat
    BY <1>2
  <1>4. 0 \notin Unsolved
    <2>1. \A s \in SUBSET S : Cardinality(s) <= 0 => s = {}
      BY <1>1, FS_EmptySet
    <2>2. [s \in SUBSET S |-> 0] \in [SUBSET S -> Nat] /\ UpTo(0, [s \in SUBSET S |-> 0])
      BY <2>1
    <2>. QED
      BY <2>2
  <1>5. ASSUME NEW k \in Nat, k \notin Unsolved
        PROVE  k + 1 \notin Unsolved
    <2>1. PICK g \in [SUBSET S -> Nat] : UpTo(k, g)
      BY <1>5
    <2> DEFINE h == [s \in SUBSET S |-> IF Cardinality(s) <= k THEN g[s] ELSE Next(g, s)]
    <2>2. h \in [SUBSET S -> Nat]
      BY <1>3
    <2>3. ASSUME NEW s \in SUBSET S, Cardinality(s) <= k + 1
          PROVE  h[s] = Next(h, s)
      <3>1. h[s] = Next(g, s)
        BY <2>1
      <3>2. CASE s = {}
        BY <3>1, <3>2
      <3>3. CASE s # {}
        <4>1. h[s \ {Element(s)}] = g[s \ {Element(s)}]
          BY <1>1, <1>2, <2>3, <3>3
        <4>. QED
          BY <3>1, <3>3, <4>1
      <3>. QED
        BY <3>2, <3>3
    <2>4. UpTo(k + 1, h)
      BY <2>3
    <2>. QED
      BY <2>2, <2>4
  <1>6. Unsolved = {}
    <2>1. SUFFICES ASSUME Unsolved # {} PROVE FALSE
      OBVIOUS
    <2>2. PICK n \in Unsolved : \A m \in Unsolved : n <= m
      BY <2>1, LeastNatural
    <2> HIDE DEF Unsolved
    <2>3. n \in Nat
      BY <2>2 DEF Unsolved
    <2>4. n - 1 \in Nat /\ n - 1 \notin Unsolved
      BY <1>4, <2>2, <2>3
    <2>. QED
      BY <1>5, <2>2, <2>3, <2>4
  <1>7. PICK g \in [SUBSET S -> Nat] : UpTo(Cardinality(S), g)
    BY <1>6, FS_CardinalityType
  <1>8. \A s \in SUBSET S : g[s] = Next(g, s)
    BY <1>1, <1>7
  <1>9. g = [s \in SUBSET S |-> Next(g, s)]
    BY <1>8
  <1>. QED
    BY <1>9 DEF Sums

\* A sum is what any solution of the equation says it is.
LEMMA SumOfFunction ==
  ASSUME NEW S, IsFiniteSet(S), NEW f, NEW g, Sums(S, f, g)
  PROVE  FoldFunctionOnSet(+, 0, f, S) = g[S]
  <1>1. FoldFunctionOnSet(+, 0, f, S) = (CHOOSE h : Sums(S, f, h))[S]
    BY DEF FoldFunctionOnSet, MapThenFoldSet, Sums, Element
  <1>2. (CHOOSE h : Sums(S, f, h)) = g
    BY SumsUnique
  <1>. QED
    BY <1>1, <1>2

\* The sum of naturals over a finite set is a natural.
LEMMA SumIsNatural ==
  ASSUME NEW S, IsFiniteSet(S), NEW f \in [S -> Nat]
  PROVE  FoldFunctionOnSet(+, 0, f, S) \in Nat
  <1>1. PICK g \in [SUBSET S -> Nat] : Sums(S, f, g)
    BY SumsExist
  <1>2. g[S] \in Nat
    OBVIOUS
  <1>. QED
    BY <1>1, <1>2, SumOfFunction

=============================================================================
