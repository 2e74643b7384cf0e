--------------------------- MODULE CapacityProofs ---------------------------
(* Proofs about the scheduler's arithmetic, for every rate and capacity.   *)
EXTENDS MCCapacity, SumProofs

\* Integer division by a positive number, as the two facts the proofs need.
LEMMA Division ==
  ASSUME NEW a \in Nat, NEW b \in Nat \ {0}
  PROVE  /\ a \div b \in Nat /\ a % b \in Nat
         /\ a = b * (a \div b) + (a % b)
         /\ a % b < b
  OBVIOUS

\* The number of workers StartTest reserves is the least that can carry the
\* test's rate.
THEOREM RequiredWorkersMinimal ==
  ASSUME NEW rate \in Nat \ {0}, NEW cap \in Nat \ {0}
  PROVE  CoversDemand(rate, cap)
  <1> DEFINE a == rate + cap - 1
             n == a \div cap
             m == a % cap
  <1>1. a \in Nat /\ a = rate + cap - 1
    OBVIOUS
  <1> HIDE DEF a
  <1>2. n \in Nat /\ m \in Nat /\ a = cap * n + m /\ m < cap
    BY <1>1, Division
  <1> HIDE DEF n, m
  <1>3. n * cap = cap * n /\ (n - 1) * cap = cap * n - cap
    BY <1>2
  <1>4. cap * n \in Nat
    BY <1>2
  <1>5. n * cap >= rate /\ (n - 1) * cap < rate
    BY <1>1, <1>2, <1>3, <1>4
  <1>. QED
    BY <1>5 DEF CoversDemand, RequiredWorkers, n, a

\* A test needs a worker, and no more workers than requests per second.
LEMMA WorkersRequired ==
  ASSUME NEW rate \in Nat \ {0}, NEW cap \in Nat \ {0}
  PROVE  RequiredWorkers(rate, cap) \in Nat \ {0} /\ RequiredWorkers(rate, cap) <= rate
  <1> DEFINE n == RequiredWorkers(rate, cap)
  <1>1. n * cap >= rate /\ (n - 1) * cap < rate
    BY RequiredWorkersMinimal DEF CoversDemand
  <1>2. n \in Nat
    BY Division DEF RequiredWorkers
  <1> HIDE DEF n
  <1>3. n # 0
    BY <1>1, <1>2
  <1>4. (n - 1) <= (n - 1) * cap
    BY <1>2, <1>3
  <1>5. n \in Nat \ {0} /\ n <= rate
    BY <1>1, <1>2, <1>3, <1>4
  <1>. QED
    BY <1>5 DEF n

\* Every worker of a test gets at least one request per second and at most
\* its capacity.
THEOREM SharesFitCapacity ==
  ASSUME NEW rate \in Nat \ {0}, NEW cap \in Nat \ {0}
  PROVE  SharesWithinCapacity(rate, cap)
  <1> DEFINE n == RequiredWorkers(rate, cap)
             base == rate \div n
             rem == rate % n
  <1>1. n \in Nat \ {0} /\ n <= rate
    BY WorkersRequired
  <1>2. n * cap >= rate
    BY RequiredWorkersMinimal DEF CoversDemand
  <1> HIDE DEF n
  <1>3. base \in Nat /\ rem \in Nat /\ rate = n * base + rem /\ rem < n
    BY <1>1, Division
  <1> HIDE DEF base, rem
  <1>4. base >= 1
    BY <1>1, <1>3
  <1>5. base <= cap
    BY <1>1, <1>2, <1>3
  <1>6. rem > 0 => base + 1 <= cap
    BY <1>1, <1>2, <1>3
  <1>7. \A i \in 1..n : (IF i <= rem THEN base + 1 ELSE base) \in 1..cap
    BY <1>1, <1>3, <1>4, <1>5, <1>6
  <1>. QED
    BY <1>7 DEF SharesWithinCapacity, DistributeRPS, n, base, rem

-----------------------------------------------------------------------------
(* The sum of the shares                                                   *)

\* Any of the shares of a split add up to the base for each, and one more for
\* each of the first `remainder` among them.
LEMMA SumOfShares ==
  ASSUME NEW n \in Nat \ {0}, NEW base \in Nat, NEW rem \in Nat
  PROVE  Sums(1..n, [i \in 1..n |-> IF i <= rem THEN base + 1 ELSE base],
              [s \in SUBSET (1..n) |-> base * Cardinality(s) + Cardinality(s \cap (1..rem))])
  <1> DEFINE share == [i \in 1..n |-> IF i <= rem THEN base + 1 ELSE base]
             g == [s \in SUBSET (1..n) |-> base * Cardinality(s) + Cardinality(s \cap (1..rem))]
  <1>1. IsFiniteSet(1..n)
    BY FS_Interval
  <1>2. ASSUME NEW s \in SUBSET (1..n)
        PROVE  g[s] = IF s = {} THEN 0 ELSE share[Element(s)] + g[s \ {Element(s)}]
    <2> DEFINE first == s \cap (1..rem)
    <2>1. /\ IsFiniteSet(s) /\ Cardinality(s) \in Nat
          /\ IsFiniteSet(first) /\ Cardinality(first) \in Nat
      BY <1>1, FS_Subset, FS_CardinalityType
    <2>2. CASE s = {}
      BY <2>2, FS_EmptySet
    <2>3. CASE s # {}
      <3>1. PICK e : e = Element(s)
        OBVIOUS
      <3>2. e \in s /\ e \in 1..n
        BY <2>3, <3>1, ElementTaken
      <3>3. Cardinality(s \ {e}) = Cardinality(s) - 1
        BY <2>1, <3>2, FS_RemoveElement
      <3>4. (s \ {e}) \cap (1..rem) = first \ {e} /\ (e \in first <=> e <= rem)
        BY <3>2
      <3>5. Cardinality(first \ {e}) = IF e <= rem THEN Cardinality(first) - 1 ELSE Cardinality(first)
        BY <2>1, <3>4, FS_RemoveElement
      <3>6. g[s \ {e}] = base * Cardinality(s \ {e}) + Cardinality(first \ {e})
        BY <3>4
      <3>7. g[s] = base * Cardinality(s) + Cardinality(first)
        OBVIOUS
      <3>8. share[e] = IF e <= rem THEN base + 1 ELSE base
        BY <3>2
      <3> HIDE DEF first, g, share
      <3>9. base * (Cardinality(s) - 1) = base * Cardinality(s) - base /\ base * Cardinality(s) \in Int
        BY <2>1
      <3>10. g[s] = share[e] + g[s \ {e}]
        BY <2>1, <3>3, <3>5, <3>6, <3>7, <3>8, <3>9
      <3>. QED
        BY <2>3, <3>1, <3>10
    <2>. QED
      BY <2>2, <2>3
  <1>3. g = [s \in SUBSET (1..n) |-> g[s]]
    OBVIOUS
  <1> HIDE DEF g, share
  <1>4. Sums(1..n, share, g)
    BY <1>2, <1>3 DEF Sums
  <1>. QED
    BY <1>4 DEF g, share

\* The shares of DistributeRPS add up to the rate, however many workers there are.
LEMMA SplitConserves ==
  ASSUME NEW total \in Nat, NEW n \in Nat \ {0}
  PROVE  FoldFunction(+, 0, DistributeRPS(total, n)) = total
  <1> DEFINE base == total \div n
             rem == total % n
             share == [i \in 1..n |-> IF i <= rem THEN base + 1 ELSE base]
             g == [s \in SUBSET (1..n) |-> base * Cardinality(s) + Cardinality(s \cap (1..rem))]
  <1>1. base \in Nat /\ rem \in Nat /\ total = n * base + rem /\ rem < n
    BY Division
  <1>2. DistributeRPS(total, n) = share /\ DOMAIN share = 1..n
    BY DEF DistributeRPS
  <1> HIDE DEF base, rem
  <1>3. Sums(1..n, share, g)
    BY <1>1, SumOfShares
  <1>4. g[1..n] = total
    <2>1. (1..n) \cap (1..rem) = 1..rem
      BY <1>1
    <2>2. Cardinality(1..n) = n /\ Cardinality(1..rem) = rem
      BY <1>1, FS_Interval
    <2>3. g[1..n] = base * Cardinality(1..n) + Cardinality((1..n) \cap (1..rem))
      OBVIOUS
    <2>4. base * n = n * base
      BY <1>1
    <2> HIDE DEF g
    <2>5. g[1..n] = base * n + rem
      BY <2>1, <2>2, <2>3
    <2>. QED
      BY <1>1, <2>4, <2>5
  <1> HIDE DEF share, g
  <1>5. FoldFunctionOnSet(+, 0, share, 1..n) = g[1..n]
    <2>1. IsFiniteSet(1..n)
      BY FS_Interval
    <2>. QED
      BY <1>3, <2>1, SumOfFunction
  <1>. QED
    BY <1>2, <1>4, <1>5 DEF FoldFunction

-----------------------------------------------------------------------------
(* Every rate and capacity of the model                                    *)

InRange == rps \in Nat \ {0} /\ capacityRPS \in Nat \ {0}

LEMMA AlwaysInRange == Spec => []InRange
  <1>1. Init => InRange
    BY BoundsAssumption DEF Init, InRange
  <1>2. InRange /\ [Next]_<<rps, capacityRPS>> => InRange'
    BY DEF Next, InRange
  <1>. QED
    BY <1>1, <1>2, PTL DEF Spec

\* RequiredWorkers of rps.go is enough for the demand, and one worker fewer
\* is not.
THEOREM DemandAlwaysCovered == Spec => []DemandCovered
  <1>1. InRange => DemandCovered
    BY RequiredWorkersMinimal DEF InRange, DemandCovered
  <1>. QED
    BY <1>1, AlwaysInRange, PTL

\* No share of DistributeRPS of rps.go is zero or above a worker's capacity.
THEOREM SharesAlwaysFit == Spec => []SharesFit
  <1>1. InRange => SharesFit
    BY SharesFitCapacity DEF InRange, SharesFit
  <1>. QED
    BY <1>1, AlwaysInRange, PTL

\* DistributeRPS of rps.go neither loses nor adds any of the test's rate.
THEOREM RateAlwaysConserved == Spec => []RateConserved
  <1>1. InRange => RateConserved
    <2>1. SUFFICES ASSUME InRange PROVE RateConserved
      OBVIOUS
    <2>2. PICK n : n = RequiredWorkers(rps, capacityRPS)
      OBVIOUS
    <2>3. n \in Nat \ {0}
      BY <2>1, <2>2, WorkersRequired DEF InRange
    <2>4. PICK r \in Nat : r = rps
      BY <2>1 DEF InRange
    <2>5. FoldFunction(+, 0, DistributeRPS(r, n)) = r
      BY <2>3, SplitConserves
    <2>. QED
      BY <2>2, <2>4, <2>5 DEF RateConserved, Shares
  <1>. QED
    BY <1>1, AlwaysInRange, PTL

=============================================================================
