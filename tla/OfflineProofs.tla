---------------------------- MODULE OfflineProofs ---------------------------
(***************************************************************************)
(* The programs that run without the cluster: the statistics, the clock     *)
(* attestations, the commands for the deliberate errors and for the oracle, *)
(* the study protocol and the evidence of a run.                            *)
(* Everything else stands still while one of them runs.                     *)
(***************************************************************************)
EXTENDS Offline, NumberFacts, SequenceTheorems, FiniteSetTheorems

\* A subset of a finite set is finite and not larger.
LEMMA SubsetCounts ==
  ASSUME NEW S, IsFiniteSet(S), NEW T, \A x \in T : x \in S
  PROVE  /\ IsFiniteSet(T) /\ Cardinality(T) \in Nat /\ Cardinality(S) \in Nat
         /\ Cardinality(T) <= Cardinality(S)
<1>1. T \in SUBSET S
  OBVIOUS
<1> QED BY <1>1, FS_Subset, FS_CardinalityType

-----------------------------------------------------------------------------
(* The statistics: their inputs.                                           *)

AnalysisInvariant ==
  /\ pairs \in Seq(Int) /\ family \in Seq(-1..Whole)
  /\ delays \in Seq(Nat) /\ \A i, j \in DOMAIN delays : i <= j => delays[i] <= delays[j]

\* The inputs grow one by one, the delays in order.
LEMMA AnalysisInvariantHolds == OfflineSpec => []AnalysisInvariant
<1>1. OfflineInit => AnalysisInvariant
  BY AnalysisAssumption DEF OfflineInit, AnalysisInit, AnalysisInvariant
<1>2. ASSUME AnalysisInvariant, [OfflineNext]_offlineVars
      PROVE  AnalysisInvariant'
  <2>1. CASE UNCHANGED analysisVars
    BY <1>2, <2>1 DEF AnalysisInvariant, analysisVars
  <2>2. CASE AnalysisNext
    <3>1. CASE AddPair
      BY <1>2, <3>1, AnalysisAssumption DEF AddPair, AnalysisInvariant
    <3>2. CASE AddTest
      BY <1>2, <3>2, AnalysisAssumption DEF AddTest, AnalysisInvariant
    <3>3. ASSUME NEW d \in DelayValues, \A i \in DOMAIN delays : delays[i] <= d,
                 delays' = Append(delays, d), UNCHANGED <<pairs, family>>
          PROVE  AnalysisInvariant'
      <4>1. d \in Nat
        BY AnalysisAssumption
      <4> QED BY <1>2, <3>3, <4>1 DEF AnalysisInvariant
    <3> QED BY <2>2, <3>1, <3>2, <3>3 DEF AnalysisNext, AddTrial
  <2>3. UNCHANGED analysisVars \/ AnalysisNext
    BY <1>2 DEF OfflineNext, Proceed, Dataset, Study, studyVars, offlineVars
  <2> QED BY <2>1, <2>2, <2>3
<1> QED BY <1>1, <1>2, PTL DEF OfflineSpec

-----------------------------------------------------------------------------
(* The forecast horizon.                                                   *)

\* The nearest rank is the least that 95 of 100 reach.
LEMMA NearestRank ==
  ASSUME NEW n \in Nat \ {0}
  PROVE  LET k == Max({1, CeilDiv(95 * n, 100)})
         IN  k \in 1..n /\ 100 * k >= 95 * n /\ 100 * (k - 1) < 95 * n
<1> DEFINE c == CeilDiv(95 * n, 100)
<1>1. c \in Nat /\ 100 * c >= 95 * n /\ 100 * (c - 1) < 95 * n
  BY DEF CeilDiv
<1> HIDE DEF c
<1>2. Max({1, c}) = IF 1 >= c THEN 1 ELSE c
  BY <1>1, MaxOfTwo
<1> QED BY <1>1, <1>2 DEF c

\* A longer delay needs a longer horizon.
LEMMA MarginGrows ==
  ASSUME NEW a \in Nat, NEW b \in Nat
  PROVE  WithMargin(a) \in Nat /\ (a <= b => WithMargin(a) <= WithMargin(b))
BY MaxOfTwo DEF WithMargin

\* The horizon the study selected is the shortest that leaves 95 of 100 trials their
\* delay and the margin, whatever the delays (analyze_step6.py).
THEOREM HorizonIsShortest == OfflineSpec => []HorizonCoversReadiness
<1>1. ASSUME AnalysisInvariant
      PROVE  HorizonCoversReadiness
  <2> SUFFICES ASSUME delays # << >>
               PROVE  HorizonCoversReadiness
    BY DEF HorizonCoversReadiness
  <2> DEFINE n == Len(delays)
             k == Max({1, CeilDiv(95 * n, 100)})
             m == WithMargin(delays[k])
             h == CeilDiv(m, 50)
             Served(x) == {i \in DOMAIN delays : WithMargin(delays[i]) <= 50 * x}
  <2>1. n \in Nat \ {0} /\ DOMAIN delays = 1..n /\ \A i \in 1..n : delays[i] \in Nat
    BY <1>1 DEF AnalysisInvariant
  <2>2. k \in 1..n /\ 100 * k >= 95 * n /\ 100 * (k - 1) < 95 * n
    BY <2>1, NearestRank
  <2>3. m \in Nat
    BY <2>1, <2>2, MarginGrows
  <2>4. h \in Int /\ m <= 50 * h /\ 50 * (h - 1) < m
    <3> HIDE DEF m
    <3> QED BY <2>3 DEF CeilDiv
  <2>5. ForecastHorizon(delays) = h
    BY DEF ForecastHorizon, Percentile
  <2> HIDE DEF n, k, h
  <2>6. \A i \in 1..n : /\ WithMargin(delays[i]) \in Nat
                        /\ i <= k => WithMargin(delays[i]) <= m
                        /\ k <= i => m <= WithMargin(delays[i])
    BY <1>1, <2>1, <2>2, MarginGrows DEF AnalysisInvariant
  <2> HIDE DEF m
  <2>7. IsFiniteSet(Served(h)) /\ Cardinality(Served(h)) \in Nat /\ k <= Cardinality(Served(h))
    <3>1. Served(h) \in SUBSET (1..n)
      BY <2>1
    <3>2. ASSUME NEW i \in 1..k
          PROVE  i \in Served(h)
      <4>1. i \in 1..n /\ i <= k
        BY <2>1, <2>2
      <4> QED BY <2>1, <2>3, <2>4, <2>6, <4>1
    <3> HIDE DEF Served
    <3>3. IsFiniteSet(1..n) /\ Cardinality(1..k) = k
      BY <2>1, <2>2, FS_Interval
    <3>4. IsFiniteSet(Served(h))
      BY <3>1, <3>3, SubsetCounts
    <3>5. Cardinality(Served(h)) \in Nat /\ Cardinality(1..k) <= Cardinality(Served(h))
      BY <3>2, <3>4, SubsetCounts
    <3> QED BY <3>3, <3>4, <3>5
  <2>8. Cardinality(Served(h - 1)) \in Nat /\ Cardinality(Served(h - 1)) <= k - 1
    <3>1. ASSUME NEW i \in Served(h - 1)
          PROVE  i \in 1..(k - 1)
      <4>1. i \in 1..n /\ WithMargin(delays[i]) <= 50 * (h - 1)
        BY <2>1
      <4>2. ~ (k <= i)
        BY <2>3, <2>4, <2>6, <4>1
      <4> QED BY <2>1, <2>2, <4>1, <4>2
    <3> HIDE DEF Served
    <3>2. IsFiniteSet(1..(k - 1)) /\ Cardinality(1..(k - 1)) = k - 1
      <4>1. k \in Int /\ k >= 1
        BY <2>1, <2>2
      <4>2. /\ IsFiniteSet(1..(k - 1))
            /\ Cardinality(1..(k - 1)) = IF 1 > k - 1 THEN 0 ELSE ((k - 1) - 1) + 1
        BY <4>1, FS_Interval
      <4> QED BY <4>1, <4>2
    <3>3. /\ Cardinality(Served(h - 1)) \in Nat
          /\ Cardinality(Served(h - 1)) <= Cardinality(1..(k - 1))
      BY <3>1, <3>2, SubsetCounts
    <3> QED BY <3>2, <3>3
  <2>9. 100 * Cardinality(Served(h)) >= 95 * n /\ ~(100 * Cardinality(Served(h - 1)) >= 95 * n)
    <3> HIDE DEF Served
    <3> QED BY <2>1, <2>2, <2>7, <2>8
  <2> QED BY <2>5, <2>9 DEF HorizonCoversReadiness, n
<1> QED BY <1>1, AnalysisInvariantHolds, PTL

-----------------------------------------------------------------------------
(* Holm's adjustment.                                                      *)

\* The order of the tests: by p value, equal ones by index.
Earlier(p, j, i) == p[j] < p[i] \/ (p[j] = p[i] /\ j < i)

\* What the tests with data look like.
LEMMA ValidTests ==
  ASSUME NEW p \in Seq(-1..Whole)
  PROVE  /\ IsFiniteSet(Valid(p)) /\ Valid(p) \subseteq Nat
         /\ \A i \in Valid(p) : i \in Nat /\ p[i] \in Nat /\ p[i] <= Whole
<1>1. PICK n \in Nat : n = Len(p)
  BY LenProperties
<1>2. DOMAIN p = 1..n /\ \A i \in 1..n : p[i] \in -1..Whole
  BY <1>1, AnalysisAssumption
<1>3. \A i \in Valid(p) : i \in 1..n /\ p[i] \in Nat /\ p[i] <= Whole
  BY <1>2, AnalysisAssumption DEF Valid, Undefined
<1>4. IsFiniteSet(1..n)
  BY FS_Interval
<1> QED BY <1>3, <1>4, SubsetCounts

\* Every nonempty set of tests has a first one.
LEMMA FirstTest ==
  ASSUME NEW p \in Seq(-1..Whole), NEW S, S \subseteq Valid(p), S # {}
  PROVE  \E j \in S : \A t \in S : p[j] <= p[t] /\ ~Earlier(p, t, j)
<1>1. PICK v \in {p[t] : t \in S} : \A w \in {p[t] : t \in S} : v <= w
  <2>1. {p[t] : t \in S} \subseteq Nat /\ {p[t] : t \in S} # {}
    BY ValidTests
  <2> QED BY <2>1, LeastNat
<1>2. PICK j \in {t \in S : p[t] = v} : \A t \in {t \in S : p[t] = v} : j <= t
  <2>1. {t \in S : p[t] = v} \subseteq Nat /\ {t \in S : p[t] = v} # {}
    BY <1>1, ValidTests
  <2> QED BY <2>1, LeastNat
<1>3. ASSUME NEW t \in S
      PROVE  p[j] <= p[t] /\ ~Earlier(p, t, j)
  <2>1. t \in Nat /\ j \in Nat /\ p[t] \in Nat /\ p[j] \in Nat /\ p[j] = v /\ v <= p[t]
    BY <1>1, <1>2, ValidTests
  <2>2. p[t] = v => j <= t
    BY <1>2
  <2> QED BY <2>1, <2>2 DEF Earlier
<1> QED BY <1>2, <1>3

\* More tests, or a larger p value, make a larger product.
LEMMA ProductGrows ==
  ASSUME NEW a \in Nat, NEW b \in Nat, NEW c \in Nat, NEW d \in Nat, a <= b, c <= d
  PROVE  a * c \in Nat /\ b * d \in Nat /\ a * c <= b * d
<1>1. PICK x \in Nat : b = a + x
  <2>1. b - a \in Nat
    OBVIOUS
  <2> QED BY <2>1
<1>2. PICK y \in Nat : d = c + y
  <2>1. d - c \in Nat
    OBVIOUS
  <2> QED BY <2>1
<1>3. (a + x) * (c + y) = a * c + a * y + x * c + x * y
  OBVIOUS
<1>4. a * c \in Nat /\ a * y \in Nat /\ x * c \in Nat /\ x * y \in Nat
  OBVIOUS
<1> QED BY <1>1, <1>2, <1>3, <1>4

\* Bonferroni for a set of tests is decided by its first test.
LEMMA BonferroniOfFirst ==
  ASSUME NEW p \in Seq(-1..Whole), NEW S, S \subseteq Valid(p),
         NEW j \in S, \A t \in S : p[j] <= p[t]
  PROVE  LET c == Cardinality(S) * p[j]
         IN  /\ c \in Nat
             /\ Min({Whole} \cup {Cardinality(S) * p[i] : i \in S})
                  = IF Whole <= c THEN Whole ELSE c
<1> DEFINE n == Cardinality(S)
           c == n * p[j]
           B == {Whole} \cup {n * p[i] : i \in S}
<1>1. n \in Nat
  BY ValidTests, SubsetCounts
<1> HIDE DEF n
<1>2. c \in Nat /\ \A i \in S : n * p[i] \in Nat /\ c <= n * p[i]
  <2>1. \A i \in S : p[i] \in Nat
    BY ValidTests
  <2>2. \A x, y \in Nat : x <= y => n * x \in Nat /\ n * x <= n * y
    BY <1>1, ProductGrows
  <2>3. \A x \in Nat : n * x \in Nat
    BY <1>1
  <2> QED BY <2>1, <2>2, <2>3
<1>3. Whole \in B /\ c \in B
  OBVIOUS
<1>4. B \subseteq Nat
  BY <1>2, AnalysisAssumption
<1>5. Min(B) \in B /\ \A y \in B : Min(B) <= y
  BY <1>3, <1>4, MinNat
<1>6. Min(B) = Whole \/ c <= Min(B)
  BY <1>2, <1>5
<1>7. Min(B) \in Nat /\ Min(B) <= Whole /\ Min(B) <= c
  BY <1>3, <1>4, <1>5
<1> HIDE DEF c, B
<1>8. Min(B) = IF Whole <= c THEN Whole ELSE c
  BY <1>2, <1>6, <1>7, AnalysisAssumption
<1> QED BY <1>2, <1>8 DEF n, c, B

\* A set of tests whose first is j has at most the tests Holm multiplies p[j] with, and
\* the set of all tests from j on has exactly those.
LEMMA TestsFrom ==
  ASSUME NEW p \in Seq(-1..Whole), NEW j \in Valid(p)
  PROVE  LET m == Cardinality(Valid(p)) - Cardinality(Smaller(p, j))
         IN  /\ m \in Nat /\ Cardinality(Valid(p) \ Smaller(p, j)) = m
             /\ \A S : S \subseteq Valid(p) /\ S \cap Smaller(p, j) = {}
                         => Cardinality(S) \in Nat /\ Cardinality(S) <= m
<1>1. IsFiniteSet(Valid(p)) /\ Smaller(p, j) \subseteq Valid(p)
  BY ValidTests DEF Smaller
<1>2. /\ IsFiniteSet(Valid(p) \ Smaller(p, j))
      /\ Cardinality(Valid(p) \ Smaller(p, j))
           = Cardinality(Valid(p)) - Cardinality(Valid(p) \cap Smaller(p, j))
      /\ Cardinality(Valid(p) \ Smaller(p, j)) \in Nat
  BY <1>1, FS_Difference, FS_CardinalityType
<1>3. Valid(p) \cap Smaller(p, j) = Smaller(p, j)
  BY <1>1
<1>4. ASSUME NEW S, S \subseteq Valid(p), S \cap Smaller(p, j) = {}
      PROVE  /\ Cardinality(S) \in Nat
             /\ Cardinality(S) <= Cardinality(Valid(p) \ Smaller(p, j))
  <2>1. \A x \in S : x \in Valid(p) \ Smaller(p, j)
    BY <1>4
  <2> QED BY <1>2, <2>1, SubsetCounts
<1> QED BY <1>2, <1>3, <1>4

\* Holm's value is the largest of the Bonferroni values of the sets a test belongs to.
LEMMA HolmIsClosedTest ==
  ASSUME NEW p \in Seq(-1..Whole), NEW i \in Valid(p)
  PROVE  LET Bonferroni(S) == Min({Whole} \cup {Cardinality(S) * p[k] : k \in S})
         IN  Min({Whole, Max({Scaled(p, j) : j \in Smaller(p, i) \cup {i}})})
               = Max({Bonferroni(S) : S \in {T \in SUBSET Valid(p) : i \in T}})
<1> DEFINE Bonferroni(S) == Min({Whole} \cup {Cardinality(S) * p[k] : k \in S})
           J == Smaller(p, i) \cup {i}
           U == {Scaled(p, j) : j \in J}
           V == {Bonferroni(S) : S \in {T \in SUBSET Valid(p) : i \in T}}
           Capped(x) == IF Whole <= x THEN Whole ELSE x
<1>1. /\ J \subseteq Valid(p) /\ IsFiniteSet(J) /\ i \in J
      /\ \A j \in J : j = i \/ Earlier(p, j, i)
  <2>1. J \subseteq Valid(p) /\ i \in J /\ \A j \in J : j = i \/ Earlier(p, j, i)
    BY DEF Smaller, Earlier
  <2> QED BY <2>1, ValidTests, SubsetCounts
<1>2. \A j \in Valid(p) : Scaled(p, j) \in Nat /\ Scaled(p, j) <= Cardinality(Valid(p)) * Whole
  <2> TAKE j \in Valid(p)
  <2> DEFINE m == Cardinality(Valid(p)) - Cardinality(Smaller(p, j))
  <2>1. p[j] \in Nat /\ p[j] <= Whole /\ Whole \in Nat
    BY ValidTests, AnalysisAssumption
  <2>2. m \in Nat /\ Cardinality(Valid(p)) \in Nat /\ m <= Cardinality(Valid(p))
    <3>1. m \in Nat
      BY TestsFrom
    <3>2. Cardinality(Valid(p)) \in Nat /\ Cardinality(Smaller(p, j)) \in Nat
      BY ValidTests, SubsetCounts DEF Smaller
    <3> QED BY <3>1, <3>2
  <2>3. Scaled(p, j) = m * p[j]
    BY DEF Scaled
  <2> HIDE DEF m
  <2>4. m * p[j] \in Nat /\ m * p[j] <= Cardinality(Valid(p)) * Whole
    BY <2>1, <2>2, ProductGrows
  <2> QED BY <2>3, <2>4
<1>3. Max(U) \in U /\ \A y \in U : y <= Max(U)
  <2>1. U \subseteq Nat /\ U # {} /\ \A y \in U : y <= Cardinality(Valid(p)) * Whole
    BY <1>1, <1>2
  <2>2. Cardinality(Valid(p)) * Whole \in Nat
    BY ValidTests, FS_CardinalityType, AnalysisAssumption
  <2> QED BY <2>1, <2>2, MaxNat
<1>4. PICK first \in J : Scaled(p, first) = Max(U) /\ \A j \in J : Scaled(p, j) <= Scaled(p, first)
  BY <1>3
\* A set of tests is judged by its first test, which is among the tests up to i.
<1>5. ASSUME NEW S, S \subseteq Valid(p), i \in S
      PROVE  Bonferroni(S) \in Nat /\ Bonferroni(S) <= Capped(Scaled(p, first))
  <2>1. PICK j \in S : \A t \in S : p[j] <= p[t] /\ ~Earlier(p, t, j)
    BY <1>5, FirstTest
  <2>2. j \in J
    <3>1. ~Earlier(p, i, j) /\ p[i] \in Nat /\ p[j] \in Nat /\ i \in Nat /\ j \in Nat
      BY <1>5, <2>1, ValidTests
    <3> QED BY <1>5, <3>1 DEF Earlier, Smaller
  <2>3. S \cap Smaller(p, j) = {}
    BY <2>1 DEF Smaller, Earlier
  <2> DEFINE c == Cardinality(S) * p[j]
             m == Cardinality(Valid(p)) - Cardinality(Smaller(p, j))
  <2>4. c \in Nat /\ Bonferroni(S) = Capped(c)
    BY <1>5, <2>1, BonferroniOfFirst
  <2>5. c <= Scaled(p, j)
    <3>1. j \in Valid(p) /\ p[j] \in Nat
      BY <1>5, ValidTests
    <3>2. m \in Nat /\ Cardinality(S) \in Nat /\ Cardinality(S) <= m
      BY <1>5, <2>3, <3>1, TestsFrom
    <3>3. Scaled(p, j) = m * p[j]
      BY DEF Scaled
    <3> HIDE DEF m
    <3> QED BY <3>1, <3>2, <3>3, ProductGrows
  <2>6. Scaled(p, j) <= Scaled(p, first) /\ Scaled(p, j) \in Nat /\ Scaled(p, first) \in Nat
    BY <1>1, <1>2, <1>4, <2>2
  <2> HIDE DEF c, Bonferroni
  <2> QED BY <2>4, <2>5, <2>6, AnalysisAssumption
\* All the tests from the first on make up a set that reaches it.
<1>6. LET S == Valid(p) \ Smaller(p, first)
      IN  i \in S /\ Bonferroni(S) = Capped(Scaled(p, first))
  <2> DEFINE S == Valid(p) \ Smaller(p, first)
  <2>1. first \in Valid(p) /\ (first = i \/ Earlier(p, first, i))
        /\ i \in Nat /\ first \in Nat /\ p[i] \in Nat /\ p[first] \in Nat
    BY <1>1, ValidTests
  <2>2. ~Earlier(p, i, first)
    BY <2>1 DEF Earlier
  <2>3. i \in S /\ first \in S
    BY <2>1, <2>2 DEF Smaller, Earlier
  <2>4. \A t \in S : p[first] <= p[t]
    <3> TAKE t \in S
    <3>1. p[t] \in Nat /\ ~Earlier(p, t, first)
      BY ValidTests DEF Smaller, Earlier
    <3> QED BY <2>1, <3>1 DEF Earlier
  <2>5. Cardinality(S) * p[first] = Scaled(p, first)
    BY <2>1, TestsFrom DEF Scaled
  <2>6. Bonferroni(S) = Capped(Cardinality(S) * p[first])
    <3>1. S \subseteq Valid(p)
      OBVIOUS
    <3> HIDE DEF S
    <3> QED BY <2>3, <2>4, <3>1, BonferroniOfFirst
  <2> QED BY <2>3, <2>5, <2>6
<1>7. Max(V) = Capped(Scaled(p, first))
  <2> DEFINE top == Capped(Scaled(p, first))
  <2>1. \A v \in V : v \in Nat /\ v <= top
    BY <1>5
  <2>2. top \in V
    <3>1. Valid(p) \ Smaller(p, first) \in {T \in SUBSET Valid(p) : i \in T}
      BY <1>6
    <3> HIDE DEF Bonferroni
    <3> QED BY <1>6, <3>1
  <2> HIDE DEF V, top
  <2>3. \A v \in V : top >= v
    BY <2>1, <2>2
  <2>4. \A x \in V : (\A v \in V : x >= v) => x = top
    BY <2>1, <2>2
  <2>5. Max(V) = top
    BY <2>2, <2>3, <2>4 DEF Max
  <2> QED BY <2>5 DEF top
<1>8. Min({Whole, Scaled(p, first)}) = Capped(Scaled(p, first))
  BY <1>1, <1>2, MinOfTwo, AnalysisAssumption
<1> QED BY <1>4, <1>7, <1>8

\* The adjusted p values of the study are those of the closed test of the family, for
\* any number of tests, any p values and any of them undefined (holm).
THEOREM HolmIsTheClosedTest == OfflineSpec => []HolmControlsTheFamily
<1>1. ASSUME AnalysisInvariant
      PROVE  HolmControlsTheFamily
  <2> USE DEF AnalysisInvariant
  <2>1. ASSUME NEW i \in DOMAIN family, family[i] = Undefined
        PROVE  Holm(family)[i] = Undefined
    BY <2>1 DEF Holm, Valid
  <2>2. ASSUME NEW i \in DOMAIN family, family[i] # Undefined
        PROVE  LET Bonferroni(S) == Min({Whole} \cup {Cardinality(S) * family[k] : k \in S})
               IN  Holm(family)[i]
                     = Max({Bonferroni(S) : S \in {T \in SUBSET Valid(family) : i \in T}})
    <3>1. i \in Valid(family)
      BY <2>2 DEF Valid
    <3> QED BY <1>1, <3>1, HolmIsClosedTest DEF Holm
  <2> QED BY <2>1, <2>2 DEF HolmControlsTheFamily
<1> QED BY <1>1, AnalysisInvariantHolds, PTL

-----------------------------------------------------------------------------
(* The statistics: sums of differences.                                     *)

\* g holds the sums of d over the subsets of D.
Adds(g, D, d) == /\ g \in [SUBSET D -> Int] /\ g[{}] = 0
                 /\ SumsAnyhow(g, D, d)

\* The sum of the analysis does not depend on the order in which the differences are
\* taken.
LEMMA SumAdds ==
  ASSUME NEW D, IsFiniteSet(D), NEW d \in [D -> Int]
  PROVE  \E g : Adds(g, D, d) /\ Sum(d) = g[D]
<1> DEFINE pick == [s \in SUBSET D |-> CHOOSE x \in s : TRUE]
           adding == [x \in D |-> [v \in Int |-> d[x] + v]]
           Spec(f) == f = [s \in SUBSET D |->
             IF s = {} THEN 0 ELSE d[CHOOSE x \in s : TRUE] + f[s \ {CHOOSE x \in s : TRUE}]]
           f == CHOOSE f : Spec(f)
<1>1. Sum(d) = f[D]
  BY DEF Sum, FoldFunction, FoldFunctionOnSet, MapThenFoldSet
<1>2. \A s \in SUBSET D : s # {} => (CHOOSE x \in s : TRUE) \in s
  OBVIOUS
<1>3. Orders(pick, D)
  BY <1>2 DEF Orders
<1>4. \A s \in SUBSET D : s # {} =>
        /\ pick[s] = (CHOOSE x \in s : TRUE) /\ pick[s] \in s /\ pick[s] \in D
        /\ s \ {pick[s]} \in SUBSET D
  BY <1>2
<1>5. adding \in [D -> [Int -> Int]] /\ \A x \in D : \A v \in Int : adding[x][v] = d[x] + v
  OBVIOUS
<1>6. PICK g \in [SUBSET D -> Int] : Folds(g, D, 0, adding, pick)
  <2>1. 0 \in Int /\ adding \in [D -> [Int -> Int]]
    BY <1>5
  <2> HIDE DEF pick, adding
  <2> QED BY <1>3, <2>1, FoldExists
<1>7. \A s \in SUBSET D : g[s] = IF s = {} THEN 0 ELSE d[pick[s]] + g[s \ {pick[s]}]
  <2> HIDE DEF pick, adding
  <2> QED BY <1>4, <1>5, <1>6 DEF Folds
<1>8. Spec(g)
  <2>1. \A s \in SUBSET D :
          g[s] = IF s = {} THEN 0 ELSE d[CHOOSE x \in s : TRUE] + g[s \ {CHOOSE x \in s : TRUE}]
    BY <1>4, <1>7
  <2>2. g = [s \in SUBSET D |-> g[s]]
    BY <1>6
  <2> QED BY <2>1, <2>2
<1>9. Spec(f)
  <2> HIDE DEF Spec
  <2> QED BY <1>8
<1>10. \A s \in SUBSET D : s # {} => f[s] = d[pick[s]] + f[s \ {pick[s]}]
  <2>1. \A s \in SUBSET D :
          f[s] = IF s = {} THEN 0 ELSE d[CHOOSE x \in s : TRUE] + f[s \ {CHOOSE x \in s : TRUE}]
    BY <1>9, Zenon
  <2> QED BY <1>4, <2>1
<1>11. f[{}] = 0 /\ f = [s \in SUBSET D |-> f[s]]
  BY <1>9
<1> HIDE DEF f, pick, adding
<1>12. \A s \in SUBSET D : f[s] \in Int
  <2> DEFINE T == {s \in SUBSET D : f[s] \in Int}
  <2>1. {} \in T
    BY <1>11
  <2>2. \A s \in SUBSET D : s # {} /\ s \ {pick[s]} \in T => s \in T
    <3> SUFFICES ASSUME NEW s \in SUBSET D, s # {}, f[s \ {pick[s]}] \in Int
                 PROVE  f[s] \in Int
      OBVIOUS
    <3>1. f[s] = d[pick[s]] + f[s \ {pick[s]}] /\ d[pick[s]] \in Int
      BY <1>4, <1>10
    <3> QED BY <3>1
  <2> HIDE DEF T
  <2>3. \A s \in SUBSET D : s \in T
    BY <1>3, <2>1, <2>2, EverySubset
  <2> QED BY <2>3 DEF T
<1>13. f \in [SUBSET D -> Int]
  BY <1>11, <1>12
<1>14. SumsAnyhow(f, D, d)
  <2>1. Sums(f, D, d, pick)
    BY <1>10 DEF Sums
  <2> QED BY <1>3, <1>13, <2>1, AnyOrder
<1> QED BY <1>1, <1>11, <1>13, <1>14 DEF Adds

\* A sum is an integer.
LEMMA SumIsInt ==
  ASSUME NEW D, IsFiniteSet(D), NEW d \in [D -> Int]
  PROVE  Sum(d) \in Int
<1>1. PICK g : Adds(g, D, d) /\ Sum(d) = g[D]
  BY SumAdds
<1> QED BY <1>1 DEF Adds

\* Turning all the numbers turns the sum.
LEMMA SumTurns ==
  ASSUME NEW D, IsFiniteSet(D), NEW d \in [D -> Int], NEW e \in [D -> Int],
         \A x \in D : e[x] = -d[x]
  PROVE  Sum(e) = -Sum(d)
<1>1. PICK g : Adds(g, D, d) /\ Sum(d) = g[D]
  BY SumAdds
<1>2. PICK h : Adds(h, D, e) /\ Sum(e) = h[D]
  BY SumAdds
<1> DEFINE T    == {s \in SUBSET D : h[s] = -g[s]}
           pick == [s \in SUBSET D |-> CHOOSE x \in s : TRUE]
<1>3. Orders(pick, D) /\ \A s \in SUBSET D : s # {} => pick[s] \in s
  <2>1. \A s \in SUBSET D : s # {} => (CHOOSE x \in s : TRUE) \in s
    OBVIOUS
  <2> QED BY <2>1 DEF Orders
<1> HIDE DEF pick
<1>4. {} \in T
  BY <1>1, <1>2 DEF Adds
<1>5. ASSUME NEW s \in SUBSET D, s # {}, s \ {pick[s]} \in T PROVE s \in T
  <2>1. PICK x \in s : x = pick[s]
    BY <1>3, <1>5
  <2>2. g[s] = d[x] + g[s \ {x}] /\ h[s] = e[x] + h[s \ {x}]
    BY <1>1, <1>2 DEF Adds, SumsAnyhow
  <2>3. d[x] \in Int /\ g[s \ {x}] \in Int /\ h[s \ {x}] = -g[s \ {x}] /\ e[x] = -d[x]
    BY <1>1, <1>5, <2>1 DEF Adds
  <2> QED BY <2>2, <2>3
<1> HIDE DEF T
<1>6. \A s \in SUBSET D : s \in T
  BY <1>3, <1>4, <1>5, EverySubset
<1> QED BY <1>1, <1>2, <1>6 DEF T

\* Of two sums the one with the smaller numbers is smaller, unless all are the same.
LEMMA SumGrows ==
  ASSUME NEW D, IsFiniteSet(D), NEW d \in [D -> Int], NEW e \in [D -> Int],
         \A x \in D : d[x] <= e[x]
  PROVE  Sum(d) <= Sum(e) /\ (Sum(d) = Sum(e) <=> \A x \in D : d[x] = e[x])
<1>1. PICK g : Adds(g, D, d) /\ Sum(d) = g[D]
  BY SumAdds
<1>2. PICK h : Adds(h, D, e) /\ Sum(e) = h[D]
  BY SumAdds
<1> DEFINE T    == {s \in SUBSET D : g[s] <= h[s] /\ (g[s] = h[s] <=> \A x \in s : d[x] = e[x])}
           pick == [s \in SUBSET D |-> CHOOSE x \in s : TRUE]
<1>3. Orders(pick, D) /\ \A s \in SUBSET D : s # {} => pick[s] \in s
  <2>1. \A s \in SUBSET D : s # {} => (CHOOSE x \in s : TRUE) \in s
    OBVIOUS
  <2> QED BY <2>1 DEF Orders
<1> HIDE DEF pick
<1>4. {} \in T
  BY <1>1, <1>2 DEF Adds
<1>5. ASSUME NEW s \in SUBSET D, s # {}, s \ {pick[s]} \in T PROVE s \in T
  <2>1. PICK x \in s : x = pick[s]
    BY <1>3, <1>5
  <2>2. g[s] = d[x] + g[s \ {x}] /\ h[s] = e[x] + h[s \ {x}]
    BY <1>1, <1>2 DEF Adds, SumsAnyhow
  <2>3. /\ d[x] \in Int /\ e[x] \in Int /\ d[x] <= e[x]
        /\ g[s \ {x}] \in Int /\ h[s \ {x}] \in Int
    BY <1>1, <1>2 DEF Adds
  <2>4. /\ g[s \ {x}] <= h[s \ {x}]
        /\ g[s \ {x}] = h[s \ {x}] <=> \A y \in s \ {x} : d[y] = e[y]
    BY <1>5, <2>1
  <2>5. (\A y \in s : d[y] = e[y]) <=> d[x] = e[x] /\ \A y \in s \ {x} : d[y] = e[y]
    OBVIOUS
  <2>6. g[s] <= h[s] /\ (g[s] = h[s] <=> d[x] = e[x] /\ g[s \ {x}] = h[s \ {x}])
    BY <2>2, <2>3, <2>4
  <2> QED BY <2>4, <2>5, <2>6
<1> HIDE DEF T
<1>6. \A s \in SUBSET D : s \in T
  BY <1>3, <1>4, <1>5, EverySubset
<1> QED BY <1>1, <1>2, <1>6 DEF T

-----------------------------------------------------------------------------
(* The exact paired test.                                                   *)

\* What a sequence of differences is.
LEMMA DifferenceSequences ==
  ASSUME NEW n \in Nat, NEW d \in [1..n -> Int]
  PROVE  d \in Seq(Int) /\ Len(d) = n /\ DOMAIN d = 1..n /\ IsFiniteSet(1..n)
<1>1. d \in Seq(Int)
  BY SeqDef
<1>2. Len(d) = n
  BY <1>1, LenProperties
<1>3. 1 \in Int /\ n \in Int
  OBVIOUS
<1> QED BY <1>1, <1>2, <1>3, FS_Interval

\* The two signs: products and sizes.
LEMMA Signs ==
  /\ \A a, b \in {-1, 1} : a * b \in {-1, 1} /\ a * (a * b) = b /\ a \in Int
  /\ \A a, b \in {-1, 1} : \A x \in Int : b * (a * x) = (a * b) * x /\ a * x \in Int
  /\ \A x \in Int : 1 * x = x /\ (-1) * x = -x /\ Size(x) \in Nat /\ Size(-x) = Size(x)
BY DEF Size

\* There are 2^n sign vectors.
LEMMA VectorsCount ==
  ASSUME NEW n \in Nat
  PROVE  IsFiniteSet(SignVectors(n)) /\ Cardinality(SignVectors(n)) = 2^n
<1> DEFINE S == SUBSET (1..n)
           T == SignVectors(n)
           f == [s \in S |-> [i \in 1..n |-> IF i \in s THEN 1 ELSE -1]]
<1>1. f \in [S -> T] /\ \A s \in S : f[s] = [i \in 1..n |-> IF i \in s THEN 1 ELSE -1]
  BY DEF SignVectors
<1>2. \A s, t \in S : f[s] = f[t] => s = t
  <2>1. ASSUME NEW s \in S PROVE s = {i \in 1..n : f[s][i] = 1}
    <3>1. \A i \in 1..n : f[s][i] = IF i \in s THEN 1 ELSE -1
      BY <1>1
    <3>2. \A i \in 1..n : i \in s <=> f[s][i] = 1
      BY <3>1
    <3> HIDE DEF f
    <3> QED BY <3>2
  <2> HIDE DEF S, f
  <2> QED BY <2>1
<1>3. ASSUME NEW t \in T PROVE \E s \in S : f[s] = t
  <2>1. PICK s \in S : s = {i \in 1..n : t[i] = 1}
    OBVIOUS
  <2>2. \A i \in 1..n : t[i] = IF i \in s THEN 1 ELSE -1
    BY <2>1 DEF SignVectors
  <2>3. t = [i \in 1..n |-> t[i]]
    BY DEF SignVectors
  <2>4. t = [i \in 1..n |-> IF i \in s THEN 1 ELSE -1]
    BY <2>2, <2>3
  <2> QED BY <1>1, <2>4
<1>4. IsFiniteSet(S) /\ Cardinality(S) = 2^n
  <2>1. 1 \in Int /\ n \in Int /\ (IF 1 > n THEN 0 ELSE n - 1 + 1) = n
    OBVIOUS
  <2>2. IsFiniteSet(1..n) /\ Cardinality(1..n) = n
    BY <2>1, FS_Interval
  <2> QED BY <2>2, FS_SUBSET
<1> HIDE DEF S, T, f
<1>5. IsFiniteSet(T) /\ Cardinality(T) = Cardinality(S)
  BY <1>1, <1>2, <1>3, <1>4, ListedOnce
<1> QED BY <1>4, <1>5 DEF T

\* The sign vectors of the masks of n bits.
Masks(n) == 0..(2^n - 1)
VectorOf(n) ==
  [mask \in Masks(n) |-> [i \in 1..n |-> IF (mask \div 2^(i - 1)) % 2 = 1 THEN 1 ELSE -1]]

\* The masks of n bits are the sign vectors, each once.
LEMMA MasksAreVectors ==
  ASSUME NEW n \in Nat
  PROVE  /\ IsFiniteSet(Masks(n)) /\ VectorOf(n) \in [Masks(n) -> SignVectors(n)]
         /\ \A x, y \in Masks(n) : VectorOf(n)[x] = VectorOf(n)[y] => x = y
         /\ \A s \in SignVectors(n) : \E x \in Masks(n) : VectorOf(n)[x] = s
<1> DEFINE S == 0..(2^n - 1)
           T == SignVectors(n)
<1>0. PICK f : /\ f = VectorOf(n) /\ S = Masks(n)
               /\ f = [mask \in S |->
                        [i \in 1..n |-> IF (mask \div 2^(i - 1)) % 2 = 1 THEN 1 ELSE -1]]
  BY DEF VectorOf, Masks
<1>1. f \in [S -> T]
  BY <1>0 DEF SignVectors
<1>2. ASSUME NEW x \in S, NEW y \in S, f[x] = f[y] PROVE x = y
  <2>0. x \in Nat /\ y \in Nat
    BY PowersOfTwo
  <2>1. ASSUME NEW i \in 1..n PROVE Digit(x, i) = Digit(y, i)
    <3>1. f[x][i] = f[y][i]
      BY <1>2
    <3>2. /\ f[x][i] = IF Digit(x, i) = 1 THEN 1 ELSE -1
          /\ f[y][i] = IF Digit(y, i) = 1 THEN 1 ELSE -1
      BY <1>0 DEF Digit
    <3>3. Digit(x, i) \in {0, 1} /\ Digit(y, i) \in {0, 1}
      <4>1. PICK c \in Nat \ {0} : c = 2^(i - 1)
        <5>1. i - 1 \in Nat
          OBVIOUS
        <5> QED BY <5>1, PowersOfTwo
      <4>2. x \div c \in Nat /\ y \div c \in Nat
        BY <2>0, Quotient
      <4>3. \A z \in Nat : z % 2 \in {0, 1}
        OBVIOUS
      <4>4. Digit(x, i) = (x \div c) % 2 /\ Digit(y, i) = (y \div c) % 2
        BY <4>1 DEF Digit
      <4> QED BY <4>2, <4>3, <4>4
    <3>4. Digit(x, i) = 1 <=> Digit(y, i) = 1
      <4> PICK p, q : p = Digit(x, i) /\ q = Digit(y, i)
        OBVIOUS
      <4>1. (IF p = 1 THEN 1 ELSE -1) = (IF q = 1 THEN 1 ELSE -1)
        BY <3>1, <3>2
      <4>2. p = 1 <=> q = 1
        BY ONLY <4>1
      <4> QED BY <4>2
    <3> QED BY ONLY <3>3, <3>4
  <2>2. /\ x \in 0..(2^n - 1) /\ y \in 0..(2^n - 1)
        /\ \A i \in 1..n : Digit(x, i) = Digit(y, i)
    BY <2>1
  <2> QED BY ONLY n \in Nat, <2>2, DigitsIdentify
<1>3. /\ IsFiniteSet(S) /\ IsFiniteSet(T) /\ Cardinality(S) = Cardinality(T)
  <2>1. PICK c \in Nat \ {0} : c = 2^n
    BY PowersOfTwo
  <2>2. 0 \in Int /\ c - 1 \in Int /\ (IF 0 > c - 1 THEN 0 ELSE (c - 1) - 0 + 1) = c
    OBVIOUS
  <2>3. IsFiniteSet(0..(c - 1)) /\ Cardinality(0..(c - 1)) = c
    BY <2>2, FS_Interval
  <2> QED BY <2>1, <2>3, VectorsCount
<1>4. f \in Injection(S, T)
  BY <1>1, <1>2 DEF Injection, IsInjective
<1>5. f \in Surjection(S, T)
  <2> HIDE DEF S, T
  <2> QED BY <1>3, <1>4, FS_Injection
<1>6. \A s \in T : \E x \in S : f[x] = s
  BY <1>5 DEF Surjection
<1> HIDE DEF S
<1> QED BY <1>0, <1>1, <1>2, <1>3, <1>6
\* Ranks are positive and do not depend on the signs.
LEMMA RanksTurn ==
  ASSUME NEW D, IsFiniteSet(D), NEW d \in [D -> Int], NEW e \in [D -> Int],
         \A x \in D : e[x] = -d[x], NEW i \in D
  PROVE  /\ TwiceRank(d, i) \in Nat \ {0} /\ TwiceRank(e, i) = TwiceRank(d, i)
         /\ Signum(d[i]) \in {-1, 0, 1} /\ Signum(e[i]) = -Signum(d[i])
<1> DEFINE A == {j \in D : Size(d[j]) < Size(d[i])}
           B == {j \in D : Size(d[j]) <= Size(d[i])}
<1>1. DOMAIN d = D /\ DOMAIN e = D
  OBVIOUS
<1>2. \A x \in D : Size(e[x]) = Size(d[x])
  BY Signs
<1>3. /\ {j \in D : Size(e[j]) < Size(e[i])} = A
      /\ {j \in D : Size(e[j]) <= Size(e[i])} = B
  BY <1>2
<1>4. Cardinality(A) \in Nat /\ Cardinality(B) \in Nat
  <2>1. A \in SUBSET D /\ B \in SUBSET D
    OBVIOUS
  <2> HIDE DEF A, B
  <2> QED BY <2>1, SmallerWithout
<1>5. TwiceRank(d, i) = Cardinality(A) + Cardinality(B) + 1
  BY <1>1 DEF TwiceRank
<1>6. TwiceRank(e, i) = Cardinality(A) + Cardinality(B) + 1
  <2> HIDE DEF A, B
  <2> QED BY <1>1, <1>3 DEF TwiceRank
<1>7. Signum(d[i]) \in {-1, 0, 1} /\ Signum(e[i]) = -Signum(d[i])
  BY DEF Signum
<1> HIDE DEF A, B
<1> QED BY <1>4, <1>5, <1>6, <1>7

\* Differences and their opposites.
Turned(d, e, D) ==
  /\ d \in [D -> Int] /\ e \in [D -> Int]
  /\ \A x \in D : e[x] = -d[x]

\* A statistic is a number; it turns with the differences.
LEMMA StatisticTurns ==
  ASSUME NEW D, IsFiniteSet(D), NEW d, NEW e, Turned(d, e, D), NEW name
  PROVE  /\ SignedRanks(d) \in [D -> Int] /\ Sum(SignedRanks(e)) = -Sum(SignedRanks(d))
         /\ Statistic(name, d) \in Int /\ Statistic(name, e) = -Statistic(name, d)
<1>0. d \in [D -> Int] /\ e \in [D -> Int] /\ \A x \in D : e[x] = -d[x]
  BY DEF Turned
<1>1. /\ SignedRanks(d) = [i \in D |-> TwiceRank(d, i) * Signum(d[i])]
      /\ SignedRanks(e) = [i \in D |-> TwiceRank(e, i) * Signum(e[i])]
  BY <1>0 DEF SignedRanks
<1>2. ASSUME NEW i \in D
      PROVE  /\ SignedRanks(d)[i] \in Int /\ SignedRanks(e)[i] \in Int
             /\ SignedRanks(e)[i] = -SignedRanks(d)[i]
  <2>1. PICK r \in Nat, g \in {-1, 0, 1} :
          /\ TwiceRank(d, i) = r /\ TwiceRank(e, i) = r
          /\ Signum(d[i]) = g /\ Signum(e[i]) = -g
    BY <1>0, RanksTurn
  <2>2. r * g \in Int /\ r * (-g) = -(r * g)
    OBVIOUS
  <2> QED BY <1>1, <2>1, <2>2
<1>3. SignedRanks(d) \in [D -> Int] /\ SignedRanks(e) \in [D -> Int]
  BY <1>1, <1>2
<1>4. /\ Sum(d) \in Int /\ Sum(e) = -Sum(d)
      /\ Sum(SignedRanks(d)) \in Int /\ Sum(SignedRanks(e)) = -Sum(SignedRanks(d))
  BY <1>0, <1>2, <1>3, SumIsInt, SumTurns
<1> QED BY <1>3, <1>4 DEF Statistic

\* A statistic is a number.
LEMMA StatisticIsInt ==
  ASSUME NEW D, IsFiniteSet(D), NEW d \in [D -> Int], NEW name
  PROVE  Statistic(name, d) \in Int /\ SignedRanks(d) \in [D -> Int]
<1> DEFINE e == [x \in D |-> -d[x]]
<1>1. Turned(d, e, D)
  BY DEF Turned
<1> HIDE DEF e
<1> QED BY <1>1, StatisticTurns

\* Flipping signs.
LEMMA Flipping ==
  ASSUME NEW n \in Nat, NEW d \in [1..n -> Int], NEW s \in SignVectors(n)
  PROVE  /\ Flip(d, s) \in [1..n -> Int] /\ \A i \in 1..n : Flip(d, s)[i] = s[i] * d[i]
         /\ \A i \in 1..n : s[i] \in {-1, 1}
         /\ s = [i \in 1..n |-> s[i]]
<1>1. \A i \in 1..n : s[i] \in {-1, 1}
  BY DEF SignVectors
<1>2. \A i \in 1..n : s[i] * d[i] \in Int
  BY <1>1, Signs
<1>3. Flip(d, s) = [i \in 1..n |-> s[i] * d[i]]
  BY DEF Flip
<1>4. s = [i \in 1..n |-> s[i]]
  BY DEF SignVectors
<1> QED BY <1>1, <1>2, <1>3, <1>4

\* The product of two sign vectors flips as one after the other, and multiplying twice
\* leads back.
LEMMA FlippingTwice ==
  ASSUME NEW n \in Nat, NEW s \in SignVectors(n), NEW u \in SignVectors(n),
         NEW w, w = [i \in 1..n |-> s[i] * u[i]]
  PROVE  /\ w \in SignVectors(n)
         /\ u = [i \in 1..n |-> s[i] * w[i]]
         /\ \A d \in [1..n -> Int] : Flip(Flip(d, s), u) = Flip(d, w)
<1>1. ASSUME NEW i \in 1..n
      PROVE  /\ s[i] \in {-1, 1} /\ u[i] \in {-1, 1} /\ w[i] = s[i] * u[i]
             /\ w[i] \in {-1, 1} /\ s[i] * w[i] = u[i]
  <2>1. PICK a \in {-1, 1}, b \in {-1, 1} : a = s[i] /\ b = u[i]
    BY DEF SignVectors
  <2>2. a * b \in {-1, 1} /\ a * (a * b) = b
    BY Signs
  <2> QED BY <2>1, <2>2
<1>2. w \in SignVectors(n)
  BY <1>1 DEF SignVectors
<1>3. u = [i \in 1..n |-> s[i] * w[i]]
  <2>1. u = [i \in 1..n |-> u[i]]
    BY DEF SignVectors
  <2> QED BY <1>1, <2>1
<1>4. ASSUME NEW d \in [1..n -> Int] PROVE Flip(Flip(d, s), u) = Flip(d, w)
  <2>1. /\ Flip(d, s) \in [1..n -> Int] /\ \A i \in 1..n : Flip(d, s)[i] = s[i] * d[i]
        /\ Flip(d, w) \in [1..n -> Int] /\ \A i \in 1..n : Flip(d, w)[i] = w[i] * d[i]
    BY <1>2, Flipping
  <2>2. /\ Flip(Flip(d, s), u) \in [1..n -> Int]
        /\ \A i \in 1..n : Flip(Flip(d, s), u)[i] = u[i] * Flip(d, s)[i]
    BY <2>1, Flipping
  <2>3. ASSUME NEW i \in 1..n PROVE Flip(Flip(d, s), u)[i] = Flip(d, w)[i]
    <3>1. PICK a \in {-1, 1}, b \in {-1, 1}, x \in Int : a = s[i] /\ b = u[i] /\ x = d[i]
      BY <1>1
    <3>2. b * (a * x) = (a * b) * x
      BY Signs
    <3>3. Flip(Flip(d, s), u)[i] = b * (a * x)
      BY <2>1, <2>2, <3>1
    <3>4. Flip(d, w)[i] = (a * b) * x
      BY <1>1, <2>1, <3>1
    <3> QED BY <3>2, <3>3, <3>4
  <2> QED BY <2>1, <2>2, <2>3
<1> QED BY <1>2, <1>3, <1>4

\* What is compared: the size of a statistic.
Deviation(name, d) == Size(Statistic(name, d))

\* A size is a natural number.
LEMMA DeviationIsNat ==
  ASSUME NEW n \in Nat, NEW d \in [1..n -> Int], NEW name
  PROVE  Deviation(name, d) \in Nat
<1>1. IsFiniteSet(1..n)
  BY DifferenceSequences
<1>2. Statistic(name, d) \in Int
  BY <1>1, StatisticIsInt
<1> QED BY <1>2, Signs DEF Deviation

\* The p value of flipped differences counts the sign vectors that are as extreme as
\* the flip itself.
LEMMA ExtremeOfFlip ==
  ASSUME NEW n \in Nat, NEW d \in [1..n -> Int], NEW name, NEW s \in SignVectors(n)
  PROVE  Extreme(name, Flip(d, s))
           = Cardinality({w \in SignVectors(n) :
                            Deviation(name, Flip(d, w)) >= Deviation(name, Flip(d, s))})
<1> DEFINE V == SignVectors(n)
           e == Flip(d, s)
           A == {u \in V : Deviation(name, Flip(e, u)) >= Deviation(name, e)}
           B == {w \in V : Deviation(name, Flip(d, w)) >= Deviation(name, e)}
           f == [u \in A |-> [i \in 1..n |-> s[i] * u[i]]]
<1>1. e \in [1..n -> Int] /\ Len(e) = n
  BY Flipping, DifferenceSequences
<1>2. Extreme(name, e) = Cardinality(A)
  BY <1>1 DEF Extreme, Deviation
<1>3. IsFiniteSet(A)
  <2>1. A \in SUBSET V /\ IsFiniteSet(V)
    BY VectorsCount
  <2> QED BY <2>1, FS_Subset
<1>4. ASSUME NEW u \in V, NEW w, w = [i \in 1..n |-> s[i] * u[i]]
      PROVE  /\ w \in V /\ u = [i \in 1..n |-> s[i] * w[i]] /\ Flip(e, u) = Flip(d, w)
             /\ u \in A <=> w \in B
  <2>1. w \in V /\ u = [i \in 1..n |-> s[i] * w[i]] /\ Flip(e, u) = Flip(d, w)
    BY <1>4, FlippingTwice
  <2> HIDE DEF V, e
  <2> QED BY <2>1
<1> HIDE DEF A, B, e, V
<1>5. f \in [A -> B]
  <2>1. \A u \in A : u \in V
    BY DEF A
  <2> QED BY <1>4, <2>1
<1>6. \A u, v \in A : f[u] = f[v] => u = v
  <2>1. ASSUME NEW u \in A PROVE u = [i \in 1..n |-> s[i] * f[u][i]]
    <3>1. u \in V /\ f[u] = [i \in 1..n |-> s[i] * u[i]]
      BY DEF A
    <3> HIDE DEF f
    <3> QED BY <1>4, <3>1
  <2> HIDE DEF f
  <2> QED BY <2>1
<1>7. ASSUME NEW w \in B PROVE \E u \in A : f[u] = w
  <2>1. PICK u : u = [i \in 1..n |-> s[i] * w[i]]
    OBVIOUS
  <2>2. w \in V
    BY DEF B
  <2>3. u \in V /\ w = [i \in 1..n |-> s[i] * u[i]]
    BY <1>4, <2>1, <2>2
  <2>4. u \in A
    BY <1>4, <2>3
  <2> QED BY <2>3, <2>4
<1> HIDE DEF f
<1>8. Cardinality(B) = Cardinality(A)
  BY <1>3, <1>5, <1>6, <1>7, ListedOnce
<1> QED BY <1>2, <1>8 DEF B, V, e

\* Of finitely many outcomes at most k have k or fewer that are as extreme.
LEMMA FewAreExtreme ==
  ASSUME NEW S, IsFiniteSet(S), NEW size \in [S -> Nat], NEW k \in Nat
  PROVE  Cardinality({s \in S : Cardinality({w \in S : size[w] >= size[s]}) <= k}) <= k
<1> DEFINE Above(s) == {w \in S : size[w] >= size[s]}
           B == {s \in S : Cardinality(Above(s)) <= k}
<1>1. B \in SUBSET S
  OBVIOUS
<1> SUFFICES Cardinality(B) <= k
  OBVIOUS
<1>2. CASE B = {}
  <2> HIDE DEF B
  <2>1. Cardinality(B) = 0
    BY <1>2, FS_EmptySet
  <2> QED BY <2>1
<1>3. CASE B # {}
  <2> DEFINE N == {size[s] : s \in B}
  <2>1. N \subseteq Nat /\ N # {}
    BY <1>3
  <2> HIDE DEF B
  <2>2. PICK m \in N : \A x \in N : m <= x
    <3> HIDE DEF N
    <3> QED BY <2>1, LeastNat
  <2>3. PICK t \in B : m = size[t]
    OBVIOUS
  <2>4. \A s \in B : size[t] <= size[s]
    BY <2>2, <2>3
  <2>5. t \in S /\ Cardinality(Above(t)) <= k
    BY <2>3 DEF B
  <2>6. B \subseteq Above(t)
    <3> SUFFICES ASSUME NEW s \in B PROVE s \in Above(t)
      OBVIOUS
    <3>1. s \in S /\ size[s] \in Nat /\ size[t] \in Nat /\ size[t] <= size[s]
      BY <1>1, <2>4, <2>5
    <3> QED BY <3>1
  <2>7. Above(t) \in SUBSET S
    OBVIOUS
  <2> HIDE DEF Above
  <2>8. /\ IsFiniteSet(Above(t)) /\ Cardinality(Above(t)) \in Nat
        /\ Cardinality(B) <= Cardinality(Above(t)) /\ Cardinality(B) \in Nat
    <3>1. IsFiniteSet(Above(t)) /\ Cardinality(Above(t)) \in Nat
      BY <2>7, SmallerWithout
    <3>2. B \in SUBSET Above(t)
      BY <2>6
    <3> QED BY <3>1, <3>2, SmallerWithout
  <2> QED BY <2>5, <2>8
<1> QED BY <1>2, <1>3

\* The test is exact.
LEMMA FewVectorsAreExtreme ==
  ASSUME NEW n \in Nat, NEW d \in [1..n -> Int], NEW name, NEW k \in Nat,
         NEW p, p = {<<s, Extreme(name, Flip(d, s))>> : s \in SignVectors(n)}
  PROVE  Cardinality({v \in p : v[2] <= k}) <= k
<1> DEFINE V == SignVectors(n)
           size == [s \in V |-> Deviation(name, Flip(d, s))]
           C == {s \in V : Cardinality({w \in V : size[w] >= size[s]}) <= k}
           Q == {v \in p : v[2] <= k}
           g == [s \in C |-> <<s, Extreme(name, Flip(d, s))>>]
<1>1. IsFiniteSet(V)
  BY VectorsCount
<1>2. size \in [V -> Nat] /\ \A s \in V : size[s] = Deviation(name, Flip(d, s))
  <2>1. ASSUME NEW s \in V PROVE Deviation(name, Flip(d, s)) \in Nat
    <3>1. Flip(d, s) \in [1..n -> Int]
      BY Flipping
    <3> QED BY <3>1, DeviationIsNat
  <2> QED BY <2>1
<1>3. \A s \in V : Extreme(name, Flip(d, s)) = Cardinality({w \in V : size[w] >= size[s]})
  <2> TAKE s \in V
  <2>1. {w \in V : size[w] >= size[s]}
          = {w \in V : Deviation(name, Flip(d, w)) >= Deviation(name, Flip(d, s))}
    BY <1>2
  <2> HIDE DEF size
  <2> QED BY <2>1, ExtremeOfFlip
<1>4. Cardinality(C) <= k
  <2>1. size \in [V -> Nat]
    BY <1>2
  <2> HIDE DEF V, size
  <2> QED BY ONLY <1>1, <2>1, k \in Nat, FewAreExtreme
<1>5. C \in SUBSET V /\ \A s \in V : s \in C <=> Extreme(name, Flip(d, s)) <= k
  <2> HIDE DEF size
  <2> QED BY <1>3
<1>6. IsFiniteSet(C)
  <2> HIDE DEF C, V
  <2> QED BY <1>1, <1>5, FS_Subset
<1>7. p = {<<s, Extreme(name, Flip(d, s))>> : s \in V}
  OBVIOUS
<1> HIDE DEF C, V, size
<1>8. /\ g \in [C -> Q] /\ \A s \in C : g[s] = <<s, Extreme(name, Flip(d, s))>>
      /\ \A x, y \in C : g[x] = g[y] => x = y
  <2>1. \A s \in C : g[s] = <<s, Extreme(name, Flip(d, s))>> /\ g[s] \in Q
    BY <1>5, <1>7
  <2>2. \A x, y \in C : g[x] = g[y] => x = y
    BY <2>1
  <2> QED BY <2>1, <2>2
<1>9. ASSUME NEW v \in Q PROVE \E s \in C : g[s] = v
  <2>1. PICK s \in V : v = <<s, Extreme(name, Flip(d, s))>>
    BY <1>7
  <2>2. v[2] <= k /\ v[2] = Extreme(name, Flip(d, s))
    BY <2>1
  <2> QED BY <1>5, <1>8, <2>1, <2>2
<1> HIDE DEF Q, g
<1>10. Cardinality(Q) = Cardinality(C)
  BY <1>6, <1>8, <1>9, ListedOnce
<1> QED BY <1>4, <1>10 DEF Q

\* The data and their opposite are always as extreme as the data.
LEMMA NeverBelowTwo ==
  ASSUME NEW n \in Nat \ {0}, NEW d \in [1..n -> Int]
  PROVE  Extreme("mean", d) >= 2
<1> DEFINE V == SignVectors(n)
           A == {s \in V : Size(Statistic("mean", Flip(d, s))) >= Size(Statistic("mean", d))}
           plus  == [i \in 1..n |-> 1]
           minus == [i \in 1..n |-> -1]
<1>1. plus \in V /\ minus \in V
  BY DEF SignVectors
<1>2. plus # minus
  <2>1. 1 \in 1..n
    OBVIOUS
  <2>2. plus[1] = 1 /\ minus[1] = -1
    BY <2>1
  <2>3. plus[1] # minus[1]
    BY <2>2
  <2> HIDE DEF plus, minus
  <2> QED BY <2>3, Zenon
<1>3. IsFiniteSet(1..n) /\ Len(d) = n
  BY DifferenceSequences
<1>4. Flip(d, plus) = d
  <2>1. \A i \in 1..n : plus[i] = 1
    OBVIOUS
  <2> HIDE DEF plus
  <2>2. /\ Flip(d, plus) \in [1..n -> Int]
        /\ \A i \in 1..n : Flip(d, plus)[i] = plus[i] * d[i]
    BY <1>1, Flipping
  <2>3. \A i \in 1..n : Flip(d, plus)[i] = d[i]
    <3> TAKE i \in 1..n
    <3>1. Flip(d, plus)[i] = 1 * d[i]
      BY <2>1, <2>2
    <3>2. 1 * d[i] = d[i]
      BY Signs
    <3> QED BY <3>1, <3>2
  <2> QED BY <2>2, <2>3
<1>5. Statistic("mean", Flip(d, minus)) = -Statistic("mean", d)
  <2>1. \A i \in 1..n : minus[i] = -1
    OBVIOUS
  <2> HIDE DEF minus
  <2>2. /\ Flip(d, minus) \in [1..n -> Int]
        /\ \A i \in 1..n : Flip(d, minus)[i] = minus[i] * d[i]
    BY <1>1, Flipping
  <2>3. \A i \in 1..n : Flip(d, minus)[i] = -d[i]
    BY <2>1, <2>2, Signs
  <2>4. Turned(d, Flip(d, minus), 1..n)
    BY <2>2, <2>3 DEF Turned
  <2> QED BY <1>3, <2>4, StatisticTurns
<1>6. plus \in A /\ minus \in A
  <2>1. Statistic("mean", d) \in Int
    BY <1>3, StatisticIsInt
  <2>2. /\ Size(Statistic("mean", d)) \in Nat
        /\ Size(-Statistic("mean", d)) = Size(Statistic("mean", d))
    BY <2>1, Signs
  <2> HIDE DEF plus, minus, V
  <2> QED BY <1>1, <1>4, <1>5, <2>2
<1>7. A \in SUBSET V /\ IsFiniteSet(V)
  BY VectorsCount
<1>8. Extreme("mean", d) = Cardinality(A)
  BY <1>3 DEF Extreme
<1> HIDE DEF A, plus, minus, V
<1>9. IsFiniteSet({plus, minus}) /\ Cardinality({plus, minus}) = 2
  <2>1. IsFiniteSet({plus}) /\ Cardinality({plus}) = 1 /\ minus \notin {plus}
    BY <1>2, FS_Singleton
  <2>2. {plus} \cup {minus} = {plus, minus}
    OBVIOUS
  <2>3. /\ IsFiniteSet({plus} \cup {minus})
        /\ Cardinality({plus} \cup {minus}) = IF minus \in {plus} THEN 1 ELSE 1 + 1
    BY <2>1, FS_AddElement
  <2>4. Cardinality({plus} \cup {minus}) = 2
    <3>1. minus \notin {plus}
      BY <2>1
    <3> QED BY ONLY <2>3, <3>1
  <2> QED BY <2>2, <2>3, <2>4
<1>10. IsFiniteSet(A) /\ Cardinality(A) \in Nat
  BY <1>7, SmallerWithout
<1>11. 2 <= Cardinality(A)
  <2>1. {plus, minus} \in SUBSET A
    BY <1>6
  <2> QED BY <1>9, <1>10, <2>1, FS_Subset
<1> QED BY <1>8, <1>10, <1>11

\* The masks count the same.
LEMMA MasksCountTheSame ==
  ASSUME NEW n \in Nat, NEW d \in [1..n -> Int]
  PROVE  MaskedExtreme(d) = Extreme("mean", d)
<1> DEFINE V == SignVectors(n)
           M == Masks(n)
           f == VectorOf(n)
           A == {mask \in M : Size(Sum(Flip(d, f[mask]))) >= Size(Sum(d))}
           B == {s \in V : Size(Sum(Flip(d, s))) >= Size(Sum(d))}
           g == [mask \in A |-> f[mask]]
<1>1. Len(d) = n /\ DOMAIN d = 1..n
  BY DifferenceSequences
<1>2. MaskedExtreme(d) = Cardinality(A)
  <2>1. ASSUME NEW mask \in M
        PROVE  [i \in DOMAIN d |-> (IF (mask \div 2^(i - 1)) % 2 = 1 THEN 1 ELSE -1) * d[i]]
                 = Flip(d, f[mask])
    BY <1>1 DEF Flip, VectorOf
  <2> QED BY <1>1, <2>1 DEF MaskedExtreme, Masks
<1>3. Extreme("mean", d) = Cardinality(B)
  BY <1>1 DEF Extreme, Statistic
<1>4. /\ f \in [M -> V] /\ \A x, y \in M : f[x] = f[y] => x = y
      /\ \A s \in V : \E x \in M : f[x] = s
  BY MasksAreVectors
<1>5. IsFiniteSet(A)
  <2>3. IsFiniteSet(M)
    BY MasksAreVectors
  <2>4. A \in SUBSET M
    OBVIOUS
  <2> HIDE DEF A, M
  <2> QED BY <2>3, <2>4, FS_Subset
<1> HIDE DEF f, M, V
<1>6. /\ g \in [A -> B] /\ \A x, y \in A : g[x] = g[y] => x = y
      /\ \A s \in B : \E x \in A : g[x] = s
  <2>1. \A x \in A : g[x] = f[x] /\ f[x] \in B /\ x \in M
    BY <1>4
  <2>2. \A x, y \in A : g[x] = g[y] => x = y
    BY <1>4, <2>1
  <2>3. ASSUME NEW s \in B PROVE \E x \in A : g[x] = s
    <3>1. PICK x \in M : f[x] = s
      BY <1>4
    <3> QED BY <3>1
  <2> QED BY <2>1, <2>2, <2>3
<1> HIDE DEF A, B, g
<1>7. Cardinality(B) = Cardinality(A)
  BY <1>5, <1>6, ListedOnce
<1> QED BY <1>2, <1>3, <1>7

\* Which of the runs is called a does not matter for the p value.
LEMMA ExtremeTurns ==
  ASSUME NEW n \in Nat, NEW d, NEW e, Turned(d, e, 1..n), NEW name
  PROVE  Extreme(name, e) = Extreme(name, d)
<1>0. d \in [1..n -> Int] /\ e \in [1..n -> Int] /\ \A i \in 1..n : e[i] = -d[i]
  BY DEF Turned
<1>1. Len(d) = n /\ Len(e) = n /\ IsFiniteSet(1..n)
  BY <1>0, DifferenceSequences
<1>2. Size(Statistic(name, e)) = Size(Statistic(name, d))
  <2>1. Statistic(name, d) \in Int /\ Statistic(name, e) = -Statistic(name, d)
    BY <1>1, StatisticTurns
  <2>2. PICK x \in Int : x = Statistic(name, d)
    BY <2>1
  <2>3. Size(-x) = Size(x)
    BY Signs
  <2> QED BY <2>1, <2>2, <2>3
<1>3. ASSUME NEW s \in SignVectors(n)
      PROVE  Size(Statistic(name, Flip(e, s))) = Size(Statistic(name, Flip(d, s)))
  <2>1. /\ Flip(d, s) \in [1..n -> Int] /\ Flip(e, s) \in [1..n -> Int]
        /\ \A i \in 1..n : Flip(d, s)[i] = s[i] * d[i] /\ Flip(e, s)[i] = s[i] * e[i]
    BY <1>0, Flipping
  <2>2. ASSUME NEW i \in 1..n PROVE Flip(e, s)[i] = -(Flip(d, s)[i])
    <3>1. PICK a \in {-1, 1}, x \in Int : a = s[i] /\ x = d[i]
      BY <1>0 DEF SignVectors
    <3>2. a * (-x) = -(a * x)
      OBVIOUS
    <3> QED BY <1>0, <2>1, <3>1, <3>2
  <2>3. Statistic(name, Flip(d, s)) \in Int
    BY <1>1, <2>1, StatisticIsInt
  <2>4. Statistic(name, Flip(e, s)) = -Statistic(name, Flip(d, s))
    <3>1. Turned(Flip(d, s), Flip(e, s), 1..n)
      BY <2>1, <2>2 DEF Turned
    <3> QED BY <1>1, <3>1, StatisticTurns
  <2>5. PICK x \in Int : x = Statistic(name, Flip(d, s))
    BY <2>3
  <2>6. Size(-x) = Size(x)
    BY Signs
  <2> QED BY <2>4, <2>5, <2>6
<1>4. {s \in SignVectors(n) : Size(Statistic(name, Flip(e, s))) >= Size(Statistic(name, e))}
        = {s \in SignVectors(n) : Size(Statistic(name, Flip(d, s))) >= Size(Statistic(name, d))}
  BY <1>2, <1>3
<1> QED BY <1>1, <1>4 DEF Extreme

\* A pair left out.
LEMMA LeftOut ==
  ASSUME NEW n \in Nat, NEW d \in [1..n -> Int], NEW i \in 1..n
  PROVE  /\ RemoveAt(d, i) \in [1..(n - 1) -> Int] /\ n - 1 \in Nat
         /\ \A j \in 1..(n - 1) : RemoveAt(d, i)[j] = IF j < i THEN d[j] ELSE d[j + 1]
<1> DEFINE a == SubSeq(d, 1, i - 1)
           b == SubSeq(d, i + 1, n)
<1>1. d \in Seq(Int) /\ Len(d) = n
  BY DifferenceSequences
<1>2. /\ a \in Seq(Int) /\ Len(a) = i - 1
      /\ \A j \in 1..(i - 1) : a[j] = d[j]
  <2>1. 1 \in Int /\ i - 1 \in Int /\ \A j \in 1..(i - 1) : d[j] \in Int
    OBVIOUS
  <2>2. /\ a \in Seq(Int) /\ Len(a) = IF 1 <= i - 1 THEN (i - 1) - 1 + 1 ELSE 0
        /\ \A j \in 1..((i - 1) - 1 + 1) : a[j] = d[1 + j - 1]
    <3> HIDE DEF a
    <3>1. PICK m \in Int, k \in Int : m = 1 /\ k = i - 1
      BY <2>1
    <3>2. \A j \in m..k : d[j] \in Int
      BY <2>1, <3>1
    <3>3. /\ SubSeq(d, m, k) \in Seq(Int)
          /\ Len(SubSeq(d, m, k)) = IF m <= k THEN k - m + 1 ELSE 0
          /\ \A j \in 1..(k - m + 1) : SubSeq(d, m, k)[j] = d[m + j - 1]
      BY ONLY <3>2, m \in Int, k \in Int, SubSeqProperties, SMTT(30)
    <3> QED BY <3>1, <3>3 DEF a
  <2> HIDE DEF a
  <2>3. Len(a) = i - 1
    BY <2>2
  <2>4. ASSUME NEW j \in 1..(i - 1) PROVE a[j] = d[j]
    <3>1. 1 + j - 1 = j /\ j \in 1..((i - 1) - 1 + 1)
      OBVIOUS
    <3> QED BY <2>2, <3>1
  <2> QED BY <2>2, <2>3, <2>4
<1>3. /\ b \in Seq(Int) /\ Len(b) = n - i
      /\ \A j \in 1..(n - i) : b[j] = d[i + j]
  <2>1. i + 1 \in Int /\ n \in Int /\ \A j \in (i + 1)..n : d[j] \in Int
    OBVIOUS
  <2>2. /\ b \in Seq(Int) /\ Len(b) = IF i + 1 <= n THEN n - (i + 1) + 1 ELSE 0
        /\ \A j \in 1..(n - (i + 1) + 1) : b[j] = d[(i + 1) + j - 1]
    BY <2>1, SubSeqProperties
  <2> HIDE DEF b
  <2>3. Len(b) = n - i
    BY <2>2
  <2>4. ASSUME NEW j \in 1..(n - i) PROVE b[j] = d[i + j]
    <3>1. (i + 1) + j - 1 = i + j /\ j \in 1..(n - (i + 1) + 1)
      OBVIOUS
    <3> QED BY <2>2, <3>1
  <2> QED BY <2>2, <2>3, <2>4
<1>4. RemoveAt(d, i) = a \o b
  BY <1>1 DEF RemoveAt
<1> HIDE DEF a, b
<1>5. /\ a \o b \in Seq(Int) /\ Len(a \o b) = Len(a) + Len(b)
      /\ \A j \in 1..(Len(a) + Len(b)) : (a \o b)[j] = IF j <= Len(a) THEN a[j] ELSE b[j - Len(a)]
  BY <1>2, <1>3, ConcatProperties
<1>6. Len(a) + Len(b) = n - 1 /\ n - 1 \in Nat
  BY <1>2, <1>3
<1>7. ASSUME NEW j \in 1..(n - 1)
      PROVE  (a \o b)[j] = IF j < i THEN d[j] ELSE d[j + 1]
  <2>1. (a \o b)[j] = IF j <= i - 1 THEN a[j] ELSE b[j - (i - 1)]
    BY <1>2, <1>5, <1>6
  <2>2. CASE j < i
    <3>1. j \in 1..(i - 1) /\ j <= i - 1
      BY <2>2
    <3> QED BY <1>2, <2>1, <2>2, <3>1
  <2>3. CASE ~(j < i)
    <3>1. j - (i - 1) \in 1..(n - i) /\ i + (j - (i - 1)) = j + 1 /\ ~(j <= i - 1)
      BY <2>3
    <3> QED BY <1>3, <2>1, <2>3, <3>1
  <2> QED BY <2>2, <2>3
<1>8. a \o b \in [1..(n - 1) -> Int]
  BY <1>5, <1>6, LenProperties
<1> QED BY <1>4, <1>6, <1>7, <1>8

\* Nor does it matter for the p values with a pair left out.
LEMMA LeftOutTurns ==
  ASSUME NEW n \in Nat, NEW d, NEW e, Turned(d, e, 1..n), NEW name
  PROVE  \A i \in 1..n : Extreme(name, RemoveAt(e, i)) = Extreme(name, RemoveAt(d, i))
<1>1. d \in [1..n -> Int] /\ e \in [1..n -> Int] /\ \A x \in 1..n : e[x] = -d[x]
  BY DEF Turned
<1>2. ASSUME NEW i \in 1..n
      PROVE  Extreme(name, RemoveAt(e, i)) = Extreme(name, RemoveAt(d, i))
  <2>1. /\ RemoveAt(d, i) \in [1..(n - 1) -> Int] /\ n - 1 \in Nat
        /\ \A j \in 1..(n - 1) : RemoveAt(d, i)[j] = IF j < i THEN d[j] ELSE d[j + 1]
    BY <1>1, LeftOut
  <2>2. /\ RemoveAt(e, i) \in [1..(n - 1) -> Int]
        /\ \A j \in 1..(n - 1) : RemoveAt(e, i)[j] = IF j < i THEN e[j] ELSE e[j + 1]
    BY <1>1, LeftOut
  <2>3. ASSUME NEW j \in 1..(n - 1) PROVE RemoveAt(e, i)[j] = -(RemoveAt(d, i)[j])
    <3>1. j \in 1..n /\ j + 1 \in 1..n
      OBVIOUS
    <3> QED BY <1>1, <2>1, <2>2, <3>1
  <2>4. Turned(RemoveAt(d, i), RemoveAt(e, i), 1..(n - 1))
    BY <2>1, <2>2, <2>3 DEF Turned
  <2> QED BY <2>1, <2>4, ExtremeTurns
<1> QED BY <1>2

\* The differences that count, their ranks and signs.
LEMMA NonzeroDifferences ==
  ASSUME NEW n \in Nat, NEW d, NEW e, Turned(d, e, 1..n),
         NEW D, D = {i \in 1..n : d[i] # 0}
  PROVE  /\ IsFiniteSet(D) /\ D = DOMAIN Nonzero(d) /\ D = DOMAIN Nonzero(e)
         /\ Turned(Nonzero(d), Nonzero(e), D)
         /\ \A i \in D : Nonzero(d)[i] = d[i]
<1>1. d \in [1..n -> Int] /\ e \in [1..n -> Int] /\ \A x \in 1..n : e[x] = -d[x]
  BY DEF Turned
<1>2. DOMAIN d = 1..n /\ DOMAIN e = 1..n /\ IsFiniteSet(1..n)
  BY <1>1, DifferenceSequences
<1>3. {i \in DOMAIN d : d[i] # 0} = D
  BY <1>2
<1>4. {i \in DOMAIN e : e[i] # 0} = D
  BY <1>1, <1>2
<1>5. D \in SUBSET (1..n)
  OBVIOUS
<1>6. IsFiniteSet(D)
  BY <1>2, <1>5, FS_Subset
<1>7. Nonzero(d) = [i \in D |-> d[i]] /\ Nonzero(e) = [i \in D |-> e[i]]
  BY <1>3, <1>4 DEF Nonzero, Restrict
<1>8. Turned(Nonzero(d), Nonzero(e), D)
  BY <1>1, <1>5, <1>7 DEF Turned
<1> QED BY <1>6, <1>7, <1>8

\* The rank biserial turns with the differences.
LEMMA BiserialTurns ==
  ASSUME NEW n \in Nat, NEW d, NEW e, Turned(d, e, 1..n)
  PROVE  RankBiserial(e) = <<-RankBiserial(d)[1], RankBiserial(d)[2]>>
<1>1. PICK D : D = {i \in 1..n : d[i] # 0}
  OBVIOUS
<1>2. PICK y, z : y = Nonzero(e) /\ z = Nonzero(d)
  OBVIOUS
<1>3. /\ IsFiniteSet(D) /\ DOMAIN z = D /\ DOMAIN y = D /\ Turned(z, y, D)
      /\ z \in [D -> Int] /\ y \in [D -> Int] /\ \A x \in D : y[x] = -z[x]
  <2>1. IsFiniteSet(D) /\ DOMAIN z = D /\ DOMAIN y = D /\ Turned(z, y, D)
    BY <1>1, <1>2, NonzeroDifferences
  <2> QED BY <2>1 DEF Turned
<1>4. CASE D = {}
  <2>1. RankBiserial(d) = <<0, 1>> /\ RankBiserial(e) = <<0, 1>>
    BY <1>2, <1>3, <1>4 DEF RankBiserial
  <2>2. PICK a, b : a = RankBiserial(d)[1] /\ b = RankBiserial(d)[2]
    OBVIOUS
  <2>3. a = 0 /\ b = 1
    <3>1. <<0, 1>>[1] = 0 /\ <<0, 1>>[2] = 1
      OBVIOUS
    <3> QED BY ONLY <2>1, <2>2, <3>1, Zenon
  <2>4. -a = 0
    <3>1. \A u, v \in Int : u = v /\ u + v = v => -u = v
      OBVIOUS
    <3>2. 0 \in Int /\ 0 + 0 = 0
      OBVIOUS
    <3> QED BY <2>3, <3>1, <3>2, Zenon
  <2>5. <<-a, b>> = <<0, 1>>
    BY <2>3, <2>4
  <2> QED BY <2>1, <2>2, <2>5
<1>5. CASE D # {}
  <2>1. RankBiserial(d) = <<Sum(SignedRanks(z)), Sum([i \in D |-> TwiceRank(z, i)])>>
    BY <1>2, <1>3, <1>5 DEF RankBiserial
  <2>2. RankBiserial(e) = <<Sum(SignedRanks(y)), Sum([i \in D |-> TwiceRank(y, i)])>>
    BY <1>2, <1>3, <1>5 DEF RankBiserial
  <2>3. \A i \in D : TwiceRank(y, i) = TwiceRank(z, i)
    BY <1>3, RanksTurn
  <2>4. [i \in D |-> TwiceRank(y, i)] = [i \in D |-> TwiceRank(z, i)]
    BY <2>3
  <2>5. Sum(SignedRanks(y)) = -Sum(SignedRanks(z))
    BY <1>3, StatisticTurns
  <2>6. /\ RankBiserial(d)[1] = Sum(SignedRanks(z))
        /\ RankBiserial(d)[2] = Sum([i \in D |-> TwiceRank(z, i)])
    BY <2>1
  <2> QED BY <2>2, <2>4, <2>5, <2>6
<1> QED BY <1>4, <1>5

\* It is 1 when b is larger in every pair where they differ.
LEMMA BiserialOne ==
  ASSUME NEW n \in Nat, NEW d \in [1..n -> Int]
  PROVE  RankBiserial(d)[1] = RankBiserial(d)[2]
           <=> /\ Cardinality({i \in 1..n : d[i] > 0}) > 0
               /\ Cardinality({i \in 1..n : d[i] < 0}) = 0
<1> DEFINE P == {i \in 1..n : d[i] > 0}
           N == {i \in 1..n : d[i] < 0}
<1>1. PICK D : D = {i \in 1..n : d[i] # 0}
  OBVIOUS
<1>2. PICK e : Turned(d, e, 1..n)
  <2>1. Turned(d, [x \in 1..n |-> -d[x]], 1..n)
    BY DEF Turned
  <2> QED BY <2>1
<1>3. PICK y, z : y = Nonzero(e) /\ z = Nonzero(d)
  OBVIOUS
<1>4. /\ IsFiniteSet(D) /\ DOMAIN z = D /\ Turned(z, y, D)
      /\ \A i \in D : z[i] = d[i]
  <2>1. /\ IsFiniteSet(D) /\ D = DOMAIN Nonzero(d)
        /\ Turned(Nonzero(d), Nonzero(e), D)
        /\ \A i \in D : Nonzero(d)[i] = d[i]
    BY <1>1, <1>2, NonzeroDifferences
  <2> QED BY ONLY <1>3, <2>1
<1>5. z \in [D -> Int] /\ y \in [D -> Int] /\ \A x \in D : y[x] = -z[x]
  BY <1>4 DEF Turned
<1>6. (Cardinality(P) > 0 <=> P # {}) /\ (Cardinality(N) = 0 <=> N = {})
  <2>1. P \in SUBSET (1..n) /\ N \in SUBSET (1..n) /\ IsFiniteSet(1..n)
    BY DifferenceSequences
  <2> HIDE DEF P, N
  <2>2. IsFiniteSet(P) /\ IsFiniteSet(N)
    BY <2>1, FS_Subset
  <2>3. Cardinality(P) \in Nat /\ Cardinality(N) \in Nat
    BY <2>2, FS_CardinalityType
  <2>4. (Cardinality(P) = 0 <=> P = {}) /\ (Cardinality(N) = 0 <=> N = {})
    BY <2>2, FS_EmptySet
  <2> QED BY <2>3, <2>4
<1>7. P # {} /\ N = {} <=> D # {} /\ \A i \in D : d[i] > 0
  <2>1. P # {} /\ N = {} => D # {} /\ \A i \in D : d[i] > 0
    BY <1>1
  <2>2. D # {} /\ (\A i \in D : d[i] > 0) => P # {} /\ N = {}
    BY <1>1
  <2> QED BY <2>1, <2>2
<1> HIDE DEF P, N
<1>8. CASE D = {}
  <2>1. RankBiserial(d) = <<0, 1>>
    BY <1>3, <1>4, <1>8 DEF RankBiserial
  <2>2. RankBiserial(d)[1] # RankBiserial(d)[2]
    BY <2>1
  <2> QED BY <1>6, <1>7, <1>8, <2>2 DEF P, N
<1>9. CASE D # {}
  <2>1. PICK f, g : f = SignedRanks(z) /\ g = [i \in D |-> TwiceRank(z, i)]
    OBVIOUS
  <2>2. RankBiserial(d) = <<Sum(f), Sum(g)>>
    BY <1>3, <1>4, <1>9, <2>1 DEF RankBiserial
  <2>3. ASSUME NEW i \in D
        PROVE  /\ f[i] \in Int /\ g[i] \in Int /\ f[i] <= g[i]
               /\ f[i] = g[i] <=> d[i] > 0
    <3>1. f[i] = TwiceRank(z, i) * Signum(z[i]) /\ g[i] = TwiceRank(z, i)
      BY <1>4, <2>1 DEF SignedRanks
    <3>2. PICK r \in Nat \ {0}, s \in {-1, 0, 1} : r = TwiceRank(z, i) /\ s = Signum(z[i])
      <4>1. TwiceRank(z, i) \in Nat \ {0} /\ Signum(z[i]) \in {-1, 0, 1}
        BY <1>4, <1>5, RanksTurn
      <4> QED BY <4>1
    <3>3. s = 1 <=> d[i] > 0
      <4>1. z[i] \in Int /\ z[i] = d[i]
        BY <1>4, <1>5
      <4> QED BY <3>2, <4>1 DEF Signum
    <3>4. r * s \in Int /\ r * s <= r /\ (r * s = r <=> s = 1)
      BY <3>2
    <3> QED BY <3>1, <3>2, <3>3, <3>4
  <2>4. f \in [D -> Int] /\ g \in [D -> Int]
    BY <1>4, <2>1, <2>3 DEF SignedRanks
  <2>5. Sum(f) = Sum(g) <=> \A i \in D : f[i] = g[i]
    <3>1. \A i \in D : f[i] <= g[i]
      BY <2>3
    <3>2. IsFiniteSet(D)
      BY <1>4
    <3> QED BY ONLY <2>4, <3>1, <3>2, SumGrows
  <2>6. RankBiserial(d)[1] = RankBiserial(d)[2] <=> Sum(f) = Sum(g)
    BY <2>2
  <2>7. (\A i \in D : f[i] = g[i]) <=> \A i \in D : d[i] > 0
    BY <2>3
  <2> QED BY <1>6, <1>7, <1>9, <2>5, <2>6, <2>7 DEF P, N
<1> QED BY <1>8, <1>9

\* The paired test is exact whatever the differences.
LEMMA ExactForAll ==
  ASSUME pairs \in Seq(Int)
  PROVE  PairedTestIsExact
<1> SUFFICES ASSUME pairs # << >>
             PROVE  PairedTestIsExact
  BY DEF PairedTestIsExact
<1> DEFINE d == pairs
           n == Len(pairs)
           e == [i \in DOMAIN pairs |-> -pairs[i]]
           r == Paired(d)
           t == Paired(e)
<1>1. n \in Nat \ {0} /\ d \in [1..n -> Int] /\ DOMAIN d = 1..n
  <2>1. pairs \in [1..n -> Int] /\ n \in Nat
    BY LenProperties
  <2>2. n # 0
    BY EmptySeq
  <2> QED BY <2>1, <2>2
<1>2. Turned(d, e, 1..n)
  BY <1>1 DEF Turned
<1>3. e \in [1..n -> Int] /\ DOMAIN e = 1..n /\ Len(e) = n
  <2>1. e \in [1..n -> Int] /\ DOMAIN e = 1..n
    BY <1>1
  <2> HIDE DEF n, e
  <2> QED BY <1>1, <2>1, DifferenceSequences
<1> HIDE DEF d, e, n
<1>4. /\ r.p = Extreme("mean", d) /\ r.rankP = Extreme("signedrank", d) /\ r.sum = Sum(d)
      /\ r.biserial = RankBiserial(d)
      /\ r.positive = Cardinality({i \in 1..n : d[i] > 0})
      /\ r.negative = Cardinality({i \in 1..n : d[i] < 0})
      /\ r.looP = IF n > 2 THEN {Extreme("mean", RemoveAt(d, i)) : i \in DOMAIN d} ELSE {}
  BY <1>1 DEF Paired, n, d
<1>5. /\ t.p = Extreme("mean", e) /\ t.rankP = Extreme("signedrank", e) /\ t.sum = Sum(e)
      /\ t.biserial = RankBiserial(e)
      /\ t.positive = Cardinality({i \in 1..n : e[i] > 0})
      /\ t.looP = IF n > 2 THEN {Extreme("mean", RemoveAt(e, i)) : i \in DOMAIN e} ELSE {}
  BY <1>3 DEF Paired
<1> HIDE DEF r, t
<1>6. ASSUME NEW name, NEW p, p = {<<s, Extreme(name, Flip(d, s))>> : s \in SignVectors(n)},
             NEW k \in 0..(2^n)
      PROVE  Cardinality({v \in p : v[2] <= k}) <= k
  <2>1. k \in Nat /\ n \in Nat /\ d \in [1..n -> Int]
    BY <1>1
  <2>2. p = {<<s, Extreme(name, Flip(d, s))>> : s \in SignVectors(n)}
    BY <1>6
  <2> QED BY ONLY <2>1, <2>2, FewVectorsAreExtreme
<1>7. r.p >= 2
  BY <1>1, <1>4, NeverBelowTwo
<1>8. MaskedExtreme(d) = r.p
  BY <1>1, <1>4, MasksCountTheSame
<1>9. t.p = r.p /\ t.rankP = r.rankP
  BY <1>1, <1>2, <1>4, <1>5, ExtremeTurns
<1>10. t.looP = r.looP
  <2>1. PICK A, B : /\ A = {Extreme("mean", RemoveAt(d, i)) : i \in DOMAIN d}
                    /\ B = {Extreme("mean", RemoveAt(e, i)) : i \in DOMAIN e}
    OBVIOUS
  <2>2. A = B
    <3>1. \A i \in 1..n : Extreme("mean", RemoveAt(e, i)) = Extreme("mean", RemoveAt(d, i))
      BY <1>1, <1>2, LeftOutTurns
    <3> QED BY <1>1, <1>3, <2>1, <3>1
  <2>3. r.looP = (IF n > 2 THEN A ELSE {}) /\ t.looP = IF n > 2 THEN B ELSE {}
    BY <1>4, <1>5, <2>1, Zenon
  <2> QED BY <2>2, <2>3
<1>11. t.sum = -r.sum
  <2>1. IsFiniteSet(1..n) /\ \A i \in 1..n : e[i] = -d[i]
    BY <1>1, <1>2, DifferenceSequences DEF Turned
  <2>2. Sum(e) = -Sum(d)
    BY <1>1, <1>3, <2>1, SumTurns
  <2> QED BY <1>4, <1>5, <2>2
<1>12. t.biserial = <<-r.biserial[1], r.biserial[2]>>
  BY <1>1, <1>2, <1>4, <1>5, BiserialTurns
<1>13. t.positive = r.negative
  <2>1. \A i \in 1..n : e[i] > 0 <=> d[i] < 0
    BY <1>1, <1>2 DEF Turned
  <2>2. {i \in 1..n : e[i] > 0} = {i \in 1..n : d[i] < 0}
    BY <2>1
  <2> QED BY <1>4, <1>5, <2>2
<1>14. r.biserial[1] = r.biserial[2] <=> (r.positive > 0 /\ r.negative = 0)
  BY <1>1, <1>4, BiserialOne
<1> QED BY <1>6, <1>7, <1>8, <1>9, <1>10, <1>11, <1>12, <1>13, <1>14
        DEF PairedTestIsExact, r, t, d, e, n

\* The paired test reports what its definition promises of every comparison, of any
\* number of pairs and any differences (exact_signflip, exact_p, paired_result).
THEOREM PairedTestIsExactAlways == OfflineSpec => []PairedTestIsExact
<1>1. AnalysisInvariant => PairedTestIsExact
  BY ExactForAll DEF AnalysisInvariant
<1> QED BY <1>1, AnalysisInvariantHolds, PTL

-----------------------------------------------------------------------------
(* The clock attestations.                                                 *)

Measurements == [Sources -> [rtt : Nat, skew : Int]]

\* An attestation is made of measurements, and the last one of the clocks as they
\* still are.
ClockInvariant ==
  /\ skew \in [Sources -> Int]
  /\ preflight = None \/ \E m \in Measurements : preflight = Attestation(m)
  /\ \/ postflight = None
     \/ \E m \in Measurements :
          /\ postflight = Attestation(m)
          /\ \A s \in Sources : \E t \in RoundTrips : m[s] = Sample(skew[s], t)

\* The quickest of several requests is one of them.
LEMMA QuickestIsOne ==
  ASSUME NEW trips \in SUBSET RoundTrips, trips # {}
  PROVE  Quickest(trips) \in RoundTrips
<1>1. \A t \in trips : RoundTripTime(t) \in Nat
  <2>1. \A t \in Nat \X Nat : t[1] \in Nat /\ t[2] \in Nat
    OBVIOUS
  <2> QED BY <2>1, ClockAssumption DEF RoundTripTime
<1>2. PICK v \in {RoundTripTime(t) : t \in trips} :
        \A w \in {RoundTripTime(t) : t \in trips} : v <= w
  <2>1. {RoundTripTime(t) : t \in trips} \subseteq Nat /\ {RoundTripTime(t) : t \in trips} # {}
    BY <1>1
  <2> QED BY <2>1, LeastNat
<1>3. \E t \in trips : \A u \in trips : RoundTripTime(t) <= RoundTripTime(u)
  BY <1>2
<1> QED BY <1>3 DEF Quickest

\* A measurement misses the true skew by half its round trip at most.
LEMMA SampleError ==
  ASSUME NEW off \in Int, NEW t \in RoundTrips
  PROVE  /\ Sample(off, t) \in [rtt : Nat, skew : Int]
         /\ LET half == (Sample(off, t).rtt + 1) \div 2
            IN  off - Sample(off, t).skew \in (-half)..half
<1>1. t[1] \in Nat /\ t[2] \in Nat
  <2>1. \A u \in Nat \X Nat : u[1] \in Nat /\ u[2] \in Nat
    OBVIOUS
  <2> QED BY <2>1, ClockAssumption
<1>2. PICK a \in Nat : a = t[1]
  BY <1>1
<1>3. PICK b \in Nat : b = t[2]
  BY <1>1
<1>4. Sample(off, t) = [rtt |-> a + b, skew |-> off + ((a - b) \div 2)]
  BY <1>2, <1>3 DEF Sample, RoundTripTime
<1>5. /\ (a - b) \div 2 \in Int
      /\ -((a - b) \div 2) \in (-((a + b + 1) \div 2))..((a + b + 1) \div 2)
  OBVIOUS
<1>6. off - (off + ((a - b) \div 2)) = -((a - b) \div 2)
  BY <1>5
<1> QED BY <1>4, <1>5, <1>6

\* What an attestation is made of.
LEMMA AttestedMeasurements ==
  ASSUME skew \in [Sources -> Int], NEW x \in Attested
  PROVE  \E m \in Measurements :
           /\ x = Attestation(m)
           /\ \A s \in Sources : \E t \in RoundTrips : m[s] = Sample(skew[s], t)
<1>1. QuickestTrips \subseteq RoundTrips
  <2>1. ASSUME NEW trips \in (SUBSET RoundTrips) \ {{}}
        PROVE  Quickest(trips) \in RoundTrips
    <3>1. trips \in SUBSET RoundTrips /\ trips # {}
      OBVIOUS
    <3> QED BY <3>1, QuickestIsOne
  <2> QED BY <2>1, Zenon DEF QuickestTrips
<1>2. PICK t \in [Sources -> QuickestTrips] :
        x = Attestation([s \in Sources |-> Sample(skew[s], t[s])])
  BY DEF Attested
<1> DEFINE m == [s \in Sources |-> Sample(skew[s], t[s])]
<1>3. \A s \in Sources : t[s] \in RoundTrips /\ m[s] = Sample(skew[s], t[s])
  BY <1>1
<1>4. m \in Measurements
  <2>1. \A s \in Sources : Sample(skew[s], t[s]) \in [rtt : Nat, skew : Int]
    BY <1>3, SampleError
  <2> QED BY <2>1 DEF Measurements
<1> QED BY <1>2, <1>3, <1>4

LEMMA ClockInvariantHolds == OfflineSpec => []ClockInvariant
<1>1. OfflineInit => ClockInvariant
  BY DEF OfflineInit, ClockInit, ClockInvariant
<1>2. ASSUME ClockInvariant, [OfflineNext]_offlineVars
      PROVE  ClockInvariant'
  <2>1. CASE UNCHANGED clockVars
    BY <1>2, <2>1 DEF ClockInvariant, clockVars
  <2>2. CASE Preflight
    BY <1>2, <2>2, AttestedMeasurements DEF ClockInvariant, Preflight
  <2>3. CASE ClockSteps
    BY <1>2, <2>3, ClockAssumption DEF ClockInvariant, ClockSteps
  <2>4. CASE Postflight
    BY <1>2, <2>4, AttestedMeasurements DEF ClockInvariant, Postflight
  <2>5. UNCHANGED clockVars \/ ClockNext
    BY <1>2 DEF OfflineNext, Proceed, Dataset, Study, studyVars, offlineVars
  <2> QED BY <2>1, <2>2, <2>3, <2>4, <2>5 DEF ClockNext
<1> QED BY <1>1, <1>2, PTL DEF OfflineSpec

\* The median of some sources is the middle of the skews of two of them.
LEMMA MedianOfTwo ==
  ASSUME NEW m \in Measurements, NEW S \in SUBSET Sources, S # {}
  PROVE  \E s, t \in S : Median(m, S) = (m[s].skew + m[t].skew) \div 2
<1> DEFINE Less(s) == {r \in S : m[r].skew < m[s].skew}
           Most(s) == {r \in S : m[r].skew <= m[s].skew}
           Below(s) == Cardinality(Less(s))
           UpTo(s) == Cardinality(Most(s))
           n == Cardinality(S)
<1>1. \A s \in S : m[s].skew \in Int
  BY DEF Measurements
<1>2. IsFiniteSet(S) /\ n \in Nat \ {0}
  BY ClockAssumption, FS_Subset, FS_CardinalityType, FS_EmptySet
<1>3. \A s \in S : /\ IsFiniteSet(Less(s)) /\ IsFiniteSet(Most(s))
                   /\ Below(s) \in Nat /\ UpTo(s) \in Nat /\ UpTo(s) <= n
  <2> TAKE s \in S
  <2> QED BY <1>2, SubsetCounts
\* Of two sources the one with the larger skew has more up to it.
<1>4. ASSUME NEW s \in S, NEW r \in S, m[s].skew < m[r].skew
      PROVE  UpTo(s) < UpTo(r)
  <2>1. \A x \in Most(s) : x \in Most(r) \ {r}
    BY <1>1, <1>4
  <2>2. r \in Most(r)
    BY <1>1
  <2> HIDE DEF Most
  <2>3. /\ IsFiniteSet(Most(r) \ {r})
        /\ Cardinality(Most(r) \ {r}) = UpTo(r) - 1
    BY <1>3, <2>2, FS_RemoveElement
  <2>4. UpTo(s) <= Cardinality(Most(r) \ {r})
    BY <2>1, <2>3, SubsetCounts
  <2>5. UpTo(s) \in Nat /\ UpTo(r) \in Nat
    BY <1>3
  <2> QED BY <2>3, <2>4, <2>5
\* Of any sources one has the largest skew.
<1>9. ASSUME NEW R \in SUBSET S, R # {}
      PROVE  \E r \in R : \A t \in R : m[t].skew <= m[r].skew
  <2> DEFINE U == {UpTo(t) : t \in R}
  <2>1. U \subseteq Nat /\ U # {} /\ \A y \in U : y <= n
    BY <1>3, <1>9
  <2>2. PICK r \in R : \A t \in R : UpTo(t) <= UpTo(r)
    <3>1. Max(U) \in U /\ \A y \in U : y <= Max(U)
      BY <1>2, <2>1, MaxNat
    <3> QED BY <3>1
  <2>3. \A t \in R : ~(m[r].skew < m[t].skew)
    <3> TAKE t \in R
    <3>1. UpTo(t) <= UpTo(r) /\ UpTo(t) \in Nat /\ UpTo(r) \in Nat
      BY <1>3, <2>2
    <3>2. m[r].skew < m[t].skew => UpTo(r) < UpTo(t)
      BY <1>4
    <3> HIDE DEF UpTo
    <3> QED BY <3>1, <3>2
  <2> QED BY <1>1, <2>3
\* Every rank is that of some source.
<1>5. ASSUME NEW k \in 1..n
      PROVE  \E s \in S : Below(s) < k /\ k <= UpTo(s)
  <2> DEFINE T == {s \in S : k <= UpTo(s)}
  <2>1. T # {}
    <3>1. PICK r \in S : \A t \in S : m[t].skew <= m[r].skew
      BY <1>9
    <3>2. Most(r) = S
      BY <3>1
    <3> QED BY <1>2, <3>2
  <2>2. PICK s \in T : \A r \in T : UpTo(s) <= UpTo(r)
    <3> DEFINE U == {UpTo(t) : t \in T}
    <3>1. U \subseteq Nat /\ U # {}
      BY <1>3, <2>1
    <3>2. PICK u \in U : \A y \in U : u <= y
      BY <3>1, LeastNat
    <3> QED BY <3>2
  <2>3. ASSUME ~(Below(s) < k)
        PROVE  FALSE
    <3>1. Below(s) \in Nat /\ k \in Nat /\ 0 < k /\ k <= Below(s) /\ IsFiniteSet(Less(s))
      <4>1. s \in S /\ Below(s) \in Nat /\ IsFiniteSet(Less(s))
        BY <1>3, <2>2
      <4>2. k \in Nat /\ 0 < k
        BY <1>2
      <4> HIDE DEF Below
      <4> QED BY <2>3, <4>1, <4>2
    <3>2. Less(s) # {}
      <4> HIDE DEF Less
      <4> QED BY <3>1, FS_EmptySet
    <3>3. PICK r \in Less(s) : \A t \in Less(s) : m[t].skew <= m[r].skew
      BY <1>9, <3>2
    <3>4. r \in S /\ m[r].skew < m[s].skew /\ \A t \in Less(s) : t \in Most(r)
      BY <3>3
    <3>5. Below(s) <= UpTo(r)
      <4> HIDE DEF Less, Most
      <4> QED BY <1>3, <3>4, SubsetCounts
    <3>6. UpTo(r) < UpTo(s) /\ UpTo(r) \in Nat /\ UpTo(s) \in Nat
      BY <1>3, <1>4, <3>4
    <3>7. k <= UpTo(r) => UpTo(s) <= UpTo(r)
      BY <2>2, <3>4
    <3> HIDE DEF Below, UpTo
    <3> QED BY <3>1, <3>5, <3>6, <3>7
  <2> QED BY <2>2, <2>3
<1> DEFINE At(k) == m[CHOOSE s \in S : Below(s) < k /\ k <= UpTo(s)].skew
<1>6. \A k \in 1..n : \E s \in S : At(k) = m[s].skew
  <2> TAKE k \in 1..n
  <2> QED BY <1>5
<1>7. (n + 1) \div 2 \in 1..n /\ n \div 2 + 1 \in 1..n
  <2> HIDE DEF n
  <2> QED BY <1>2
<1>8. \E s, t \in S :
        (At((n + 1) \div 2) + At(n \div 2 + 1)) \div 2 = (m[s].skew + m[t].skew) \div 2
  <2> HIDE DEF At, n
  <2> QED BY <1>6, <1>7
<1> QED BY <1>8, Zenon DEF Median, Less, Most

\* It lies between any two bounds of the skews.
LEMMA MedianIsBetween ==
  ASSUME NEW m \in Measurements, NEW S \in SUBSET Sources, S # {}
  PROVE  /\ Median(m, S) \in Int
         /\ \A low, high \in Int :
              (\A s \in S : m[s].skew \in low..high) => Median(m, S) \in low..high
<1>1. PICK s \in S, t \in S : Median(m, S) = (m[s].skew + m[t].skew) \div 2
  BY MedianOfTwo
<1>2. PICK a \in Int : a = m[s].skew
  BY DEF Measurements
<1>3. PICK b \in Int : b = m[t].skew
  BY DEF Measurements
<1> QED BY <1>1, <1>2, <1>3

\* What an attestation records.
LEMMA AttestationRecords ==
  ASSUME NEW m
  PROVE  /\ Attestation(m).sources = m /\ Attestation(m).correction = Correction(m)
         /\ Attestation(m).passed =>
              Within(m, Sources, 0) \/ Within(m, TrustedSources(m), Correction(m))
<1>1. Attestation(m).sources = m /\ Attestation(m).correction = Correction(m)
  BY DEF Attestation
<1>2. Attestation(m).passed =>
        Within(m, Sources, 0) \/ Within(m, TrustedSources(m), Correction(m))
  <2> DEFINE native == Within(m, Sources, 0)
             corrected == TrustedSources(m) # {} /\ Within(m, TrustedSources(m), Correction(m))
             enough == Cardinality(TrustedSources(m)) >= 2
             bounded == Correction(m) \in -10000..10000
             passed == \/ native
                       \/ /\ enough /\ bounded
                          /\ corrected
             mode == IF native THEN "native_sync" ELSE "measured_offset_correction"
  <2>1. Attestation(m) = [mode |-> mode, correction |-> Correction(m), corrected |-> corrected,
                          sources |-> m, passed |-> passed]
    BY DEF Attestation
  <2>2. Attestation(m).passed = passed
    <3> HIDE DEF mode, corrected, passed
    <3> QED BY <2>1
  <2>3. passed => native \/ corrected
    <3> HIDE DEF native, enough, bounded, corrected
    <3> QED BY DEF passed
  <2>4. corrected => Within(m, TrustedSources(m), Correction(m))
    BY Zenon
  <2> HIDE DEF passed, corrected
  <2> QED BY <2>2, <2>3, <2>4 DEF native
<1> QED BY <1>1, <1>2

\* What an attestation that passed says of a source it trusts.
LEMMA PassedIsClose ==
  ASSUME NEW m \in Measurements, NEW s \in Sources, m[s].rtt <= TrustedWithin
  PROVE  /\ Attestation(m).correction \in Int
         /\ Attestation(m).passed =>
              m[s].skew - Attestation(m).correction \in (-(2 * Limit))..(2 * Limit)
<1>1. s \in TrustedSources(m) /\ TrustedSources(m) \in SUBSET Sources /\ TrustedSources(m) # {}
  BY DEF TrustedSources
<1> DEFINE trusted == TrustedSources(m)
           correction == Median(m, trusted)
<1>2. /\ Attestation(m).correction = correction
      /\ Attestation(m).passed =>
           Within(m, Sources, 0) \/ Within(m, trusted, correction)
  <2>1. Correction(m) = correction
    BY <1>1 DEF Correction
  <2> QED BY <2>1, AttestationRecords
<1>3. Limit \in Nat /\ \A r \in Sources : m[r].skew \in Int
  BY ClockAssumption DEF Measurements
<1> HIDE DEF trusted
<1>4. /\ correction \in Int
      /\ (\A r \in trusted : m[r].skew \in (-Limit)..Limit) => correction \in (-Limit)..Limit
  <2>1. PICK low \in Int : low = -Limit
    BY <1>3
  <2>2. trusted \in SUBSET Sources /\ trusted # {}
    BY <1>1 DEF trusted
  <2>3. /\ correction \in Int
        /\ (\A r \in trusted : m[r].skew \in low..Limit) => correction \in low..Limit
    BY <1>3, <2>2, MedianIsBetween
  <2> QED BY <2>1, <2>3
<1>7. s \in trusted /\ trusted \in SUBSET Sources
  BY <1>1 DEF trusted
<1> HIDE DEF correction
\* A native postflight bounds source and median apart.
<1>5. ASSUME Within(m, Sources, 0)
      PROVE  m[s].skew - correction \in (-(2 * Limit))..(2 * Limit)
  <2>1. \A r \in Sources : m[r].skew \in (-Limit)..Limit
    BY <1>3, <1>5 DEF Within, Close
  <2>2. correction \in (-Limit)..Limit /\ m[s].skew \in (-Limit)..Limit
    BY <1>4, <1>7, <2>1
  <2> QED BY <1>3, <2>2
<1>6. ASSUME Within(m, trusted, correction)
      PROVE  m[s].skew - correction \in (-(2 * Limit))..(2 * Limit)
  <2>1. m[s].skew - correction \in (-Limit)..Limit
    BY <1>6, <1>7 DEF Within, Close
  <2> QED BY <1>3, <1>4, <2>1
<1> QED BY <1>2, <1>4, <1>5, <1>6

\* The preflight's correction is a number.
LEMMA CorrectionIsInt ==
  ASSUME NEW m \in Measurements
  PROVE  Attestation(m).correction \in Int
<1>1. TrustedSources(m) # {} => Median(m, TrustedSources(m)) \in Int
  <2>1. TrustedSources(m) \in SUBSET Sources
    BY DEF TrustedSources
  <2> QED BY <2>1, MedianIsBetween
<1> QED BY <1>1, AttestationRecords DEF Correction

\* A correction that the report accepts was still right at the end of the run, for any
\* number of sources, any skews and round trips, whatever clock was stepped meanwhile
\* (preflight, check_run).
THEOREM AcceptedCorrectionHeld == OfflineSpec => []CorrectionHeld
<1>1. ASSUME ClockInvariant
      PROVE  CorrectionHeld
  <2> SUFFICES ASSUME postflight # None, preflight.mode = "measured_offset_correction",
                      ClockIsValid,
                      NEW s \in Sources, postflight.sources[s].rtt <= TrustedWithin
               PROVE  LET bound == 3 * Limit + (postflight.sources[s].rtt + 1) \div 2
                      IN  skew[s] - preflight.correction \in (-bound)..bound
    BY DEF CorrectionHeld
  <2>1. PICK m \in Measurements :
          /\ postflight = Attestation(m)
          /\ \A r \in Sources : \E t \in RoundTrips : m[r] = Sample(skew[r], t)
    BY <1>1 DEF ClockInvariant
  <2>2. postflight.sources = m
    <3>1. postflight = Attestation(m)
      BY <2>1
    <3> QED BY <3>1, AttestationRecords, Zenon
  <2>3. preflight.correction \in Int
    BY <1>1, CorrectionIsInt DEF ClockInvariant, None
  <2>4. postflight.passed /\ Close(postflight.correction, preflight.correction)
    BY DEF ClockIsValid, Undrifted
  <2>5. /\ postflight.correction \in Int
        /\ m[s].skew - postflight.correction \in (-(2 * Limit))..(2 * Limit)
    BY <2>1, <2>2, <2>4, PassedIsClose
  <2>6. PICK t \in RoundTrips : m[s] = Sample(skew[s], t)
    BY <2>1
  <2>7. skew[s] \in Int
    BY <1>1 DEF ClockInvariant
  <2> DEFINE half == (m[s].rtt + 1) \div 2
  <2>8. skew[s] - m[s].skew \in (-half)..half
    BY <2>6, <2>7, SampleError
  <2>9. m[s].rtt \in Nat /\ m[s].skew \in Int /\ half \in Nat /\ Limit \in Nat
    BY ClockAssumption DEF Measurements
  <2> HIDE DEF half
  <2>10. skew[s] - preflight.correction \in (-(3 * Limit + half))..(3 * Limit + half)
    BY <2>3, <2>4, <2>5, <2>7, <2>8, <2>9 DEF Close
  <2> QED BY <2>2, <2>10 DEF half
<1> QED BY <1>1, ClockInvariantHolds, PTL

-----------------------------------------------------------------------------
(* The replays of the oracle forecast and of the mutated one.              *)

Counts == MinReplicas..MaxReplicas
Keep   == Replay!MaxLen("mutations")
Span   == MaxReplicas - MinReplicas

\* The replays' copy of an operator is that operator.
LEMMA SameOperators ==
  /\ \A S : Replay!Max(S) = Max(S) /\ Replay!Min(S) = Min(S)
  /\ \A demand : Replay!RequiredReplicas(CapacityLookup, demand)
                    = RequiredReplicas(CapacityLookup, demand)
<1>1. \A S : Replay!Max(S) = Max(S) /\ Replay!Min(S) = Min(S)
  BY DEF Replay!Max, Replay!Min, Max, Min
<1>2. \A demand : Replay!Fitting(CapacityLookup, demand) = Fitting(CapacityLookup, demand)
  BY DEF Replay!Fitting, Fitting
<1> QED BY <1>1, <1>2 DEF Replay!RequiredReplicas, RequiredReplicas, Replay!NoReplicas, NoReplicas

\* The constants of the policy are numbers.
LEMMA ReplayNumbers ==
  /\ MinReplicas \in Nat \ {0} /\ MaxReplicas \in Nat /\ MinReplicas <= MaxReplicas
  /\ InitialReplicas \in Counts /\ MaxScaleDownStep \in Nat \ {0}
  /\ Keep \in Nat \ {0} /\ Span \in Nat /\ SafetyFactor \in Nat \ {0} /\ Horizon \in Nat \ {0}
<1>1. Replay!WindowSamples \in Nat
  BY SuitePolicyAssumption DEF Replay!WindowSamples
<1>2. Keep = IF 1 >= Replay!WindowSamples THEN 1 ELSE Replay!WindowSamples
  BY <1>1, SameOperators, MaxOfTwo DEF Keep, Replay!MaxLen
<1> QED BY <1>1, <1>2, SuitePolicyAssumption, HorizonAssumption DEF Counts, Span

\* What the table says of a larger demand.
LEMMA TableFits ==
  /\ DOMAIN CapacityLookup \subseteq Nat
  /\ \A i \in DOMAIN CapacityLookup :
       CapacityLookup[i].replicas \in Nat \ {0} /\ CapacityLookup[i].rps \in Nat
  /\ \A i, j \in DOMAIN CapacityLookup :
       i <= j => CapacityLookup[i].replicas <= CapacityLookup[j].replicas
<1>1. CapacityLookup \in Seq([replicas : Nat \ {0}, rps : Nat])
      /\ \A i, j \in DOMAIN CapacityLookup :
           i < j => CapacityLookup[i].replicas < CapacityLookup[j].replicas
  BY SuitePolicyAssumption DEF IsCapacityLookup
<1>2. DOMAIN CapacityLookup \subseteq Nat
      /\ \A i \in DOMAIN CapacityLookup :
           CapacityLookup[i].replicas \in Nat \ {0} /\ CapacityLookup[i].rps \in Nat
  <2>1. DOMAIN CapacityLookup = 1..Len(CapacityLookup) /\ Len(CapacityLookup) \in Nat
    BY <1>1
  <2>2. \A i \in DOMAIN CapacityLookup :
          CapacityLookup[i] \in [replicas : Nat \ {0}, rps : Nat]
    BY <1>1, <2>1, ElementOfSeq
  <2> QED BY <2>1, <2>2
<1>3. ASSUME NEW i \in DOMAIN CapacityLookup, NEW j \in DOMAIN CapacityLookup, i <= j
      PROVE  CapacityLookup[i].replicas <= CapacityLookup[j].replicas
  <2>1. i = j \/ i < j
    BY <1>2, <1>3
  <2> QED BY <1>1, <1>2, <2>1
<1> QED BY <1>2, <1>3

\* A demand is held by the first fitting point of the table, or by none.
LEMMA RequiredIsListed ==
  ASSUME NEW demand
  PROVE  /\ RequiredReplicas(CapacityLookup, demand) \in Nat
         /\ RequiredReplicas(CapacityLookup, demand) # NoReplicas =>
              \E i \in Fitting(CapacityLookup, demand) :
                /\ RequiredReplicas(CapacityLookup, demand) = CapacityLookup[i].replicas
                /\ \A j \in Fitting(CapacityLookup, demand) : i <= j
<1> DEFINE F == Fitting(CapacityLookup, demand)
<1>1. F \subseteq DOMAIN CapacityLookup
  BY DEF Fitting
<1>2. ASSUME F # {} PROVE Min(F) \in F /\ \A j \in F : Min(F) <= j
  BY <1>1, <1>2, TableFits, MinNat
<1> QED BY <1>1, <1>2, TableFits DEF RequiredReplicas, NoReplicas

\* A larger demand never requires fewer replicas, and what holds it holds the smaller one.
LEMMA RequiredGrows ==
  ASSUME NEW low \in Int, NEW high \in Int, 0 <= low, low <= high,
         RequiredReplicas(CapacityLookup, high) # NoReplicas
  PROVE  /\ RequiredReplicas(CapacityLookup, low) # NoReplicas
         /\ RequiredReplicas(CapacityLookup, low) <= RequiredReplicas(CapacityLookup, high)
<1> DEFINE F(demand) == Fitting(CapacityLookup, demand)
<1>1. PICK j \in F(high) :
        RequiredReplicas(CapacityLookup, high) = CapacityLookup[j].replicas
  BY RequiredIsListed
<1>2. F(low) \subseteq Nat /\ F(low) \subseteq DOMAIN CapacityLookup /\ j \in F(low)
  BY <1>1, TableFits, ToleranceAssumption DEF Fitting
<1>3. PICK i \in F(low) : i = Min(F(low)) /\ i <= j
  BY <1>2, MinNat
<1>4. RequiredReplicas(CapacityLookup, low) = CapacityLookup[i].replicas
  BY <1>2, <1>3 DEF RequiredReplicas
<1>5. i \in DOMAIN CapacityLookup /\ j \in DOMAIN CapacityLookup
  BY <1>2, <1>3
<1>6. CapacityLookup[i].replicas \in Nat \ {0}
      /\ CapacityLookup[i].replicas <= CapacityLookup[j].replicas
  BY <1>3, <1>5, TableFits
<1> HIDE DEF F
<1> QED BY <1>1, <1>4, <1>6 DEF NoReplicas

\* Whatever the lookup returns, the bounds make a legal count of it.
LEMMA BoundedCount ==
  ASSUME NEW raw \in Nat
  PROVE  /\ Replay!RefBounded(raw) \in Counts
         /\ Replay!RefBounded(raw) = IF raw < MinReplicas THEN MinReplicas
                                     ELSE IF raw > MaxReplicas THEN MaxReplicas ELSE raw
<1>1. Max({MinReplicas, raw}) = IF MinReplicas >= raw THEN MinReplicas ELSE raw
  BY ReplayNumbers, MaxOfTwo
<1>2. ASSUME NEW m \in Nat
      PROVE  Min({MaxReplicas, m}) = IF MaxReplicas <= m THEN MaxReplicas ELSE m
  BY ReplayNumbers, MinOfTwo
<1> QED BY <1>1, <1>2, ReplayNumbers, SameOperators DEF Replay!RefBounded, Counts

Asked(rate) == Replay!RefBounded(Replay!RawReplicas(rate))
Servable(rate) ==
  rate \in Int /\ RequiredReplicas(CapacityLookup, rate * SafetyFactor) # NoReplicas

LEMMA AskedIsLegal ==
  ASSUME NEW rate
  PROVE  Asked(rate) \in Counts
BY RequiredIsListed, BoundedCount, SameOperators DEF Asked, Replay!RawReplicas

\* A larger demand never asks for fewer replicas.
LEMMA AskedGrows ==
  ASSUME NEW low, NEW high, Servable(low), Servable(high), low <= high
  PROVE  Asked(low) <= Asked(high)
<1>1. PICK a \in Int : a = low * SafetyFactor
  BY ReplayNumbers DEF Servable
<1>2. PICK b \in Int : b = high * SafetyFactor
  BY ReplayNumbers DEF Servable
<1>3. a <= b
  <2>1. PICK gap \in Nat : high = low + gap
    BY DEF Servable
  <2>2. gap * SafetyFactor \in Nat
    BY <2>1, ReplayNumbers
  <2>3. b = a + gap * SafetyFactor
    BY <1>1, <1>2, <2>1, ReplayNumbers DEF Servable
  <2> QED BY <1>1, <2>2, <2>3
<1> DEFINE ra == RequiredReplicas(CapacityLookup, a)
           rb == RequiredReplicas(CapacityLookup, b)
<1>4. ra # NoReplicas /\ rb # NoReplicas /\ 0 <= a
  BY <1>1, <1>2 DEF Servable, RequiredReplicas
<1>7. ra <= rb
  BY <1>3, <1>4, RequiredGrows
<1>8. ra \in Nat /\ rb \in Nat /\ Replay!RawReplicas(low) = ra /\ Replay!RawReplicas(high) = rb
  BY <1>1, <1>2, RequiredIsListed, SameOperators DEF Replay!RawReplicas
<1> HIDE DEF ra, rb
<1>9. Replay!RefBounded(ra) <= Replay!RefBounded(rb)
  BY <1>7, <1>8, BoundedCount, ReplayNumbers
<1> QED BY <1>8, <1>9 DEF Asked

-----------------------------------------------------------------------------
(* One replay.                                                             *)

\* Where the command goes: to the queue's maximum, one step down at most.
Moved(prior, stable) ==
  IF stable >= prior - MaxScaleDownStep THEN stable ELSE prior - MaxScaleDownStep

\* The queue takes the newest sample and drops the oldest when it is full.
LEMMA RememberedQueue ==
  ASSUME NEW q \in Seq(Counts), Len(q) <= Keep, NEW b \in Counts
  PROVE  LET r == Replay!Remember(q, b, Keep)
             dropped == IF Len(q) < Keep THEN 0 ELSE 1
         IN  /\ r \in Seq(Counts) /\ Len(r) = Len(q) + 1 - dropped
             /\ r[Len(r)] = b
             /\ \A x \in 1..(Len(r) - 1) : x + dropped \in 1..Len(q) /\ r[x] = q[x + dropped]
<1> DEFINE a == Append(q, b)
<1>1. /\ a \in Seq(Counts) /\ Len(a) = Len(q) + 1 /\ a[Len(a)] = b
      /\ \A x \in 1..Len(q) : a[x] = q[x]
      /\ Len(q) \in Nat
  BY AppendProperties
<1>2. CASE Len(q) < Keep
  BY <1>1, <1>2, ReplayNumbers DEF Replay!Remember
<1>3. CASE ~ (Len(q) < Keep)
  <2> HIDE DEF a
  <2>1. Len(q) = Keep /\ a # << >>
    BY <1>1, <1>3, ReplayNumbers
  <2>2. PICK t : t = Tail(a)
    OBVIOUS
  <2>3. /\ t \in Seq(Counts) /\ Len(t) = Len(q)
        /\ \A x \in 1..Len(q) : t[x] = a[x + 1]
    BY <1>1, <2>1, <2>2, HeadTailProperties
  <2>4. t[Len(q)] = b /\ \A x \in 1..(Len(q) - 1) : x + 1 \in 1..Len(q) /\ t[x] = q[x + 1]
    BY <1>1, <2>1, <2>3, ReplayNumbers
  <2>5. Replay!Remember(q, b, Keep) = t
    BY <1>3, <2>2 DEF Replay!Remember, a
  <2>6. /\ t \in Seq(Counts) /\ Len(t) = Len(q) + 1 - 1
        /\ t[Len(t)] = b
        /\ \A x \in 1..(Len(t) - 1) : x + 1 \in 1..Len(q) /\ t[x] = q[x + 1]
    BY <1>1, <2>3, <2>4
  <2> QED BY <1>3, <2>5, <2>6
<1> QED BY <1>1, <1>2, <1>3

\* The stabilized count is the largest sample of the queue.
LEMMA StableOfQueue ==
  ASSUME NEW q \in Seq(Counts), Len(q) # 0
  PROVE  /\ Replay!Stable(q) \in Counts
         /\ \A x \in 1..Len(q) : q[x] <= Replay!Stable(q)
         /\ \E x \in 1..Len(q) : q[x] = Replay!Stable(q)
<1> DEFINE S == {q[x] : x \in DOMAIN q}
<1>1. DOMAIN q = 1..Len(q) /\ Len(q) \in Nat
  OBVIOUS
<1>2. S \subseteq Nat /\ S # {} /\ S \subseteq Counts /\ \A y \in S : y <= MaxReplicas
  BY <1>1, ReplayNumbers DEF Counts
<1>3. Max(S) \in S /\ \A y \in S : y <= Max(S)
  BY <1>2, ReplayNumbers, MaxNat
<1> QED BY <1>1, <1>2, <1>3, SameOperators DEF Replay!Stable

\* A command that covers the queue moves to its maximum, step by step downwards, and covers it.
LEMMA MoveFollowsStable ==
  ASSUME NEW p \in Counts, NEW b \in Counts, NEW s \in Counts, b <= s, s = b \/ s <= p
  PROVE  /\ Replay!ReplayMove(p, b, s) = Moved(p, s)
         /\ Moved(p, s) \in Counts /\ s <= Moved(p, s)
<1>1. p \in Nat /\ b \in Nat /\ s \in Nat /\ p - MaxScaleDownStep \in Int
  BY ReplayNumbers DEF Counts
<1>2. Max({s, p - MaxScaleDownStep}) = Moved(p, s)
  BY <1>1, MaxOfTwo DEF Moved
<1>3. Moved(p, s) \in Counts /\ s <= Moved(p, s)
  BY <1>1, ReplayNumbers DEF Moved, Counts
<1> QED BY <1>1, <1>2, <1>3, ReplayNumbers, SameOperators DEF Replay!ReplayMove, Moved

\* One decision of a replay: the queue that is left, and the command.
LEMMA OneDecision ==
  ASSUME NEW q \in Seq(Counts), Len(q) <= Keep, NEW p \in Counts, NEW b \in Counts,
         \A x \in 1..Len(q) : q[x] <= p
  PROVE  LET r == Replay!Remember(q, b, Keep)
             c == Replay!ReplayMove(p, b, Replay!Stable(r))
         IN  c = Moved(p, Replay!Stable(r)) /\ c \in Counts /\ \A x \in 1..Len(r) : r[x] <= c
<1> DEFINE r == Replay!Remember(q, b, Keep)
           s == Replay!Stable(r)
           dropped == IF Len(q) < Keep THEN 0 ELSE 1
<1>1. /\ r \in Seq(Counts) /\ Len(r) = Len(q) + 1 - dropped
      /\ r[Len(r)] = b
      /\ \A x \in 1..(Len(r) - 1) : x + dropped \in 1..Len(q) /\ r[x] = q[x + dropped]
  BY RememberedQueue
<1>2. Len(r) \in Nat \ {0}
  BY <1>1, ReplayNumbers
<1>3. s \in Counts /\ (\A x \in 1..Len(r) : r[x] <= s) /\ \E x \in 1..Len(r) : r[x] = s
  BY <1>1, <1>2, StableOfQueue
<1> HIDE DEF r, s, dropped
<1>4. b <= s
  BY <1>1, <1>2, <1>3
<1>5. s = b \/ s <= p
  <2>1. PICK x \in 1..Len(r) : r[x] = s
    BY <1>3
  <2>2. x = Len(r) \/ x \in 1..(Len(r) - 1)
    BY <1>2, <2>1
  <2> QED BY <1>1, <2>1, <2>2
<1>6. /\ Replay!ReplayMove(p, b, s) = Moved(p, s)
      /\ Moved(p, s) \in Counts /\ s <= Moved(p, s)
  BY <1>3, <1>4, <1>5, MoveFollowsStable
<1>7. \A x \in 1..Len(r) : r[x] \in Nat /\ r[x] <= Moved(p, s)
  BY <1>1, <1>3, <1>6, ReplayNumbers DEF Counts
<1> QED BY <1>6, <1>7 DEF r, s

-----------------------------------------------------------------------------
(* The traces: whole numbers of units, one for each second from 0.         *)

LEMMA Rates ==
  /\ Rps \in Nat /\ Baseline \in Int
  /\ \A part \in Int, whole \in Nat \ {0} : Rise(part, whole) \in Int
<1>1. Rps \in Nat
  BY RpsAssumption
<1>2. ASSUME NEW part \in Int, NEW whole \in Nat \ {0} PROVE Rise(part, whole) \in Int
  <2>1. PICK n \in Int : n = 35 * Rps * part
    BY <1>1
  <2> QED BY <2>1 DEF Rise
<1> QED BY <1>1, <1>2 DEF Baseline

\* Every trace has a length, and a sample for each second of it.
LEMMA TraceShape ==
  ASSUME NEW tr \in DOMAIN TraceDefs
  PROVE  \E n \in Nat \ {0} : /\ DOMAIN ValuesOf(tr) = 0..(n - 1)
                              /\ Duration(ValuesOf(tr)) = n
                              /\ \A t \in 0..(n - 1) : ValuesOf(tr)[t] \in Int
<1> DEFINE Shaped(values) == \E n \in Nat \ {0} : /\ DOMAIN values = 0..(n - 1)
                                                  /\ \A t \in 0..(n - 1) : values[t] \in Int
<1>1. Shaped(RampTrace)
  <2>1. \A t \in 0..479 : RampTrace[t] \in Int
    <3> SUFFICES ASSUME NEW t \in 0..479 PROVE RampTrace[t] \in Int
      OBVIOUS
    <3>1. /\ Baseline \in Int /\ Rise(1, 1) \in Int /\ Rise(t - 59, 180) \in Int
          /\ Rise(t - 299, 120) \in Int
      BY Rates
    <3> QED BY <3>1 DEF RampTrace
  <2>2. DOMAIN RampTrace = 0..479
    BY DEF RampTrace
  <2>3. PICK n \in Nat \ {0} : n = 480
    OBVIOUS
  <2>4. 0..(n - 1) = 0..479
    BY <2>3
  <2> QED BY <2>1, <2>2, <2>4
<1>2. ASSUME NEW n \in Nat \ {0}, NEW peak PROVE Shaped(PulseTrace(n, peak))
  <2>1. Baseline \in Int /\ Rise(1, 1) \in Int
    BY Rates
  <2>2. \A t \in 0..(n - 1) : PulseTrace(n, peak)[t] \in Int
    BY <2>1 DEF PulseTrace
  <2>3. DOMAIN PulseTrace(n, peak) = 0..(n - 1)
    BY DEF PulseTrace
  <2> QED BY <2>2, <2>3
<1>3. Shaped(PeriodicTrace)
  <2>1. \A t \in 0..719 : PeriodicTrace[t] \in Int
    <3> SUFFICES ASSUME NEW t \in 0..719 PROVE PeriodicTrace[t] \in Int
      OBVIOUS
    <3> DEFINE phase == (t - 60) % 120
    <3>1. phase \in Int
      OBVIOUS
    <3>2. /\ Baseline \in Int /\ Rise(1, 1) \in Int /\ Rise(phase, 60) \in Int
          /\ Rise(phase - 60, 60) \in Int
      BY <3>1, Rates
    <3> HIDE DEF phase
    <3>3. PeriodicTrace[t] = IF t \notin 60..659 THEN Baseline
                             ELSE IF phase <= 60 THEN Baseline + Rise(phase, 60)
                             ELSE Baseline + Rise(1, 1) - Rise(phase - 60, 60)
      BY DEF PeriodicTrace, phase
    <3>4. /\ Baseline + Rise(phase, 60) \in Int
          /\ Baseline + Rise(1, 1) - Rise(phase - 60, 60) \in Int
      BY <3>2
    <3>5. CASE t \notin 60..659
      <4>1. PeriodicTrace[t] = Baseline
        BY <3>3, <3>5
      <4> QED BY <3>2, <4>1, Zenon
    <3>6. CASE t \in 60..659 /\ phase <= 60
      <4>1. PeriodicTrace[t] = Baseline + Rise(phase, 60)
        BY <3>3, <3>6, Zenon
      <4> QED BY <3>4, <4>1, Zenon
    <3>7. CASE t \in 60..659 /\ ~(phase <= 60)
      <4>1. PeriodicTrace[t] = Baseline + Rise(1, 1) - Rise(phase - 60, 60)
        BY <3>3, <3>7, Zenon
      <4> QED BY <3>4, <4>1, Zenon
    <3> QED BY <3>5, <3>6, <3>7
  <2>2. DOMAIN PeriodicTrace = 0..719
    BY DEF PeriodicTrace
  <2>3. PICK n \in Nat \ {0} : n = 720
    OBVIOUS
  <2>4. 0..(n - 1) = 0..719
    BY <2>3
  <2>5. DOMAIN PeriodicTrace = 0..(n - 1)
    BY <2>2, <2>4
  <2>6. \A t \in 0..(n - 1) : PeriodicTrace[t] \in Int
    BY <2>1, <2>4, Zenon
  <2> QED BY <2>5, <2>6, Zenon
<1>4. Shaped(StableNoisyTrace)
  <2>1. \A t \in 0..239 : StableNoisyTrace[t] \in Int
    <3> SUFFICES ASSUME NEW t \in 0..239 PROVE StableNoisyTrace[t] \in Int
      OBVIOUS
    <3>1. PICK k \in 1..8 : k = (t % 8) + 1
      OBVIOUS
    <3>2. <<23, 24, 25, 26, 27, 26, 25, 24>>[k] \in Int
      OBVIOUS
    <3>3. PICK m \in Int : m = <<23, 24, 25, 26, 27, 26, 25, 24>>[k]
      BY <3>2
    <3>4. StableNoisyTrace[t] = Rps * <<23, 24, 25, 26, 27, 26, 25, 24>>[(t % 8) + 1]
      BY DEF StableNoisyTrace
    <3>5. StableNoisyTrace[t] = Rps * m
      BY <3>1, <3>3, <3>4
    <3>6. PICK r \in Nat : r = Rps
      BY Rates
    <3>7. r * m \in Int
      BY <3>3
    <3> QED BY <3>5, <3>6, <3>7
  <2>2. DOMAIN StableNoisyTrace = 0..239
    BY DEF StableNoisyTrace
  <2>3. PICK n \in Nat \ {0} : n = 240
    OBVIOUS
  <2>4. 0..(n - 1) = 0..239
    BY <2>3
  <2> QED BY <2>1, <2>2, <2>4
<1>5. Shaped(ValuesOf(tr))
  <2> HIDE DEF Shaped
  <2>a. 180 \in Nat \ {0} /\ 360 \in Nat \ {0}
    OBVIOUS
  <2>1. Shaped(PulseTrace(180, 60..89)) /\ Shaped(PulseTrace(360, 60..239))
    BY <1>2, <2>a
  <2>2. tr \in {"ramp", "spike", "sustained", "periodic", "control"}
    BY DEF TraceDefs
  <2>3. ValuesOf(tr) \in {RampTrace, PulseTrace(180, 60..89), PulseTrace(360, 60..239),
                          PeriodicTrace, StableNoisyTrace}
    BY <2>2 DEF ValuesOf, TraceDefs
  <2> QED BY <1>1, <1>3, <1>4, <2>1, <2>3
<1>6. ASSUME NEW n \in Nat \ {0} PROVE Cardinality(0..(n - 1)) = n
  <2>1. n - 1 \in Int /\ 0 \in Int
    OBVIOUS
  <2>2. Cardinality(0..(n - 1)) = IF 0 > n - 1 THEN 0 ELSE (n - 1) - 0 + 1
    BY <2>1, FS_Interval
  <2> QED BY <2>2
<1> QED BY <1>5, <1>6 DEF Duration

\* Looking a horizon ahead, the last sample standing for all later ones.
LEMMA SampleAhead ==
  ASSUME NEW tr \in DOMAIN TraceDefs, NEW t \in Nat
  PROVE  /\ Servable(ValueAt(ValuesOf(tr), t))
         /\ t \in DOMAIN ValuesOf(tr) => ValueAt(ValuesOf(tr), t) = ValuesOf(tr)[t]
<1>1. PICK n \in Nat \ {0} : /\ DOMAIN ValuesOf(tr) = 0..(n - 1)
                             /\ Duration(ValuesOf(tr)) = n
                             /\ \A s \in 0..(n - 1) : ValuesOf(tr)[s] \in Int
  BY TraceShape
<1>2. Max({t, 0}) = t
  BY MaxOfTwo
<1>3. Min({t, n - 1}) = IF t <= n - 1 THEN t ELSE n - 1
  BY MinOfTwo
<1>a. PICK s \in 0..(n - 1) : s = IF t <= n - 1 THEN t ELSE n - 1
  OBVIOUS
<1>4. ValueAt(ValuesOf(tr), t) = ValuesOf(tr)[s] /\ (t \in 0..(n - 1) => s = t)
  <2>1. ValueAt(ValuesOf(tr), t) = ValuesOf(tr)[Min({t, n - 1})]
    BY <1>1, <1>2, Zenon DEF ValueAt
  <2>2. Min({t, n - 1}) = s
    BY <1>3, <1>a
  <2> QED BY <1>a, <2>1, <2>2
<1> QED BY <1>1, <1>4, DemandAssumption DEF Servable

\* The oracle forecast: servable, for as many seconds as the trace has, a horizon later.
LEMMA OracleShape ==
  ASSUME NEW tr \in DOMAIN TraceDefs
  PROVE  /\ \E n \in Nat : DOMAIN OracleForecasts[tr] = Horizon..(Horizon + n - 1)
         /\ \A t \in DOMAIN OracleForecasts[tr] : Servable(OracleForecasts[tr][t])
<1>1. PICK n \in Nat \ {0} : Duration(ValuesOf(tr)) = n
  BY TraceShape
<1> DEFINE targets == Horizon..(Horizon + n - 1)
<1>2. OracleForecasts[tr] = [t \in targets |-> ValueAt(ValuesOf(tr), t)]
  BY <1>1 DEF OracleForecasts
<1>3. \A t \in targets : t \in Nat
  BY ReplayNumbers
<1> HIDE DEF targets
<1>4. \A t \in targets : Servable(ValueAt(ValuesOf(tr), t))
  BY <1>3, SampleAhead
<1> QED BY <1>2, <1>4 DEF targets

-----------------------------------------------------------------------------
(* Both replays of one mutation, side by side.                             *)

Lower == {t \in changed : forecast[t] < base[t]}   \* the underforecast targets

ForecastsOK ==
  /\ \E n \in Nat : DOMAIN base = Horizon..(Horizon + n - 1)
  /\ DOMAIN forecast = DOMAIN base
  /\ changed = {t \in DOMAIN base : base[t] # forecast[t]}
  /\ \A t \in DOMAIN base : Servable(base[t]) /\ Servable(forecast[t])

\* Every command covers its queue, and the queues have grown alike.
ReplaysOK ==
  /\ queues \in [Forecasts -> Seq(Counts)] /\ commands \in [Forecasts -> Seq(Counts)]
  /\ Len(commands["mutated"]) = Decided
  /\ Len(queues["mutated"]) = Len(queues["oracle"])
  /\ Len(queues["oracle"]) <= Keep
  /\ \A f \in Forecasts : \A x \in 1..Len(queues[f]) : queues[f][x] <= Prior(commands, f)

\* The target of a sample of the queues.
TargetOf(x) == Horizon + Decided - Len(queues["oracle"]) + x - 1

\* The samples of the queues differ as the forecasts do.
QueuesOK ==
  \A x \in 1..Len(queues["oracle"]) :
    /\ queues["mutated"][x] < queues["oracle"][x] => TargetOf(x) \in Lower
    /\ queues["mutated"][x] > queues["oracle"][x] => TargetOf(x) \in changed \ Lower

\* No change entered the queues, and none was in them, for the last j decisions.
Quiet(j) == \A t \in changed : Decided - 1 \notin (t - Horizon)..(t - Horizon + Keep - 2 + j)

\* As long as the commands differ while all is quiet, the larger one comes down.
EffectOK ==
  \A j \in 0..Span :
    Quiet(j) /\ Prior(commands, "oracle") # Prior(commands, "mutated") =>
      \A f \in Forecasts : Prior(commands, f) <= MaxReplicas - j

SignsOK ==
  \A i \in 1..Decided :
    /\ (\A t \in Lower : Horizon + i - 1 < t) => commands["mutated"][i] >= commands["oracle"][i]
    /\ (\A t \in changed \ Lower : Horizon + i - 1 < t)
         => commands["mutated"][i] <= commands["oracle"][i]

\* The numbers of a replay.
LEMMA ReplayTypes ==
  ASSUME ReplaysOK
  PROVE  /\ Decided \in Nat /\ Len(queues["oracle"]) \in Nat
         /\ \A f \in Forecasts :
              /\ queues[f] \in Seq(Counts) /\ Len(queues[f]) = Len(queues["oracle"])
              /\ commands[f] \in Seq(Counts) /\ Len(commands[f]) = Decided
              /\ Prior(commands, f) \in Counts
<1>1. ASSUME NEW f \in Forecasts
      PROVE  /\ queues[f] \in Seq(Counts) /\ Len(queues[f]) = Len(queues["oracle"])
             /\ commands[f] \in Seq(Counts) /\ Len(commands[f]) = Decided
  BY DEF ReplaysOK, Forecasts, Decided
<1>2. Decided \in Nat /\ Len(queues["oracle"]) \in Nat
  <2>1. "oracle" \in Forecasts
    BY DEF Forecasts
  <2> QED BY <1>1, <2>1
<1>3. ASSUME NEW f \in Forecasts PROVE Prior(commands, f) \in Counts
  <2>1. PICK cs \in Seq(Counts) : cs = commands[f]
    BY <1>1
  <2>2. cs # << >> => cs[Len(cs)] \in Counts
    BY <2>1
  <2> QED BY <2>1, <2>2, ReplayNumbers DEF Prior
<1> QED BY <1>1, <1>2, <1>3

\* What a decision does to one of the replays.
LEMMA ReplayStep ==
  ASSUME ReplaysOK, ReplayDecision, NEW f \in Forecasts
  PROVE  LET target  == Horizon + Decided
             n       == Len(queues["oracle"])
             dropped == IF n < Keep THEN 0 ELSE 1
         IN  /\ target \in DOMAIN base
             /\ queues'[f] \in Seq(Counts) /\ Len(queues'[f]) = n + 1 - dropped
             /\ queues'[f][n + 1 - dropped] = Asked(RateOf(f, target))
             /\ \A x \in 1..(n - dropped) :
                  x + dropped \in 1..n /\ queues'[f][x] = queues[f][x + dropped]
             /\ \A x \in 1..(n + 1 - dropped) : queues'[f][x] <= Prior(commands', f)
             /\ commands'[f] = Append(commands[f], Prior(commands', f))
             /\ Prior(commands', f) = Moved(Prior(commands, f), Replay!Stable(queues'[f]))
             /\ Prior(commands', f) \in Counts
<1> DEFINE target  == Horizon + Decided
           n       == Len(queues["oracle"])
           dropped == IF n < Keep THEN 0 ELSE 1
           b == Asked(RateOf(f, target))
           q == queues[f]
           p == Prior(commands, f)
           r == Replay!Remember(q, b, Keep)
           c == Replay!ReplayMove(p, b, Replay!Stable(r))
<1>1. /\ target \in DOMAIN base
      /\ queues'[f] = r
      /\ commands'[f] = Append(commands[f], c)
  BY DEF ReplayDecision, Asked, Decided, Keep
<1>2. /\ n \in Nat /\ q \in Seq(Counts) /\ Len(q) = n /\ n <= Keep /\ p \in Counts
      /\ commands[f] \in Seq(Counts)
      /\ \A x \in 1..n : q[x] <= p
  <2>1. n \in Nat /\ q \in Seq(Counts) /\ Len(q) = n /\ n <= Keep
    BY ReplayTypes DEF ReplaysOK
  <2>2. p \in Counts /\ commands[f] \in Seq(Counts)
    BY ReplayTypes DEF ReplaysOK
  <2>3. \A x \in 1..n : q[x] <= p
    BY ReplayTypes DEF ReplaysOK
  <2> QED BY <2>1, <2>2, <2>3
<1>3. b \in Counts
  BY AskedIsLegal
<1> HIDE DEF b, q, p
<1>4. /\ r \in Seq(Counts) /\ Len(r) = n + 1 - dropped /\ r[Len(r)] = b
      /\ \A x \in 1..(Len(r) - 1) : x + dropped \in 1..n /\ r[x] = q[x + dropped]
  <2>1. Len(q) = n /\ Len(q) <= Keep /\ dropped = IF Len(q) < Keep THEN 0 ELSE 1
    BY <1>2
  <2> HIDE DEF n, dropped, r
  <2>2. /\ r \in Seq(Counts) /\ r[Len(r)] = b
        /\ Len(r) = Len(q) + 1 - dropped
        /\ \A x \in 1..(Len(r) - 1) : x + dropped \in 1..Len(q) /\ r[x] = q[x + dropped]
    BY <1>2, <1>3, <2>1, RememberedQueue DEF r
  <2> QED BY <2>1, <2>2
<1>5. c = Moved(p, Replay!Stable(r)) /\ c \in Counts /\ \A x \in 1..Len(r) : r[x] <= c
  BY <1>2, <1>3, OneDecision
<1> HIDE DEF r, c
<1>6. Prior(commands', f) = c
  <2>1. PICK cs \in Seq(Counts) : cs = commands[f]
    BY <1>2
  <2>2. Append(cs, c) # << >> /\ Append(cs, c)[Len(Append(cs, c))] = c
    BY <1>5, <2>1, AppendProperties
  <2> QED BY <1>1, <2>1, <2>2 DEF Prior
<1>7. Len(r) - 1 = n - dropped
  BY <1>2, <1>4, ReplayNumbers
<1> QED BY <1>1, <1>4, <1>5, <1>6, <1>7 DEF b, q, p, r

\* The maximum of the queue grows with its samples.
LEMMA StableGrows ==
  ASSUME NEW q \in Seq(Counts), NEW r \in Seq(Counts), Len(q) = Len(r), Len(q) # 0,
         \A x \in 1..Len(q) : q[x] <= r[x]
  PROVE  Replay!Stable(q) <= Replay!Stable(r)
<1>1. PICK x \in 1..Len(q) : q[x] = Replay!Stable(q)
  BY StableOfQueue
<1>2. r[x] <= Replay!Stable(r) /\ Replay!Stable(r) \in Counts /\ Replay!Stable(q) \in Counts
  BY <1>1, StableOfQueue
<1>3. r[x] \in Counts
  BY <1>1
<1> QED BY <1>1, <1>2, <1>3, ReplayNumbers DEF Counts

\* Two commands keep their order, and two that differ after moving towards the same count
\* have both come down.
LEMMA TwoMoves ==
  ASSUME NEW p \in Counts, NEW u \in Counts, NEW s \in Counts, NEW v \in Counts
  PROVE  /\ p >= u /\ s >= v => Moved(p, s) >= Moved(u, v)
         /\ Moved(p, s) # Moved(u, s) =>
              p # u /\ \A h \in Int :
                         p <= h /\ u <= h => Moved(p, s) <= h - 1 /\ Moved(u, s) <= h - 1
BY ReplayNumbers DEF Counts, Moved

\* The next decision keeps all this.
LEMMA DecisionKeepsReplays ==
  ASSUME ForecastsOK, ReplaysOK, QueuesOK, EffectOK, SignsOK, ReplayDecision
  PROVE  ForecastsOK' /\ ReplaysOK' /\ QueuesOK' /\ EffectOK' /\ SignsOK'
<1> DEFINE k       == Decided
           n       == Len(queues["oracle"])
           dropped == IF n < Keep THEN 0 ELSE 1
           target  == Horizon + k
           left    == n + 1 - dropped
           S(f)    == Replay!Stable(queues'[f])
<1>1. UNCHANGED <<base, forecast, changed>>
  BY DEF ReplayDecision
<1>2. /\ k \in Nat /\ n \in Nat /\ n <= Keep /\ dropped \in {0, 1} /\ dropped <= n
      /\ left \in Nat \ {0} /\ left <= Keep
  BY ReplayTypes, ReplayNumbers DEF ReplaysOK
<1>3. target \in DOMAIN base
  BY ReplayStep DEF Forecasts
<1>4. ASSUME NEW f \in Forecasts
      PROVE  /\ queues'[f] \in Seq(Counts) /\ Len(queues'[f]) = left
             /\ queues'[f][left] = Asked(RateOf(f, target))
             /\ \A x \in 1..(n - dropped) :
                  x + dropped \in 1..n /\ queues'[f][x] = queues[f][x + dropped]
             /\ \A x \in 1..left : queues'[f][x] <= Prior(commands', f)
             /\ commands'[f] = Append(commands[f], Prior(commands', f))
             /\ Prior(commands', f) = Moved(Prior(commands, f), S(f))
             /\ Prior(commands', f) \in Counts
  BY ReplayStep
<1>5. ASSUME NEW f \in Forecasts
      PROVE  /\ commands[f] \in Seq(Counts) /\ Len(commands[f]) = k
             /\ commands'[f] \in Seq(Counts) /\ Len(commands'[f]) = k + 1
             /\ commands'[f][k + 1] = Prior(commands', f)
             /\ \A i \in 1..k : commands'[f][i] = commands[f][i]
             /\ Prior(commands, f) \in Counts
             /\ k = 0 => Prior(commands, f) = InitialReplicas
             /\ k # 0 => Prior(commands, f) = commands[f][k]
  <2>1. /\ commands[f] \in Seq(Counts) /\ Len(commands[f]) = k /\ Prior(commands, f) \in Counts
    BY ReplayTypes
  <2>2. PICK cs \in Seq(Counts), c \in Counts :
          cs = commands[f] /\ c = Prior(commands', f) /\ commands'[f] = Append(cs, c)
    BY <1>4, <2>1
  <2>3. /\ Append(cs, c) \in Seq(Counts) /\ Len(Append(cs, c)) = k + 1
        /\ Append(cs, c)[k + 1] = c /\ \A i \in 1..k : Append(cs, c)[i] = cs[i]
    BY <2>1, <2>2, AppendProperties
  <2>4. (k = 0 <=> cs = << >>)
    BY <2>1, <2>2
  <2>5. /\ k = 0 => Prior(commands, f) = InitialReplicas
        /\ k # 0 => Prior(commands, f) = commands[f][k]
    BY <2>1, <2>2, <2>4 DEF Prior
  <2> QED BY <2>1, <2>2, <2>3, <2>5
<1> HIDE DEF k, n, dropped, target, left, S
<1>6. /\ "oracle" \in Forecasts /\ "mutated" \in Forecasts
      /\ \A f \in Forecasts : f = "oracle" \/ f = "mutated"
  BY DEF Forecasts
<1>7. Decided' = k + 1 /\ Len(queues'["oracle"]) = left
  BY <1>4, <1>5, <1>6 DEF Decided
<1>8. ForecastsOK'
  BY <1>1 DEF ForecastsOK
<1>9. ReplaysOK'
  <2>1. queues' \in [Forecasts -> Seq(Counts)] /\ commands' \in [Forecasts -> Seq(Counts)]
    <3>1. DOMAIN queues' = Forecasts /\ DOMAIN commands' = Forecasts
      BY DEF ReplayDecision
    <3>2. queues' = [f \in Forecasts |-> queues'[f]] /\ commands' = [f \in Forecasts |-> commands'[f]]
      BY DEF ReplayDecision
    <3> QED BY <1>4, <1>5, <3>2
  <2> QED BY <1>2, <1>4, <1>5, <1>6, <1>7, <2>1 DEF ReplaysOK
\* The targets move with the samples.
<1>10. /\ \A x \in 1..(n - dropped) : TargetOf(x)' = TargetOf(x + dropped)
       /\ \A x \in 1..left : x = left => TargetOf(x)' = target
       /\ \A x \in 1..left : k - (TargetOf(x)' - Horizon) \in 0..(Keep - 1)
       /\ \A x \in 1..left : TargetOf(x)' <= target
  <2>1. /\ \A x : TargetOf(x) = Horizon + k - n + x - 1
        /\ \A x : TargetOf(x)' = Horizon + (k + 1) - left + x - 1
    BY <1>7, Zenon DEF TargetOf, k, n
  <2>2. left = n + 1 - dropped /\ target = Horizon + k /\ Horizon \in Nat /\ Keep \in Nat
    BY ReplayNumbers DEF left, target
  <2>3. ASSUME NEW x \in 1..left
        PROVE  /\ TargetOf(x)' = Horizon + k + x - left
               /\ x \in 1..(n - dropped) => TargetOf(x + dropped) = Horizon + k + x - left
    <3>1. TargetOf(x)' = Horizon + (k + 1) - left + x - 1
          /\ TargetOf(x + dropped) = Horizon + k - n + (x + dropped) - 1
      BY <2>1
    <3>2. x \in Nat /\ left \in Nat
      BY <1>2
    <3> QED BY <1>2, <2>2, <3>1, <3>2
  <2>4. \A x \in 1..(n - dropped) : x \in 1..left
    BY <1>2, <2>2
  <2>6. \A x \in 1..left : x = left => TargetOf(x)' = target
    BY <1>2, <2>2, <2>3
  <2>7. \A x \in 1..left : k - (TargetOf(x)' - Horizon) \in 0..(Keep - 1)
    BY <1>2, <2>2, <2>3
  <2>8. \A x \in 1..left : TargetOf(x)' <= target
    BY <1>2, <2>2, <2>3
  <2> QED BY <2>3, <2>4, <2>6, <2>7, <2>8
<1>11. QueuesOK'
  <2> SUFFICES ASSUME NEW x \in 1..left
               PROVE  /\ queues'["mutated"][x] < queues'["oracle"][x] => TargetOf(x)' \in Lower
                      /\ queues'["mutated"][x] > queues'["oracle"][x] => TargetOf(x)' \in changed \ Lower
    BY <1>1, <1>7 DEF QueuesOK, Lower
  <2>1. CASE x = left
    <3>1. queues'["mutated"][x] = Asked(forecast[target]) /\ queues'["oracle"][x] = Asked(base[target])
      BY <1>4, <1>6, <2>1 DEF RateOf
    <3>2. Asked(forecast[target]) \in Nat /\ Asked(base[target]) \in Nat
      BY AskedIsLegal, ReplayNumbers DEF Counts
    <3>3. /\ Servable(base[target]) /\ Servable(forecast[target])
          /\ base[target] \in Int /\ forecast[target] \in Int
      BY <1>3 DEF ForecastsOK, Servable
    <3>4. /\ base[target] <= forecast[target] => Asked(base[target]) <= Asked(forecast[target])
          /\ forecast[target] <= base[target] => Asked(forecast[target]) <= Asked(base[target])
      BY <3>3, AskedGrows
    <3>5. base[target] # forecast[target] => target \in changed
      BY <1>3 DEF ForecastsOK
    <3>6. /\ forecast[target] < base[target] => target \in Lower
          /\ base[target] < forecast[target] => target \in changed \ Lower
      BY <3>3, <3>5 DEF Lower
    <3>7. TargetOf(x)' = target
      BY <1>10, <2>1
    <3> QED BY <3>1, <3>2, <3>3, <3>4, <3>6, <3>7
  <2>2. CASE x \in 1..(n - dropped)
    <3>1. x + dropped \in 1..n /\ TargetOf(x)' = TargetOf(x + dropped)
          /\ queues'["mutated"][x] = queues["mutated"][x + dropped]
          /\ queues'["oracle"][x] = queues["oracle"][x + dropped]
      BY <1>4, <1>6, <1>10, <2>2
    <3> QED BY <3>1 DEF QueuesOK, n
  <2> QED BY <1>2, <2>1, <2>2 DEF left
<1>12. \A f \in Forecasts : S(f) \in Counts
  BY <1>2, <1>4, StableOfQueue DEF S
<1>13. EffectOK'
  <2> SUFFICES ASSUME NEW j \in 0..Span, Quiet(j)',
                      Prior(commands', "oracle") # Prior(commands', "mutated"),
                      NEW f \in Forecasts
               PROVE  Prior(commands', f) <= MaxReplicas - j
    BY DEF EffectOK
  <2>1. CASE j = 0
    BY <1>4, <2>1, ReplayNumbers DEF Counts
  <2>2. CASE j # 0
    <3>1. j \in Nat \ {0} /\ j - 1 \in 0..Span
      BY <2>2, ReplayNumbers
    <3>2. \A t \in changed : k \notin (t - Horizon)..(t - Horizon + Keep - 2 + j) /\ t \in Int
      <4>1. \A t \in changed : t \in Int
        BY ReplayNumbers DEF ForecastsOK
      <4>2. Decided' - 1 = k
        BY <1>2, <1>7
      <4> QED BY <1>1, <4>1, <4>2 DEF Quiet
    <3>3. Quiet(j - 1)
      <4> SUFFICES ASSUME NEW t \in changed,
                          k - 1 \in (t - Horizon)..(t - Horizon + Keep - 2 + (j - 1))
                   PROVE  FALSE
        BY DEF Quiet, k
      <4>1. k \in (t - Horizon)..(t - Horizon + Keep - 2 + j)
        BY <1>2, <3>1, <3>2, ReplayNumbers
      <4> QED BY <3>2, <4>1
    <3>4. \A x \in 1..left : queues'["mutated"][x] = queues'["oracle"][x]
      <4> SUFFICES ASSUME NEW x \in 1..left
                   PROVE  queues'["mutated"][x] = queues'["oracle"][x]
        OBVIOUS
      <4>1. TargetOf(x)' \notin changed
        <5> SUFFICES ASSUME NEW t \in changed, t = TargetOf(x)' PROVE FALSE
          OBVIOUS
        <5>1. k - (t - Horizon) \in 0..(Keep - 1)
          BY <1>10
        <5>2. k \in (t - Horizon)..(t - Horizon + Keep - 2 + j)
          BY <1>2, <3>1, <3>2, <5>1, ReplayNumbers
        <5> QED BY <3>2, <5>2
      <4>2. queues'["mutated"][x] \in Counts /\ queues'["oracle"][x] \in Counts
        BY <1>4, <1>6, ElementOfSeq
      <4>3. /\ ~(queues'["mutated"][x] < queues'["oracle"][x])
            /\ ~(queues'["mutated"][x] > queues'["oracle"][x])
        BY <1>1, <1>7, <1>11, <4>1 DEF QueuesOK, Lower
      <4> QED BY <4>2, <4>3, ReplayNumbers DEF Counts
    <3>5. S("oracle") = S("mutated")
      <4>1. \A x \in 1..left : queues'["mutated"][x] \in Nat
        <5>1. \A x \in 1..left : queues'["mutated"][x] \in Counts
          BY <1>4, <1>6, ElementOfSeq
        <5> QED BY <5>1, ReplayNumbers DEF Counts
      <4>2. PICK q \in Seq(Counts), r \in Seq(Counts) :
              q = queues'["oracle"] /\ r = queues'["mutated"]
        BY <1>4, <1>6
      <4>3. /\ Len(q) = Len(r) /\ Len(q) # 0 /\ Len(r) # 0
            /\ \A x \in 1..Len(q) : q[x] <= r[x] /\ r[x] <= q[x]
        BY <1>2, <1>4, <1>6, <3>4, <4>1, <4>2
      <4>4. Replay!Stable(q) <= Replay!Stable(r)
        BY <4>3, StableGrows
      <4>5. Replay!Stable(r) <= Replay!Stable(q)
        BY <4>3, StableGrows
      <4>6. S("oracle") <= S("mutated") /\ S("mutated") <= S("oracle")
        BY <4>2, <4>4, <4>5 DEF S
      <4> QED BY <1>6, <1>12, <4>6, ReplayNumbers DEF Counts
    <3> DEFINE po == Prior(commands, "oracle")
               pm == Prior(commands, "mutated")
               s  == S("oracle")
    <3>6. /\ po \in Counts /\ pm \in Counts /\ s \in Counts
          /\ Prior(commands', "oracle") = Moved(po, s) /\ Prior(commands', "mutated") = Moved(pm, s)
      BY <1>4, <1>5, <1>6, <1>12, <3>5
    <3>7. PICK h \in Int : h = MaxReplicas - (j - 1)
      BY <3>1, ReplayNumbers
    <3>8. po # pm
      BY <3>6
    <3>9. po <= h /\ pm <= h
      BY <1>6, <3>1, <3>3, <3>7, <3>8 DEF EffectOK
    <3> HIDE DEF po, pm, s
    <3>10. Moved(po, s) <= h - 1 /\ Moved(pm, s) <= h - 1
      BY <3>6, <3>9, TwoMoves
    <3>11. h - 1 = MaxReplicas - j
      BY <3>1, <3>7, ReplayNumbers
    <3> QED BY <1>6, <3>6, <3>10, <3>11
  <2> QED BY <2>1, <2>2
<1>14. SignsOK'
  <2>1. \A t \in changed : t \in Int
    BY ReplayNumbers DEF ForecastsOK
  <2>2. \A x \in 1..left :
          queues'["mutated"][x] \in Int /\ queues'["oracle"][x] \in Int /\ TargetOf(x)' \in Int
    <3>1. \A x \in 1..left : queues'["mutated"][x] \in Counts /\ queues'["oracle"][x] \in Counts
      BY <1>4, <1>6, ElementOfSeq
    <3>2. \A x \in 1..left : TargetOf(x)' \in Int
      BY <1>2, <1>7, ReplayNumbers DEF TargetOf
    <3> QED BY <3>1, <3>2, ReplayNumbers DEF Counts
  <2> DEFINE po == Prior(commands, "oracle")
             pm == Prior(commands, "mutated")
             so == S("oracle")
             sm == S("mutated")
  <2>3. /\ po \in Counts /\ pm \in Counts /\ so \in Counts /\ sm \in Counts
        /\ commands'["oracle"][k + 1] = Moved(po, so) /\ commands'["mutated"][k + 1] = Moved(pm, sm)
    BY <1>4, <1>5, <1>6, <1>12
  <2>4. k # 0 => k \in 1..k /\ po = commands["oracle"][k] /\ pm = commands["mutated"][k]
    BY <1>2, <1>5, <1>6
  <2>5. k = 0 => po = InitialReplicas /\ pm = InitialReplicas
    BY <1>5, <1>6
  <2> HIDE DEF po, pm, so, sm
  <2>6. /\ \A i \in 1..k : commands'["oracle"][i] = commands["oracle"][i]
                           /\ commands'["mutated"][i] = commands["mutated"][i]
        /\ \A i \in 1..(k + 1) : i \in 1..k \/ i = k + 1
    BY <1>2, <1>5, <1>6
  <2>7. ASSUME \A t \in Lower : Horizon + (k + 1) - 1 < t
        PROVE  commands'["mutated"][k + 1] >= commands'["oracle"][k + 1]
    <3>1. \A x \in 1..left : queues'["oracle"][x] <= queues'["mutated"][x]
      <4> SUFFICES ASSUME NEW x \in 1..left, queues'["mutated"][x] < queues'["oracle"][x]
                   PROVE  FALSE
        BY <2>2
      <4>1. TargetOf(x)' \in Lower
        BY <1>1, <1>7, <1>11 DEF QueuesOK, Lower
      <4> QED BY <1>2, <1>10, <2>2, <2>7, <4>1, ReplayNumbers DEF target
    <3>2. so <= sm
      BY <1>2, <1>4, <1>6, <3>1, StableGrows DEF S, so, sm
    <3>3. k # 0 => \A t \in Lower : Horizon + k - 1 < t
      BY <1>2, <2>1, <2>7, ReplayNumbers DEF Lower
    <3>4. po <= pm
      <4>1. CASE k = 0
        BY <2>5, <4>1, ReplayNumbers DEF Counts
      <4>2. CASE k # 0
        <5>1. commands["mutated"][k] >= commands["oracle"][k]
          BY <2>4, <3>3, <4>2 DEF SignsOK, k
        <5> QED BY <2>3, <2>4, <4>2, <5>1, ReplayNumbers DEF Counts
      <4> QED BY <4>1, <4>2
    <3>5. pm >= po /\ sm >= so
      BY <2>3, <3>2, <3>4, ReplayNumbers DEF Counts
    <3> QED BY <2>3, <3>5, TwoMoves
  <2>8. ASSUME \A t \in changed \ Lower : Horizon + (k + 1) - 1 < t
        PROVE  commands'["mutated"][k + 1] <= commands'["oracle"][k + 1]
    <3>1. \A x \in 1..left : queues'["mutated"][x] <= queues'["oracle"][x]
      <4> SUFFICES ASSUME NEW x \in 1..left, queues'["mutated"][x] > queues'["oracle"][x]
                   PROVE  FALSE
        BY <2>2
      <4>1. TargetOf(x)' \in changed \ Lower
        BY <1>1, <1>7, <1>11 DEF QueuesOK, Lower
      <4> QED BY <1>2, <1>10, <2>2, <2>8, <4>1, ReplayNumbers DEF target
    <3>2. sm <= so
      BY <1>2, <1>4, <1>6, <3>1, StableGrows DEF S, so, sm
    <3>3. k # 0 => \A t \in changed \ Lower : Horizon + k - 1 < t
      BY <1>2, <2>1, <2>8, ReplayNumbers
    <3>4. pm <= po
      <4>1. CASE k = 0
        BY <2>5, <4>1, ReplayNumbers DEF Counts
      <4>2. CASE k # 0
        <5>1. commands["mutated"][k] <= commands["oracle"][k]
          BY <2>4, <3>3, <4>2 DEF SignsOK, k
        <5> QED BY <2>3, <2>4, <4>2, <5>1, ReplayNumbers DEF Counts
      <4> QED BY <4>1, <4>2
    <3>5. po >= pm /\ so >= sm
      BY <2>3, <3>2, <3>4, ReplayNumbers DEF Counts
    <3>6. Moved(po, so) >= Moved(pm, sm)
      BY <2>3, <3>5, TwoMoves
    <3>7. Moved(po, so) \in Int /\ Moved(pm, sm) \in Int
      BY <2>3, ReplayNumbers DEF Counts, Moved
    <3> QED BY <2>3, <3>6, <3>7
  <2>9. /\ Lower' = Lower /\ (changed \ Lower)' = changed \ Lower
    BY <1>1 DEF Lower
  <2> QED BY <1>7, <2>6, <2>7, <2>8, <2>9 DEF SignsOK, k
<1> QED BY <1>8, <1>9, <1>11, <1>13, <1>14

\* A rate that is not refused can be served.
LEMMA ValidIsServable ==
  ASSUME NEW rate \in ValidRange[1]..ValidRange[2]
  PROVE  Servable(rate)
<1>1. ValidRange[1] \in Nat /\ ValidRange[2] \in Int
  BY CatalogAssumption
<1>2. rate \in Nat /\ rate <= ValidRange[2]
  BY <1>1
<1>3. PICK a \in Nat : a = rate * SafetyFactor
  BY <1>2, ReplayNumbers
<1>4. PICK gap \in Nat : ValidRange[2] = rate + gap
  BY <1>1, <1>2
<1>5. PICK g \in Nat : g = gap * SafetyFactor
  BY ReplayNumbers
<1>6. ValidRange[2] * SafetyFactor = a + g
  BY <1>2, <1>3, <1>4, <1>5, ReplayNumbers
<1>7. RequiredReplicas(CapacityLookup, a) # NoReplicas
  BY <1>6, CatalogAssumption, RequiredGrows
<1> QED BY <1>2, <1>3, <1>7 DEF Servable

ReplayInvariant ==
  /\ catalog = << >> \/ catalog \in Catalogs
  /\ base = NoForecast => queues = NothingReplayed /\ commands = NothingReplayed
  /\ ForecastsOK /\ ReplaysOK /\ QueuesOK /\ EffectOK /\ SignsOK

\* Before the first decision there is nothing to compare.
LEMMA NothingToCompare ==
  queues = NothingReplayed /\ commands = NothingReplayed =>
    ReplaysOK /\ QueuesOK /\ EffectOK /\ SignsOK
<1> SUFFICES ASSUME queues = NothingReplayed, commands = NothingReplayed
             PROVE  ReplaysOK /\ QueuesOK /\ EffectOK /\ SignsOK
  OBVIOUS
<1>1. /\ commands["oracle"] = << >> /\ commands["mutated"] = << >>
      /\ queues["oracle"] = << >> /\ queues["mutated"] = << >>
      /\ \A f \in Forecasts : queues[f] = << >> /\ commands[f] = << >>
  BY DEF NothingReplayed, Forecasts
<1>2. Decided = 0 /\ Len(queues["oracle"]) = 0 /\ \A f \in Forecasts : Len(queues[f]) = 0
  BY <1>1 DEF Decided
<1>3. Prior(commands, "oracle") = Prior(commands, "mutated")
  BY <1>1 DEF Prior
<1>4. queues \in [Forecasts -> Seq(Counts)] /\ commands \in [Forecasts -> Seq(Counts)]
  <2>1. << >> \in Seq(Counts)
    OBVIOUS
  <2> QED BY <2>1 DEF NothingReplayed
<1>5. ReplaysOK
  BY <1>1, <1>2, <1>4, ReplayNumbers DEF ReplaysOK
<1>6. QueuesOK /\ SignsOK
  BY <1>2 DEF QueuesOK, SignsOK
<1>7. EffectOK
  BY <1>3 DEF EffectOK
<1> QED BY <1>5, <1>6, <1>7

LEMMA NoForecastIsOK ==
  base = NoForecast /\ forecast = NoForecast /\ changed = {} => ForecastsOK
<1> SUFFICES ASSUME base = NoForecast, forecast = NoForecast, changed = {}
             PROVE  ForecastsOK
  OBVIOUS
<1>1. DOMAIN base = {} /\ DOMAIN forecast = {}
  BY DEF NoForecast
<1>2. 0 \in Nat /\ DOMAIN base = Horizon..(Horizon + 0 - 1)
  BY <1>1, ReplayNumbers
<1> QED BY <1>1, <1>2 DEF ForecastsOK

LEMMA ReplaysStandStill ==
  ASSUME ForecastsOK, ReplaysOK, QueuesOK, EffectOK, SignsOK,
         UNCHANGED <<base, forecast, changed, queues, commands>>
  PROVE  ForecastsOK' /\ ReplaysOK' /\ QueuesOK' /\ EffectOK' /\ SignsOK'
<1>1. ForecastsOK'
  BY DEF ForecastsOK
<1>2. \A f : Prior(commands', f) = Prior(commands, f)
  BY DEF Prior
<1>3. Decided' = Decided /\ Lower' = Lower
  BY DEF Decided, Lower
<1>4. \A x : TargetOf(x)' = TargetOf(x)
  BY <1>3 DEF TargetOf
<1>5. \A j : Quiet(j)' <=> Quiet(j)
  BY <1>3 DEF Quiet
<1>6. ReplaysOK'
  BY <1>2, <1>3 DEF ReplaysOK
<1>7. QueuesOK'
  BY <1>3, <1>4 DEF QueuesOK
<1>8. EffectOK'
  BY <1>2, <1>5 DEF EffectOK
<1>9. SignsOK'
  BY <1>3 DEF SignsOK
<1> QED BY <1>1, <1>6, <1>7, <1>8, <1>9

\* A mutated forecast that is not refused has the oracle's targets and servable rates.
LEMMA MutationKeepsReplays ==
  ASSUME ReplayInvariant, MutateForecast
  PROVE  ReplayInvariant'
<1> DEFINE s == catalog[entry]
           b == OracleForecasts[s.trace]
           f == Mutate(b, s)
           differing == {t \in DOMAIN b : b[t] # f[t]}
<1>1. base = NoForecast /\ UNCHANGED <<catalog, queues, commands>>
  BY DEF MutateForecast
<1>2. (queues = NothingReplayed /\ commands = NothingReplayed)'
  BY <1>1 DEF ReplayInvariant
<1>3. (ReplaysOK /\ QueuesOK /\ EffectOK /\ SignsOK)'
  BY <1>2, NothingToCompare, PTL
<1>4. ForecastsOK'
  <2>1. CASE UNCHANGED <<base, forecast, changed>>
    BY <2>1 DEF ReplayInvariant, ForecastsOK
  <2>2. CASE ~UNCHANGED <<base, forecast, changed>>
    <3>1. base' = b /\ forecast' = f /\ changed' = differing /\ ~OutOfRange(f)
      BY <2>2 DEF MutateForecast
    <3>2. s.trace \in DOMAIN TraceDefs
      BY CatalogAssumption DEF MutateForecast, Generating, ReplayInvariant
    <3> HIDE DEF s
    <3>3. /\ \E n \in Nat : DOMAIN b = Horizon..(Horizon + n - 1)
          /\ \A t \in DOMAIN b : Servable(b[t])
      BY <3>2, OracleShape
    <3> HIDE DEF b
    <3>4. DOMAIN f = DOMAIN b
      BY DEF Mutate
    <3> HIDE DEF f
    <3>5. \A t \in DOMAIN f : Servable(f[t])
      BY <3>1, ValidIsServable DEF OutOfRange
    <3> QED BY <3>1, <3>3, <3>4, <3>5 DEF ForecastsOK
  <2> QED BY <2>1, <2>2
<1> QED BY <1>1, <1>2, <1>3, <1>4 DEF ReplayInvariant

\* The invariant holds whichever program runs.
LEMMA ReplayInvariantHolds == OfflineSpec => []ReplayInvariant
<1>1. OfflineInit => ReplayInvariant
  BY NothingToCompare, NoForecastIsOK DEF OfflineInit, MutationInit, ReplayInvariant
<1>2. ASSUME ReplayInvariant, [OfflineNext]_offlineVars
      PROVE  ReplayInvariant'
  <2>1. CASE UNCHANGED mutationVars
    BY <1>2, <2>1, ReplaysStandStill DEF mutationVars, ReplayInvariant
  <2>2. CASE ReadCatalog
    <3>1. catalog' \in Catalogs /\ UNCHANGED <<base, forecast, changed, queues, commands>>
      BY <2>2 DEF ReadCatalog
    <3> QED BY <1>2, <3>1, ReplaysStandStill DEF ReplayInvariant
  <2>3. CASE MutateForecast
    BY <1>2, <2>3, MutationKeepsReplays
  <2>4. CASE ReplayDecision
    <3>1. base # NoForecast /\ UNCHANGED <<catalog, base>>
      BY <2>4 DEF ReplayDecision, NoForecast
    <3> QED BY <1>2, <2>4, <3>1, DecisionKeepsReplays DEF ReplayInvariant
  <2>5. CASE FinishMutation
    <3>1. /\ base' = NoForecast /\ forecast' = NoForecast /\ changed' = {}
          /\ queues' = NothingReplayed /\ commands' = NothingReplayed /\ UNCHANGED catalog
      BY <2>5 DEF FinishMutation
    <3>2. (queues = NothingReplayed /\ commands = NothingReplayed)'
      BY <3>1
    <3>3. (ReplaysOK /\ QueuesOK /\ EffectOK /\ SignsOK)'
      BY <3>2, NothingToCompare, PTL
    <3>4. (base = NoForecast /\ forecast = NoForecast /\ changed = {})'
      BY <3>1
    <3>5. ForecastsOK'
      BY <3>4, NoForecastIsOK, PTL
    <3> QED BY <1>2, <3>1, <3>3, <3>5 DEF ReplayInvariant
  <2> QED
    <3>1. MutationNext \/ UNCHANGED mutationVars
      BY <1>2 DEF OfflineNext, Proceed, Dataset, Study, offlineVars, datasetVars
    <3> QED BY <2>1, <2>2, <2>3, <2>4, <2>5, <3>1 DEF MutationNext
<1> QED BY <1>1, <1>2, PTL DEF OfflineSpec

\* An error of a forecast has no effect on the commands beyond its reach: none before the
\* first changed forecast is issued, and none once the queue has forgotten the last one and
\* one decision has passed for each replica above the minimum but one (Policy.replay of
\* mutation_framework.py), for any forecasts, table, window and step limit.
THEOREM MutationEffectIsLocal == OfflineSpec => []EffectIsLocal
<1>1. ASSUME ReplayInvariant
      PROVE  EffectIsLocal
  <2> SUFFICES ASSUME Decided > 0, commands["oracle"][Decided] # commands["mutated"][Decided],
                      \A t \in changed :
                        Decided - 1 \notin (t - Horizon)..(t - Horizon + Keep
                                                         + MaxReplicas - MinReplicas - 2)
               PROVE  FALSE
    BY DEF EffectIsLocal, Keep
  <2>1. /\ Decided \in Nat
        /\ \A f \in Forecasts : /\ commands[f] \in Seq(Counts) /\ Len(commands[f]) = Decided
                                /\ Prior(commands, f) \in Counts
    BY <1>1, ReplayTypes DEF ReplayInvariant
  <2>2. "oracle" \in Forecasts /\ "mutated" \in Forecasts
    BY DEF Forecasts
  <2>3. ASSUME NEW f \in Forecasts
        PROVE  Prior(commands, f) = commands[f][Decided]
    <3>1. commands[f] # << >>
      BY <2>1
    <3> QED BY <2>1, <3>1 DEF Prior
  <2>4. \A t \in changed : t \in Int
    BY <1>1, ReplayNumbers DEF ReplayInvariant, ForecastsOK
  <2>5. Quiet(Span)
    BY <2>1, <2>4, ReplayNumbers DEF Quiet, Span
  <2>6. Span \in 0..Span /\ MaxReplicas - Span = MinReplicas
    BY ReplayNumbers DEF Span
  <2>7. \A f \in Forecasts : Prior(commands, f) <= MinReplicas
    BY <1>1, <2>2, <2>3, <2>5, <2>6 DEF ReplayInvariant, EffectOK
  <2>8. \A f \in Forecasts : Prior(commands, f) = MinReplicas
    BY <2>1, <2>7, ReplayNumbers DEF Counts
  <2> QED BY <2>2, <2>3, <2>8
<1> QED BY <1>1, ReplayInvariantHolds, PTL

\* The policy is monotone: until a forecast is first below the oracle it never commands
\* fewer replicas, and until it is first above never more, although a smaller count takes
\* effect step by step and only when the queue has forgotten the larger ones.
THEOREM OverforecastIsNeverDeficient == OfflineSpec => []OverforecastNeverDeficient
<1>1. ASSUME ReplayInvariant
      PROVE  OverforecastNeverDeficient
  <2> DEFINE First(T) == IF T = {} THEN {} ELSE {Min(T)}
  <2>1. \A t \in changed : t \in Nat
    BY <1>1, ReplayNumbers DEF ReplayInvariant, ForecastsOK
  <2>2. ASSUME NEW T, T \subseteq changed, NEW i \in 1..Decided,
               \A t \in First(T) : Horizon + i - 1 < t
        PROVE  \A t \in T : Horizon + i - 1 < t
    <3> SUFFICES ASSUME T # {} PROVE \A t \in T : Horizon + i - 1 < t
      OBVIOUS
    <3>1. Min(T) \in T /\ \A t \in T : Min(T) <= t
      BY <2>1, <2>2, MinNat
    <3>2. Horizon + i - 1 < Min(T)
      BY <2>2
    <3>3. Decided \in Nat /\ \A t \in T : t \in Nat
      BY <1>1, <2>1, <2>2, ReplayTypes DEF ReplayInvariant
    <3> QED BY <3>1, <3>2, <3>3, ReplayNumbers
  <2>3. Lower \subseteq changed /\ changed \ Lower \subseteq changed
    BY DEF Lower
  <2>4. SignsOK
    BY <1>1 DEF ReplayInvariant
  <2>5. \A i \in 1..Decided :
          (\A t \in First(Lower) : Horizon + i - 1 < t)
            => commands["mutated"][i] >= commands["oracle"][i]
    BY <2>2, <2>3, <2>4 DEF SignsOK
  <2>6. \A i \in 1..Decided :
          (\A t \in First(changed \ Lower) : Horizon + i - 1 < t)
            => commands["mutated"][i] <= commands["oracle"][i]
    BY <2>2, <2>3, <2>4 DEF SignsOK
  <2> HIDE DEF First
  <2> QED BY <2>5, <2>6 DEF OverforecastNeverDeficient, Lower, First
<1> QED BY <1>1, ReplayInvariantHolds, PTL

-----------------------------------------------------------------------------
(* The commands for the oracle.                                            *)

OracleRows == [issued : Nat, target : Nat, rate : Int, command : Counts]
EngineAsked(rate) == Engine!RefBounded(Engine!RequiredReplicas(CapacityLookup, rate * SafetyFactor))

\* The engine's copy of an operator is that operator, too.
LEMMA EngineOperators ==
  /\ \A S : Engine!Max(S) = Max(S) /\ Engine!Min(S) = Min(S)
  /\ \A demand : Engine!RequiredReplicas(CapacityLookup, demand)
                    = RequiredReplicas(CapacityLookup, demand)
  /\ \A raw : Engine!RefBounded(raw) = Replay!RefBounded(raw)
<1>1. \A S : Engine!Max(S) = Max(S) /\ Engine!Min(S) = Min(S)
  BY DEF Engine!Max, Engine!Min, Max, Min
<1>2. \A demand : Engine!Fitting(CapacityLookup, demand) = Fitting(CapacityLookup, demand)
  BY DEF Engine!Fitting, Fitting
<1>3. \A demand : Engine!RequiredReplicas(CapacityLookup, demand)
                    = RequiredReplicas(CapacityLookup, demand)
  BY <1>1, <1>2 DEF Engine!RequiredReplicas, RequiredReplicas, Engine!NoReplicas, NoReplicas
<1>4. \A raw : Engine!RefBounded(raw) = Replay!RefBounded(raw)
  BY <1>1, SameOperators DEF Engine!RefBounded, Replay!RefBounded
<1> QED BY <1>1, <1>3, <1>4

\* The engine's lookup asks for no more and no less.
LEMMA EngineLooksUp ==
  ASSUME NEW rate \in Int
  PROVE  Engine!RefBounded(Engine!RefRaw(rate)) = EngineAsked(rate)
<1>1. SafetyFactor \in Nat \ {0}
  BY SuitePolicyAssumption
<1>2. rate < 0 <=> rate * SafetyFactor < 0
  BY <1>1
<1>3. Engine!RefRaw(rate) = Engine!RequiredReplicas(CapacityLookup, rate * SafetyFactor)
  BY <1>2 DEF Engine!RefRaw, Engine!RequiredReplicas, Engine!Fitting, Engine!NoReplicas
<1> QED BY <1>3 DEF EngineAsked

\* The command covers the whole stabilization window when scale-up is not limited.
LEMMA EngineCovers ==
  ASSUME MaxScaleUpStep = 0, Engine!WindowSamples \in Nat \ {0},
         NEW p \in Counts, NEW h \in Seq(Counts), Len(h) # 0
  PROVE  LET c == Engine!RefMove(p, Engine!RefStabilized(h))
         IN  /\ c \in Counts
             /\ \A j \in 1..Len(h) : j > Len(h) - Engine!WindowSamples => h[j] <= c
<1> DEFINE W == Engine!WindowSamples
           S == Engine!WindowOf(h, W)
           s == Engine!RefStabilized(h)
<1>1. Len(h) \in Nat \ {0} /\ DOMAIN h = 1..Len(h) /\ \A j \in 1..Len(h) : h[j] \in Counts
  OBVIOUS
<1>2. S = {h[j] : j \in {i \in 1..Len(h) : i > Len(h) - W}}
  BY <1>1 DEF Engine!WindowOf
<1>3. S \subseteq Counts /\ h[Len(h)] \in S /\ \A j \in 1..Len(h) : j > Len(h) - W => h[j] \in S
  BY <1>1, <1>2
<1> HIDE DEF S, W
<1>4. Max(S) \in S /\ \A y \in S : y <= Max(S)
  <2>1. S \subseteq Nat /\ S # {} /\ \A y \in S : y <= MaxReplicas
    BY <1>3, ReplayNumbers DEF Counts
  <2> QED BY <2>1, ReplayNumbers, MaxNat
<1>5. s = Max(S)
  BY EngineOperators DEF Engine!RefStabilized, S, W
<1> HIDE DEF s
<1>6. s \in Counts /\ \A j \in 1..Len(h) : j > Len(h) - W => h[j] <= s
  BY <1>3, <1>4, <1>5
<1>7. Max({s, p - MaxScaleDownStep}) = IF s >= p - MaxScaleDownStep THEN s ELSE p - MaxScaleDownStep
  BY <1>6, ReplayNumbers, MaxOfTwo DEF Counts
<1>8. Engine!RefMove(p, s) \in Counts /\ s <= Engine!RefMove(p, s)
  BY <1>6, <1>7, ReplayNumbers, EngineOperators DEF Engine!RefMove, Engine!RefUpTo, Counts
<1>9. \A j \in 1..Len(h) : j > Len(h) - W => h[j] <= Engine!RefMove(p, s)
  <2>1. \A j \in 1..Len(h) : h[j] \in Int
    BY <1>1, ReplayNumbers DEF Counts
  <2> QED BY <1>6, <1>8, <2>1, ReplayNumbers DEF Counts
<1> QED BY <1>8, <1>9 DEF s, W

\* The rows written, the bounded counts behind them, and that a command covers its window.
LeadInvariant ==
  /\ trace \in DOMAIN TraceDefs
  /\ second \in Nat /\ (second = 0 \/ second - 1 \in DOMAIN ValuesOf(trace))
  /\ boundedHistory \in Seq(Counts) /\ Len(boundedHistory) = second
  /\ timeline \in Seq(OracleRows) /\ Len(timeline) = second
  /\ commanded \in Counts
  /\ \A i \in 1..second : boundedHistory[i] = EngineAsked(FutureRate(ValuesOf(trace), i - 1))
  /\ \A i \in 1..second : \A j \in 1..i :
       j > i - Engine!WindowSamples => boundedHistory[j] <= timeline[i].command

\* The next second keeps this.
LEMMA SecondKeepsLead ==
  ASSUME LeadInvariant, LeadingPolicy, Second
  PROVE  LeadInvariant'
<1> DEFINE values == ValuesOf(trace)
           future == FutureRate(values, second)
           b      == Engine!RefBounded(Engine!RefRaw(future))
           h      == Append(boundedHistory, b)
           c      == Engine!RefMove(commanded, Engine!RefStabilized(h))
           r      == OracleRow(second, future, c)
           W      == Engine!WindowSamples
<1>1. /\ second \in DOMAIN values /\ UNCHANGED trace /\ second' = second + 1
      /\ boundedHistory' = h /\ commanded' = c /\ timeline' = Append(timeline, r)
  BY DEF Second, Engine!RefDecide
<1>2. /\ trace \in DOMAIN TraceDefs /\ second \in Nat
      /\ boundedHistory \in Seq(Counts) /\ Len(boundedHistory) = second
      /\ timeline \in Seq(OracleRows) /\ Len(timeline) = second /\ commanded \in Counts
  BY DEF LeadInvariant
<1>3. future \in Int
  <2>1. second + Horizon \in Nat
    BY <1>2, ReplayNumbers
  <2> QED BY <1>2, <2>1, SampleAhead DEF FutureRate, Servable
<1>4. b = EngineAsked(future) /\ b \in Counts
  <2>1. b = EngineAsked(future)
    BY <1>3, EngineLooksUp
  <2>2. EngineAsked(future) \in Counts
    BY RequiredIsListed, BoundedCount, EngineOperators DEF EngineAsked
  <2> QED BY <2>1, <2>2
<1> HIDE DEF b, future
<1>5. /\ h \in Seq(Counts) /\ Len(h) = second + 1 /\ h[second + 1] = b
      /\ \A i \in 1..second : h[i] = boundedHistory[i]
  BY <1>2, <1>4, AppendProperties
<1> HIDE DEF h
<1>6. W \in Nat \ {0}
  <2>1. W \in Int
    BY SuitePolicyAssumption DEF Engine!WindowSamples
  <2> QED BY <2>1, ReplayNumbers DEF LeadingPolicy
<1>7. /\ c \in Counts
      /\ \A j \in 1..(second + 1) : j > (second + 1) - W => h[j] <= c
  <2>1. Len(h) # 0 /\ MaxScaleUpStep = 0
    BY <1>2, <1>5 DEF LeadingPolicy
  <2> QED BY <1>2, <1>5, <1>6, <2>1, EngineCovers
<1> HIDE DEF c
<1>8. r \in OracleRows /\ r.command = c
  <2>1. second + Horizon \in Nat
    BY <1>2, ReplayNumbers
  <2> QED BY <1>2, <1>3, <1>7, <2>1 DEF OracleRow, OracleRows
<1> HIDE DEF r
<1>9. /\ timeline' \in Seq(OracleRows) /\ Len(timeline') = second + 1
      /\ timeline'[second + 1] = r /\ \A i \in 1..second : timeline'[i] = timeline[i]
  BY <1>1, <1>2, <1>8, AppendProperties
<1>10. \A i \in 1..(second + 1) : i \in 1..second \/ i = second + 1
  BY <1>2
<1>11. \A i \in 1..(second + 1) : boundedHistory'[i] = EngineAsked(FutureRate(values, i - 1))
  <2>1. (second + 1) - 1 = second
    BY <1>2
  <2> QED BY <1>1, <1>4, <1>5, <1>10, <2>1 DEF LeadInvariant, future
<1>12. ASSUME NEW i \in 1..(second + 1), NEW j \in 1..i, j > i - W
       PROVE  boundedHistory'[j] <= timeline'[i].command
  <2>1. CASE i = second + 1
    BY <1>1, <1>7, <1>8, <1>9, <1>12, <2>1
  <2>2. CASE i \in 1..second
    <3>1. j \in 1..second
      BY <1>2, <2>2
    <3> QED BY <1>1, <1>5, <1>9, <1>12, <2>2, <3>1 DEF LeadInvariant
  <2> QED BY <1>10, <2>1, <2>2
<1>13. second' \in Nat /\ second' - 1 \in DOMAIN values
  BY <1>1, <1>2
<1>14. ValuesOf(trace)' = values /\ Len(boundedHistory') = second'
  BY <1>1, <1>5
<1>15. /\ \A i \in 1..second' : boundedHistory'[i] = EngineAsked(FutureRate(values, i - 1))
       /\ \A i \in 1..second' : \A j \in 1..i :
            j > i - W => boundedHistory'[j] <= timeline'[i].command
  BY <1>1, <1>11, <1>12
<1> QED BY <1>1, <1>2, <1>5, <1>7, <1>9, <1>13, <1>14, <1>15 DEF LeadInvariant

\* Before the first second of a trace.
LEMMA NothingLeads ==
  trace \in DOMAIN TraceDefs /\ second = 0 /\ boundedHistory = << >> /\ timeline = << >>
    /\ commanded = InitialReplicas => LeadInvariant
<1> SUFFICES ASSUME trace \in DOMAIN TraceDefs, second = 0, boundedHistory = << >>,
                    timeline = << >>, commanded = InitialReplicas
             PROVE  LeadInvariant
  OBVIOUS
<1>1. << >> \in Seq(Counts) /\ << >> \in Seq(OracleRows) /\ Len(<< >>) = 0
  OBVIOUS
<1> QED BY <1>1, ReplayNumbers DEF LeadInvariant

LEMMA TracesAreDefined ==
  \A i \in 1..Len(TraceIds) : TraceIds[i] \in DOMAIN TraceDefs
<1>1. Len(TraceIds) = 5
  BY DEF TraceIds
<1>2. \A i \in 1..5 : i = 1 \/ i = 2 \/ i = 3 \/ i = 4 \/ i = 5
  OBVIOUS
<1> QED BY <1>1, <1>2 DEF TraceIds, TraceDefs

LEMMA LeadInvariantHolds ==
  ASSUME LeadingPolicy
  PROVE  OfflineSpec => []LeadInvariant
<1>0. TraceIds[1] \in DOMAIN TraceDefs
  BY DEF TraceIds, TraceDefs
<1>1. OfflineInit => LeadInvariant
  BY <1>0, NothingLeads DEF OfflineInit, SuiteInit, Engine!RefInit
<1>2. ASSUME LeadInvariant, [OfflineNext]_offlineVars
      PROVE  LeadInvariant'
  <2>1. CASE UNCHANGED suiteVars
    BY <1>2, <2>1 DEF suiteVars, LeadInvariant
  <2>2. CASE Second
    BY <1>2, <2>2, SecondKeepsLead
  <2>3. CASE trace' \in DOMAIN TraceDefs /\ Fresh
    <3>1. (trace \in DOMAIN TraceDefs /\ second = 0 /\ boundedHistory = << >> /\ timeline = << >>
             /\ commanded = InitialReplicas)'
      BY <2>3 DEF Fresh
    <3> QED BY <3>1, NothingLeads, PTL
  <2>4. NextTrace \/ SuiteExits => trace' \in DOMAIN TraceDefs /\ Fresh
    <3>1. Len(TraceIds) = 5
      BY DEF TraceIds
    <3>2. \A i \in 1..(Len(TraceIds) - 1) : i + 1 \in 1..Len(TraceIds)
      BY <3>1
    <3> QED BY <1>0, <3>2, TracesAreDefined DEF NextTrace, SuiteExits
  <2> QED
    <3>1. SuiteNext \/ SuiteExits \/ UNCHANGED suiteVars
      BY <1>2 DEF OfflineNext, Proceed, Dataset, Study, offlineVars, datasetVars
    <3> QED BY <2>1, <2>2, <2>3, <2>4, <3>1 DEF SuiteNext
<1> QED BY <1>1, <1>2, PTL DEF OfflineSpec

\* Acting on the oracle is sufficient: with a window longer than the horizon and no limit on
\* scale-up, every command in force during the horizon before a second covers the demand of
\* that second (generate_oracle.py with policy.py), for any table, bounds and safety factor.
THEOREM CommandsLeadDemand ==
  ASSUME LeadingPolicy
  PROVE  OfflineSpec => []CommandLeadsDemand
<1>1. ASSUME LeadInvariant
      PROVE  CommandLeadsDemand
  <2> SUFFICES ASSUME second > 0, NEW i \in Max({1, second - Horizon})..second
               PROVE  timeline[i].command >= OracleReplicas(ValuesOf(trace)[second - 1])
    BY DEF CommandLeadsDemand
  <2>1. /\ trace \in DOMAIN TraceDefs /\ second \in Nat /\ second - 1 \in DOMAIN ValuesOf(trace)
        /\ timeline \in Seq(OracleRows) /\ Len(timeline) = second
    BY <1>1 DEF LeadInvariant
  <2>2. Max({1, second - Horizon}) = IF 1 >= second - Horizon THEN 1 ELSE second - Horizon
    BY <2>1, ReplayNumbers, MaxOfTwo
  <2>3. i \in 1..second /\ second - Horizon <= i
    BY <2>1, <2>2, ReplayNumbers
  <2>4. timeline[i].command \in Counts
    <3>1. timeline[i] \in OracleRows
      BY <2>1, <2>3, ElementOfSeq
    <3> QED BY <3>1 DEF OracleRows
  <2> DEFINE rate == ValuesOf(trace)[second - 1]
             d    == RequiredReplicas(CapacityLookup, rate)
  <2>5. d \in Nat /\ d <= MaxReplicas /\ (second - 1 < Horizon => d <= MinReplicas)
    BY <2>1, RequiredIsListed DEF LeadingPolicy, OracleReplicas
  <2>6. CASE second - 1 < Horizon
    BY <2>4, <2>5, <2>6, ReplayNumbers DEF Counts, OracleReplicas
  <2>7. CASE ~(second - 1 < Horizon)
    <3>1. PICK j \in 1..second : j = second - Horizon
      BY <2>1, <2>7, ReplayNumbers
    <3>2. (j - 1) + Horizon = second - 1 /\ second - 1 \in Nat
      BY <2>1, <2>7, <3>1, ReplayNumbers
    <3>3. FutureRate(ValuesOf(trace), j - 1) = rate /\ Servable(rate)
      BY <2>1, <3>2, SampleAhead DEF FutureRate
    <3>4. boundedHistory[j] = EngineAsked(rate)
      BY <1>1, <3>3 DEF LeadInvariant
    <3>5. boundedHistory[j] <= timeline[i].command
      <4>1. Engine!WindowSamples \in Int /\ Horizon < Engine!WindowSamples
        BY SuitePolicyAssumption DEF Engine!WindowSamples, LeadingPolicy
      <4>2. j \in 1..i /\ j > i - Engine!WindowSamples
        BY <2>1, <2>3, <3>1, <4>1, ReplayNumbers
      <4> QED BY <1>1, <2>3, <4>2 DEF LeadInvariant
    <3> HIDE DEF rate
    <3>6. PICK x \in Int : x = rate * SafetyFactor
      BY <3>3, ReplayNumbers DEF Servable
    <3>7. d <= RequiredReplicas(CapacityLookup, x)
      <4>1. RequiredReplicas(CapacityLookup, x) # NoReplicas /\ rate \in Int
        BY <3>3, <3>6 DEF Servable
      <4>2. CASE rate < 0
        BY <4>2, RequiredIsListed DEF RequiredReplicas, NoReplicas
      <4>3. CASE ~(rate < 0)
        <5>1. PICK q \in Nat : q = rate
          BY <4>1, <4>3
        <5>2. PICK m \in Nat : SafetyFactor = 1 + m
          BY ReplayNumbers
        <5>3. q * m \in Nat
          BY <5>1, <5>2
        <5>4. x = q + q * m
          BY <3>6, <5>1, <5>2
        <5>5. rate <= x /\ 0 <= rate
          BY <5>1, <5>3, <5>4
        <5> QED BY <4>1, <5>5, RequiredGrows
      <4> QED BY <4>2, <4>3
    <3>8. EngineAsked(rate) = Replay!RefBounded(RequiredReplicas(CapacityLookup, x))
      BY <3>6, EngineOperators DEF EngineAsked
    <3> HIDE DEF d
    <3>9. EngineAsked(rate) \in Counts /\ d <= EngineAsked(rate)
      BY <2>5, <3>7, <3>8, RequiredIsListed, BoundedCount, ReplayNumbers
    <3>10. d <= timeline[i].command
      BY <2>4, <2>5, <3>4, <3>5, <3>9, ReplayNumbers DEF Counts
    <3> QED BY <2>4, <2>5, <3>10, ReplayNumbers DEF d, rate, OracleReplicas, Counts
  <2> QED BY <2>6, <2>7
<1> QED BY <1>1, LeadInvariantHolds, PTL

-----------------------------------------------------------------------------
(* The request schedules.                                                  *)

\* A rise is at most the whole of it.
LEMMA RiseBounds ==
  \A part \in Int, whole \in {1, 60, 120, 180} :
    0 <= part /\ part <= whole => Rise(part, whole) \in 0..(35 * Rps)
<1>1. PICK r \in Nat : r = Rps
  BY RpsAssumption
<1>2. SUFFICES ASSUME NEW part \in Int, NEW whole \in {1, 60, 120, 180}, 0 <= part, part <= whole
               PROVE  (35 * r * part) \div whole \in 0..(35 * r)
  BY <1>1 DEF Rise
<1>3. PICK p \in Int : p = 35 * r * part /\ 0 <= p /\ p <= 35 * r * whole
  <2>1. PICK u \in Nat, v \in Nat : u = 35 * r /\ v = whole - part
    BY <1>2
  <2>2. u * part \in Int /\ 0 <= u * part
    BY <1>2, <2>1
  <2>3. u * v \in Int /\ 0 <= u * v
    BY <2>1
  <2>4. u * whole = u * part + u * v
    BY <1>2, <2>1
  <2> QED BY <2>1, <2>2, <2>3, <2>4
<1>4. CASE whole = 1
  BY <1>3, <1>4
<1>5. CASE whole = 60
  BY <1>3, <1>5
<1>6. CASE whole = 120
  BY <1>3, <1>6
<1>7. CASE whole = 180
  BY <1>3, <1>7
<1> QED BY <1>2, <1>4, <1>5, <1>6, <1>7

\* Every trace demands between one and sixty requests per second, and has its events.
LEMMA TraceRates ==
  ASSUME NEW tr \in DOMAIN TraceDefs
  PROVE  /\ \A t \in DOMAIN ValuesOf(tr) : ValuesOf(tr)[t] \in Rps..(60 * Rps)
         /\ TraceDefs[tr].events # {}
<1>1. PICK r \in Nat : r = Rps /\ r # 0
  BY RpsAssumption
<1> DEFINE Fair(values) == \A t \in DOMAIN values : values[t] \in r..(60 * r)
<1>2. /\ Baseline = 25 * r
      /\ \A part \in Int, whole \in {1, 60, 120, 180} :
           0 <= part /\ part <= whole => Rise(part, whole) \in 0..(35 * r)
  BY <1>1, RiseBounds DEF Baseline
<1>2a. Rise(1, 1) = 35 * r
  BY <1>1 DEF Rise
<1>3. Fair(RampTrace)
  <2>1. DOMAIN RampTrace = 0..479
    BY DEF RampTrace
  <2>2. ASSUME NEW t \in 0..479 PROVE RampTrace[t] \in r..(60 * r)
    <3>1. /\ t \in 60..239 => Rise(t - 59, 180) \in 0..(35 * r)
          /\ t \in 300..419 => Rise(t - 299, 120) \in 0..(35 * r)
      <4>1. t \in 60..239 => t - 59 \in Int /\ 0 <= t - 59 /\ t - 59 <= 180
        OBVIOUS
      <4>2. t \in 300..419 => t - 299 \in Int /\ 0 <= t - 299 /\ t - 299 <= 120
        OBVIOUS
      <4> QED BY <1>2, <4>1, <4>2
    <3>2. RampTrace[t] = CASE t < 60         -> Baseline
                           [] t \in 60..239  -> Baseline + Rise(t - 59, 180)
                           [] t \in 240..299 -> Baseline + Rise(1, 1)
                           [] t \in 300..419 -> Baseline + Rise(1, 1) - Rise(t - 299, 120)
                           [] t >= 420       -> Baseline
      BY DEF RampTrace
    <3>3. CASE t < 60 \/ t >= 420
      <4>1. RampTrace[t] = Baseline
        BY <3>2, <3>3
      <4> QED BY <1>2, <4>1
    <3>4. CASE t \in 60..239
      <4>1. RampTrace[t] = Baseline + Rise(t - 59, 180)
        <5>1. t \notin 240..299 /\ t \notin 300..419 /\ ~(t < 60) /\ ~(t >= 420)
          BY <3>4
        <5> QED BY <3>2, <3>4, <5>1
      <4>2. PICK u \in 0..(35 * r) : u = Rise(t - 59, 180)
        BY <3>1, <3>4
      <4>3. PICK w \in r..(60 * r) : w = 25 * r + u
        OBVIOUS
      <4>4. RampTrace[t] = w
        BY <1>2, <4>1, <4>2, <4>3
      <4> QED BY <4>4
    <3>5. CASE t \in 240..299
      <4>1. RampTrace[t] = Baseline + Rise(1, 1)
        BY <3>2, <3>5
      <4> QED BY <1>2, <1>2a, <4>1
    <3>6. CASE t \in 300..419
      <4>1. RampTrace[t] = Baseline + Rise(1, 1) - Rise(t - 299, 120)
        <5>1. t \notin 60..239 /\ t \notin 240..299 /\ ~(t < 60) /\ ~(t >= 420)
          BY <3>6
        <5> QED BY <3>2, <3>6, <5>1
      <4>2. PICK u \in 0..(35 * r) : u = Rise(t - 299, 120)
        BY <3>1, <3>6
      <4>3. PICK w \in r..(60 * r) : w = 25 * r + 35 * r - u
        OBVIOUS
      <4>4. RampTrace[t] = w
        BY <1>2, <1>2a, <4>1, <4>2, <4>3
      <4> QED BY <4>4
    <3> QED BY <3>3, <3>4, <3>5, <3>6
  <2> QED BY <2>1, <2>2
<1>4. ASSUME NEW n \in Nat \ {0}, NEW peak PROVE Fair(PulseTrace(n, peak))
  <2>1. ASSUME NEW t \in 0..(n - 1) PROVE PulseTrace(n, peak)[t] \in r..(60 * r)
    <3>1. PulseTrace(n, peak)[t] = IF t \in peak THEN Baseline + Rise(1, 1) ELSE Baseline
      BY DEF PulseTrace
    <3> QED BY <1>2, <1>2a, <3>1
  <2>2. DOMAIN PulseTrace(n, peak) = 0..(n - 1)
    BY DEF PulseTrace
  <2> QED BY <2>1, <2>2
<1>5. Fair(PeriodicTrace)
  <2>1. DOMAIN PeriodicTrace = 0..719
    BY DEF PeriodicTrace
  <2>2. ASSUME NEW t \in 0..719 PROVE PeriodicTrace[t] \in r..(60 * r)
    <3>1. PICK phase \in 0..119 : phase = (t - 60) % 120
      OBVIOUS
    <3>2. /\ phase <= 60 => Rise(phase, 60) \in 0..(35 * r)
          /\ ~(phase <= 60) => Rise(phase - 60, 60) \in 0..(35 * r)
      <4>1. phase <= 60 => phase \in Int /\ 0 <= phase /\ phase <= 60
        OBVIOUS
      <4>2. ~(phase <= 60) => phase - 60 \in Int /\ 0 <= phase - 60 /\ phase - 60 <= 60
        OBVIOUS
      <4> QED BY <1>2, <4>1, <4>2
    <3>3. PeriodicTrace[t] = IF t \notin 60..659 THEN Baseline
                             ELSE IF phase <= 60 THEN Baseline + Rise(phase, 60)
                             ELSE Baseline + Rise(1, 1) - Rise(phase - 60, 60)
      BY <3>1 DEF PeriodicTrace
    <3>4. CASE t \notin 60..659
      <4>1. PeriodicTrace[t] = Baseline
        BY <3>3, <3>4
      <4> QED BY <1>2, <4>1
    <3>5. CASE t \in 60..659
      <4>1. CASE phase <= 60
        <5>1. PeriodicTrace[t] = Baseline + Rise(phase, 60)
          BY <3>3, <3>5, <4>1
        <5>2. PICK u \in 0..(35 * r) : u = Rise(phase, 60)
          BY <3>2, <4>1
        <5>3. PICK w \in r..(60 * r) : w = 25 * r + u
          OBVIOUS
        <5>4. PeriodicTrace[t] = w
          BY <1>2, <5>1, <5>2, <5>3
        <5> QED BY <5>4
      <4>2. CASE ~(phase <= 60)
        <5>1. PeriodicTrace[t] = Baseline + Rise(1, 1) - Rise(phase - 60, 60)
          BY <3>3, <3>5, <4>2
        <5>2. PICK u \in 0..(35 * r) : u = Rise(phase - 60, 60)
          BY <3>2, <4>2
        <5>3. PICK w \in r..(60 * r) : w = 25 * r + 35 * r - u
          OBVIOUS
        <5>4. PeriodicTrace[t] = w
          BY <1>2, <1>2a, <5>1, <5>2, <5>3
        <5> QED BY <5>4
      <4> QED BY <4>1, <4>2
    <3> QED BY <3>4, <3>5
  <2>3. ASSUME NEW t \in DOMAIN PeriodicTrace PROVE PeriodicTrace[t] \in r..(60 * r)
    <3>1. t \in 0..719
      BY Zenon, <2>1
    <3> QED BY <2>2, <3>1
  <2> QED BY <2>3
<1>6. Fair(StableNoisyTrace)
  <2>1. DOMAIN StableNoisyTrace = 0..239
    BY DEF StableNoisyTrace
  <2>2. ASSUME NEW t \in 0..239 PROVE StableNoisyTrace[t] \in r..(60 * r)
    <3>1. PICK k \in 1..8 : k = (t % 8) + 1
      OBVIOUS
    <3>2. PICK m \in 23..27 : m = <<23, 24, 25, 26, 27, 26, 25, 24>>[k]
      OBVIOUS
    <3>3. StableNoisyTrace[t] = r * m
      BY <1>1, <3>1, <3>2 DEF StableNoisyTrace
    <3>4. m \in {23, 24, 25, 26, 27}
      BY <3>2
    <3> QED BY <3>3, <3>4
  <2> QED BY <2>1, <2>2
<1>7. tr \in {"ramp", "spike", "sustained", "periodic", "control"}
  BY DEF TraceDefs
<1>8. ValuesOf(tr) \in {RampTrace, PulseTrace(180, 60..89), PulseTrace(360, 60..239),
                        PeriodicTrace, StableNoisyTrace}
  BY <1>7 DEF ValuesOf, TraceDefs
<1>9. Fair(ValuesOf(tr))
  <2>1. 180 \in Nat \ {0} /\ 360 \in Nat \ {0}
    OBVIOUS
  <2> HIDE DEF Fair
  <2>2. Fair(PulseTrace(180, 60..89)) /\ Fair(PulseTrace(360, 60..239))
    BY <1>4, <2>1
  <2> QED BY <1>3, <1>5, <1>6, <1>8, <2>2
<1>10. TraceDefs[tr].events # {}
  <2>1. TraceDefs[tr].events \in {RampEvents, PulseEvents(60, 90), PulseEvents(60, 240),
                                  PeriodicEvents, StableNoisyEvents}
    BY <1>7 DEF TraceDefs
  <2>2. /\ <<"stable_start", 0>> \in RampEvents /\ <<"stable_start", 0>> \in PulseEvents(60, 90)
        /\ <<"stable_start", 0>> \in PulseEvents(60, 240)
        /\ <<"stable_start", 0>> \in PeriodicEvents /\ <<"stable_start", 0>> \in StableNoisyEvents
    BY DEF RampEvents, PulseEvents, PeriodicEvents, StableNoisyEvents
  <2> QED BY <2>1, <2>2
<1> QED BY <1>1, <1>9, <1>10

\* The requests of a second: some, not too many, and what remains is less than one.
LEMMA RequestsOfSecond ==
  ASSUME NEW r \in Nat \ {0}, NEW T \in Nat, T < r, NEW c \in Int, -T <= c, c < r - T,
         NEW v \in r..(60 * r)
  PROVE  /\ (c + v + T) \div r \in 1..60
         /\ -T <= c + v - ((c + v + T) \div r) * r /\ c + v - ((c + v + T) \div r) * r < r - T
<1>0. PICK k : k = (c + v + T) \div r
  OBVIOUS
<1>1. PICK n \in Nat : n = c + v + T /\ r <= n /\ n < 61 * r
  OBVIOUS
<1>2. k \in Nat /\ k * r <= n /\ n < k * r + r
  BY <1>0, <1>1
<1>3. PICK p \in Nat : p = k * r
  BY <1>2
<1>4. k # 0
  <2>1. k = 0 => k * r = 0
    OBVIOUS
  <2> QED BY <1>1, <1>2, <2>1
<1>5. k <= 60
  <2> SUFFICES ASSUME ~(k <= 60) PROVE FALSE
    OBVIOUS
  <2>1. PICK m \in Nat : k = 61 + m
    <3>1. k - 61 \in Nat /\ k = 61 + (k - 61)
      BY <1>2
    <3> QED BY <3>1
  <2>2. m * r \in Nat /\ (61 + m) * r = 61 * r + m * r
    OBVIOUS
  <2> QED BY <1>1, <1>2, <2>1, <2>2
<1>6. -T <= c + v - p /\ c + v - p < r - T
  BY <1>1, <1>2, <1>3
<1> QED BY <1>0, <1>2, <1>3, <1>4, <1>5, <1>6

\* Division by a positive number.
LEMMA Dividing ==
  /\ \A x \in Nat, b \in Nat \ {0} : x \div b \in Nat
  /\ \A x, m \in Nat, b \in Nat \ {0} : x < b * m => x \div b < m
  /\ \A x, y \in Nat, b \in Nat \ {0} : x + b <= y => x \div b < y \div b
<1>1. \A x \in Nat, b \in Nat \ {0} : x \div b \in Nat
  OBVIOUS
<1>2. \A x \in Nat, b \in Nat \ {0} : b * (x \div b) <= x /\ x < b * (x \div b) + b
  OBVIOUS
<1>3. \A p, q \in Nat, b \in Nat \ {0} : p <= q => b * p <= b * q
  <2> TAKE p, q \in Nat, b \in Nat \ {0}
  <2> HAVE p <= q
  <2>1. PICK m \in Nat : q = p + m
    <3>1. q - p \in Nat /\ q = p + (q - p)
      OBVIOUS
    <3> QED BY <3>1
  <2>2. b * m \in Nat /\ b * (p + m) = b * p + b * m /\ b * p \in Nat
    OBVIOUS
  <2> QED BY <2>1, <2>2
<1>4. ASSUME NEW x \in Nat, NEW m \in Nat, NEW b \in Nat \ {0}, x < b * m
      PROVE  x \div b < m
  <2>1. PICK q \in Nat : q = x \div b /\ b * q <= x
    BY <1>1, <1>2
  <2>2. PICK u \in Nat, w \in Nat : u = b * q /\ w = b * m
    OBVIOUS
  <2>3. m <= q => b * m <= b * q
    BY <1>3
  <2> QED BY <1>4, <2>1, <2>2, <2>3
<1>5. ASSUME NEW x \in Nat, NEW y \in Nat, NEW b \in Nat \ {0}, x + b <= y
      PROVE  x \div b < y \div b
  <2>1. PICK q \in Nat : q = x \div b /\ b * q <= x
    BY <1>1, <1>2
  <2>2. PICK p \in Nat : p = y \div b /\ y < b * p + b
    BY <1>1, <1>2
  <2>3. p <= q => b * p <= b * q
    BY <1>3
  <2>4. PICK u \in Nat, w \in Nat : u = b * q /\ w = b * p
    OBVIOUS
  <2> QED BY <1>5, <2>1, <2>2, <2>3, <2>4
<1> QED BY <1>1, <1>4, <1>5

\* The offsets of the requests of a second lie in that second, one after the other.
LEMMA OffsetsInSecond ==
  ASSUME NEW sec \in Nat, NEW count \in 1..60
  PROVE  /\ DOMAIN Offsets(sec, count) = 1..count
         /\ \A i \in 1..count :
              /\ Offsets(sec, count)[i] \in (sec * MICROS)..(sec * MICROS + MICROS - 1)
              /\ i # 1 => Offsets(sec, count)[i - 1] < Offsets(sec, count)[i]
<1> DEFINE b == 4 * count
           a(i) == 2 * ((2 * i - 1) * 1000000) + 2 * count
<1>1. /\ DOMAIN Offsets(sec, count) = 1..count
      /\ \A i \in 1..count : Offsets(sec, count)[i] = sec * 1000000 + a(i) \div b
  <2>1. 2 * (2 * count) = b
    OBVIOUS
  <2>2. \A i \in 1..count : RoundedDiv((2 * i - 1) * 1000000, 2 * count) = a(i) \div b
    BY <2>1 DEF RoundedDiv
  <2> QED BY <2>2 DEF Offsets, MICROS
<1>2. ASSUME NEW i \in 1..count
      PROVE  /\ a(i) \in Nat /\ a(i) < b * 1000000
             /\ i # 1 => a(i - 1) \in Nat /\ a(i - 1) + b <= a(i) /\ i - 1 \in 1..count
  OBVIOUS
<1>3. b \in Nat \ {0} /\ 1000000 \in Nat
  OBVIOUS
<1> HIDE DEF a, b
<1>4. ASSUME NEW i \in 1..count
      PROVE  /\ a(i) \div b \in Nat /\ a(i) \div b < 1000000
             /\ i # 1 => a(i - 1) \div b < a(i) \div b /\ a(i - 1) \div b \in Nat
  BY <1>2, <1>3, Dividing
<1>5. ASSUME NEW i \in 1..count
      PROVE  /\ Offsets(sec, count)[i] \in (sec * MICROS)..(sec * MICROS + MICROS - 1)
             /\ i # 1 => Offsets(sec, count)[i - 1] < Offsets(sec, count)[i]
  <2>1. PICK q \in Nat : q = a(i) \div b /\ q < 1000000
    BY <1>4
  <2>2. Offsets(sec, count)[i] = sec * 1000000 + q
    BY <1>1, <2>1
  <2>3. ASSUME i # 1 PROVE Offsets(sec, count)[i - 1] < Offsets(sec, count)[i]
    <3>1. PICK p \in Nat : p = a(i - 1) \div b /\ p < q
      BY <1>4, <2>1, <2>3
    <3>2. Offsets(sec, count)[i - 1] = sec * 1000000 + p
      BY <1>1, <1>2, <2>3, <3>1
    <3> QED BY <2>2, <3>1, <3>2
  <2> QED BY <2>1, <2>2, <2>3 DEF MICROS
<1> QED BY <1>1, <1>5

\* A second is a number of microseconds.
LEMMA Micros ==
  /\ MICROS \in Nat \ {0}
  /\ \A s \in Nat : s * MICROS \in Nat /\ (s + 1) * MICROS = s * MICROS + MICROS
  /\ \A s, t \in Nat : s < t => s * MICROS + MICROS <= t * MICROS
BY SMT DEF MICROS

\* What is sampled a horizon ahead.
LEMMA SampleIs ==
  ASSUME NEW tr \in DOMAIN TraceDefs, NEW t \in Nat, NEW n \in Nat \ {0},
         Duration(ValuesOf(tr)) = n
  PROVE  ValueAt(ValuesOf(tr), t) = ValuesOf(tr)[IF t \in 0..(n - 1) THEN t ELSE n - 1]
<1>1. Max({t, 0}) = t
  BY MaxOfTwo
<1>2. Min({t, n - 1}) = IF t <= n - 1 THEN t ELSE n - 1
  BY MinOfTwo
<1>3. ValueAt(ValuesOf(tr), t) = ValuesOf(tr)[Min({t, n - 1})]
  BY <1>1, Zenon DEF ValueAt
<1>4. t <= n - 1 <=> t \in 0..(n - 1)
  OBVIOUS
<1> QED BY <1>2, <1>3, <1>4

\* The complaints about the schedule of a trace, its rates and the rows of its oracle.
ScheduleComplaints ==
  {"order", "outside the trace", "drift", "range",
   "request schedule must be nonnegative and ordered", "request schedule is empty",
   "offsets are not consecutive", "horizon mismatch", "future workload mismatch",
   "row count mismatch or no event annotations"}

\* Between two seconds the two totals differ by the fraction carried, less than a request;
\* what has been scheduled lies before the second, and there is a row for every second.
ScheduleInvariant ==
  /\ trace \in DOMAIN TraceDefs
  /\ second \in Nat /\ second <= Duration(ValuesOf(trace))
  /\ carry \in Int /\ -Tolerance <= carry /\ carry < Rps - Tolerance
  /\ demanded \in Nat /\ scheduled \in Nat /\ demanded - scheduled * Rps = carry
  /\ lastOffset \in Int /\ -1 <= lastOffset /\ lastOffset < second * MICROS
  /\ (\E S : timeline \in Seq(S)) /\ Len(timeline) = second
  /\ failures \cap ScheduleComplaints = {}

\* A complaint is its text.
LEMMA ComplaintIsText == \A condition, text : Complaint(condition, text) \subseteq {text}
BY DEF Complaint

\* The complaints about the packaged example.
LEMMA ExampleTexts ==
  ASSUME NEW read, NEW sent
  PROVE  ExampleFailures(read, sent)
           \subseteq {"packaged request schedule has the wrong row count",
                      "controller decision ticks are not contiguous",
                      "controller decision count is incorrect",
                      "controller raw-replica decisions disagree",
                      "controller transitions do not match"}
<1> DEFINE Plain(rate) ==
             LET serving == {CapacityLookup[i].replicas : i \in
                               {i \in DOMAIN CapacityLookup : rate <= CapacityLookup[i].rps}}
             IN  IF serving = {} THEN MaxReplicas ELSE Min(serving)
           Before(i) == IF i = 1 THEN InitialReplicas ELSE read[i - 1].command
           moves == {<<read[i].issued, Before(i), read[i].command>> :
                       i \in {i \in DOMAIN read : read[i].command # Before(i)}}
           a == sent # 5550
           b == \E i \in DOMAIN read : read[i].issued # i - 1
           c == Len(read) # 180
           d == \E i \in DOMAIN read : Engine!RawReplicas(read[i].rate) # Plain(read[i].rate)
           e == moves # {<<54, 1, 4>>, <<113, 4, 3>>, <<114, 3, 2>>, <<115, 2, 1>>}
<1>1. ExampleFailures(read, sent)
        = Complaint(a, "packaged request schedule has the wrong row count")
          \cup Complaint(b, "controller decision ticks are not contiguous")
          \cup Complaint(c, "controller decision count is incorrect")
          \cup Complaint(d, "controller raw-replica decisions disagree")
          \cup Complaint(e, "controller transitions do not match")
  BY Zenon DEF ExampleFailures
<1> HIDE DEF a, b, c, d, e
<1> QED BY <1>1, ComplaintIsText

\* The next second keeps this.
LEMMA SecondKeepsSchedule ==
  ASSUME Tolerance < Rps, ScheduleInvariant, Second
  PROVE  ScheduleInvariant'
<1> DEFINE values == ValuesOf(trace)
           rate == values[second]
           x == carry + rate
           count == (carry + rate + Tolerance) \div Rps
           offsets == Offsets(second, count)
           future == FutureRate(values, second)
           row == OracleRow(second, future, commanded')
<1>1. /\ second \in DOMAIN values /\ second' = second + 1 /\ UNCHANGED trace
      /\ carry' = x - count * Rps
      /\ lastOffset' = IF count = 0 THEN lastOffset ELSE offsets[count]
      /\ demanded' = demanded + rate /\ scheduled' = scheduled + count
      /\ timeline' = Append(timeline, row)
  BY DEF Second, CarryAfter
<1>2. failures' = failures
        \cup SuiteFailures(values, offsets, demanded', scheduled')
        \cup LoaderFailures(values, offsets, scheduled')
        \cup RowFailures(values, timeline')
        \cup OracleFailures(future, commanded, commanded')
        \cup (IF second = 0 THEN ManualFailures ELSE {})
        \cup IF second + 1 \in DOMAIN values THEN {}
             ELSE TraceFailures(trace) \cup IF trace = "spike"
                    THEN ExampleFailures(timeline', scheduled') ELSE {}
  BY DEF Second
<1>3. PICK n \in Nat \ {0} : DOMAIN values = 0..(n - 1) /\ Duration(values) = n
  BY TraceShape DEF ScheduleInvariant
<1>4. PICK r \in Nat \ {0}, T \in Nat : r = Rps /\ T = Tolerance /\ T < r
  BY RpsAssumption, ToleranceAssumption
<1>5. /\ rate \in r..(60 * r) /\ TraceDefs[trace].events # {}
      /\ trace \in DOMAIN TraceDefs
  BY <1>1, <1>4, TraceRates DEF ScheduleInvariant
<1>6. count \in 1..60 /\ -T <= x - count * r /\ x - count * r < r - T
  <2>1. carry \in Int /\ -T <= carry /\ carry < r - T
    BY <1>4 DEF ScheduleInvariant
  <2>2. count = (carry + rate + T) \div r /\ x = carry + rate
    BY <1>4
  <2> HIDE DEF count, rate, x
  <2>3. PICK c \in Int, v \in r..(60 * r) : c = carry /\ v = rate /\ -T <= c /\ c < r - T
    BY <1>5, <2>1
  <2>4. /\ (c + v + T) \div r \in 1..60
        /\ -T <= c + v - ((c + v + T) \div r) * r /\ c + v - ((c + v + T) \div r) * r < r - T
    BY <1>4, <2>3, RequestsOfSecond
  <2> QED BY <2>2, <2>3, <2>4
<1>7. /\ DOMAIN offsets = 1..count
      /\ \A i \in 1..count :
           /\ offsets[i] \in (second * MICROS)..(second * MICROS + MICROS - 1)
           /\ i # 1 => offsets[i - 1] < offsets[i]
  <2>1. second \in Nat
    BY DEF ScheduleInvariant
  <2> HIDE DEF count
  <2> QED BY <1>6, <2>1, OffsetsInSecond
<1> HIDE DEF values, rate, count, offsets, future
<1>8. /\ second \in Nat /\ second <= n - 1 /\ n * MICROS \in Int /\ second * MICROS \in Nat
      /\ (second + 1) * MICROS = second * MICROS + MICROS
      /\ second * MICROS + MICROS - 1 <= n * MICROS - 1
  <2>1. second \in Nat /\ second \in 0..(n - 1)
    BY <1>1, <1>3 DEF ScheduleInvariant
  <2>2. second * MICROS + MICROS <= n * MICROS /\ n * MICROS \in Nat
    BY <2>1, Micros
  <2> QED BY <2>1, <2>2, Micros
<1>9. demanded' - scheduled' * r = x - count * r /\ demanded' \in Nat /\ scheduled' \in Nat
  <2>1. demanded \in Nat /\ scheduled \in Nat /\ demanded - scheduled * r = carry
    BY <1>4 DEF ScheduleInvariant
  <2>2. (scheduled + count) * r = scheduled * r + count * r /\ scheduled * r \in Nat
        /\ count * r \in Nat
    BY <1>6, <2>1
  <2>3. rate \in Nat
    BY <1>5
  <2> QED BY <1>1, <1>6, <2>1, <2>2, <2>3
<1>10. (lastOffset \in Int /\ -1 <= lastOffset /\ lastOffset < second * MICROS)'
  <2>1. lastOffset' = offsets[count] /\ count \in 1..count
    BY <1>1, <1>6
  <2>2. offsets[count] \in (second * MICROS)..(second * MICROS + MICROS - 1)
    BY <1>7, <2>1
  <2>3. second' * MICROS = second * MICROS + MICROS
    BY <1>1, <1>8
  <2> QED BY <1>8, <2>1, <2>2, <2>3, Micros
<1>11. /\ (\E S : timeline' \in Seq(S)) /\ Len(timeline') = second + 1
       /\ Last(timeline') = row
  <2>1. PICK S : timeline \in Seq(S)
    BY DEF ScheduleInvariant
  <2>2. timeline \in Seq(S \cup {row}) /\ row \in S \cup {row}
    BY <2>1
  <2>3. Len(timeline) = second
    BY DEF ScheduleInvariant
  <2> HIDE DEF row
  <2>4. /\ Append(timeline, row) \in Seq(S \cup {row})
        /\ Len(Append(timeline, row)) = Len(timeline) + 1
        /\ Append(timeline, row)[Len(timeline) + 1] = row
    BY <2>2, AppendProperties
  <2> QED BY <1>1, <1>8, <2>3, <2>4 DEF Last
<1>12. SuiteFailures(values, offsets, demanded', scheduled') = {}
  <2>1. ASSUME NEW i \in DOMAIN offsets
        PROVE  /\ ~(offsets[i] <= (IF i = 1 THEN lastOffset ELSE offsets[i - 1]))
               /\ offsets[i] \in 0..(n * MICROS - 1)
    <3>1. i \in 1..count /\ offsets[i] \in (second * MICROS)..(second * MICROS + MICROS - 1)
      BY <1>7
    <3>2. lastOffset \in Int /\ lastOffset < second * MICROS
      BY DEF ScheduleInvariant
    <3>3. i # 1 => i - 1 \in 1..count /\ offsets[i - 1] < offsets[i]
      BY <1>6, <1>7, <3>1
    <3>4. i # 1 => offsets[i - 1] \in Int
      BY <1>7, <1>8, <3>3
    <3>5. PICK o \in Int, m \in Nat : o = offsets[i] /\ m = second * MICROS /\ m <= o /\ o <= n * MICROS - 1
      <4>1. PICK M \in Nat : M = MICROS
        BY Micros
      <4>2. PICK m \in Nat, u \in Int : m = second * MICROS /\ u = n * MICROS /\ m + M - 1 <= u - 1
        BY <1>8, <4>1
      <4>3. offsets[i] \in m..(m + M - 1)
        BY <3>1, <4>1, <4>2
      <4> QED BY <4>2, <4>3
    <3>6. o \in 0..(n * MICROS - 1)
      BY <1>8, <3>5
    <3>7. lastOffset < o
      BY <3>2, <3>5
    <3> QED BY <3>2, <3>3, <3>4, <3>5, <3>6, <3>7
  <2>2. ~(demanded' - scheduled' * Rps >= Rps \/ scheduled' * Rps - demanded' >= Rps)
    <3>1. PICK p \in Int : p = scheduled' * r
      <4>1. PICK s \in Nat : s = scheduled'
        BY <1>9
      <4>2. s * r \in Int
        OBVIOUS
      <4> QED BY <4>1, <4>2
    <3>2. PICK y \in Int : y = x - count * r /\ -T <= y /\ y < r - T
      <4>1. x - count * r \in Int
        BY <1>9, <3>1
      <4> QED BY <1>6, <4>1
    <3>3. demanded' - p = y /\ demanded' \in Nat
      BY <1>9, <3>1, <3>2
    <3> QED BY <1>4, <3>1, <3>2, <3>3
  <2>3. ~(values[second] <= 0 \/ OracleReplicas(values[second]) = NoReplicas)
    <3>1. values[second] \in Nat \ {0}
      BY <1>4, <1>5 DEF rate
    <3>2. RequiredReplicas(CapacityLookup, values[second] * SafetyFactor) # NoReplicas
      BY <1>1, <1>5, DemandAssumption DEF values
    <3>3. PICK v \in Nat \ {0}, f \in Nat \ {0} : v = values[second] /\ f = SafetyFactor
      BY <3>1, SuitePolicyAssumption
    <3>4. v * f \in Int /\ v <= v * f
      OBVIOUS
    <3> QED BY <3>1, <3>2, <3>3, <3>4, RequiredGrows DEF OracleReplicas
  <2>4. Duration(values) * MICROS - 1 = n * MICROS - 1
    BY <1>3
  <2> QED BY <2>1, <2>2, <2>3, <2>4 DEF SuiteFailures, Complaint
<1>13. LoaderFailures(values, offsets, scheduled') = {}
  <2>1. ASSUME NEW i \in DOMAIN offsets
        PROVE  ~(offsets[i] < (IF i = 1 THEN Max({lastOffset, 0}) ELSE offsets[i - 1]))
    <3>1. i \in 1..count /\ offsets[i] \in (second * MICROS)..(second * MICROS + MICROS - 1)
      BY <1>7
    <3>2. lastOffset \in Int /\ lastOffset < second * MICROS
      BY DEF ScheduleInvariant
    <3>3. Max({lastOffset, 0}) = IF lastOffset >= 0 THEN lastOffset ELSE 0
      BY <3>2, MaxOfTwo
    <3>4. i # 1 => i - 1 \in 1..count /\ offsets[i - 1] < offsets[i]
      BY <1>6, <1>7, <3>1
    <3>5. i # 1 => offsets[i - 1] \in Int
      BY <1>7, <1>8, <3>4
    <3>6. offsets[i] \in Int /\ offsets[i] >= second * MICROS
      BY <1>8, <3>1
    <3>7. ~(offsets[i] < Max({lastOffset, 0}))
      BY <1>8, <3>2, <3>3, <3>6
    <3> QED BY <3>4, <3>5, <3>6, <3>7
  <2>2. scheduled' # 0
    BY <1>1, <1>6 DEF ScheduleInvariant
  <2> QED BY <2>1, <2>2 DEF LoaderFailures, Complaint
<1>14. RowFailures(values, timeline') \cap ScheduleComplaints = {}
  <2>1. /\ row.issued = second /\ row.target = second + Horizon /\ row.rate = future
    BY DEF OracleRow
  <2>2. Horizon \in Nat \ {0}
    BY HorizonAssumption
  <2>3. future = IF second + Horizon \in DOMAIN values THEN values[second + Horizon]
                 ELSE values[Duration(values) - 1]
    <3>1. second + Horizon \in Nat
      BY <1>8, <2>2
    <3>2. ValueAt(values, second + Horizon)
            = values[IF second + Horizon \in 0..(n - 1) THEN second + Horizon ELSE n - 1]
      BY <1>3, <1>5, <3>1, SampleIs DEF values
    <3> QED BY <1>3, <3>2 DEF future, FutureRate
  <2>4. Len(timeline') - 1 = second /\ (Len(timeline') - 1) + Horizon = second + Horizon
    BY <1>8, <1>11, <2>2
  <2>5. second + 1 \in DOMAIN values \/ (Len(timeline') = Duration(values) /\ TraceDefs[trace].events # {})
    BY <1>3, <1>5, <1>8, <1>11
  <2>6. row.target - row.issued = Horizon
    BY <1>8, <2>1, <2>2
  <2>7. RowFailures(values, timeline')
          \subseteq {"workload oracle replica mismatch", "decision-time oracle mismatch"}
    <3> HIDE DEF row
    <3> QED BY <1>11, <2>1, <2>3, <2>4, <2>5, <2>6 DEF RowFailures, Complaint
  <2> QED BY <2>7 DEF ScheduleComplaints
<1>15. OracleFailures(future, commanded, commanded') \cap ScheduleComplaints = {}
  <2>1. OracleFailures(future, commanded, commanded')
          \subseteq {"raw oracle mismatch", "step restriction"}
    BY DEF OracleFailures, Complaint
  <2> QED BY <2>1 DEF ScheduleComplaints
<1>16. ManualFailures \cap ScheduleComplaints = {}
  <2>1. ManualFailures \subseteq {"manual capacity case failed"}
    BY DEF ManualFailures, Complaint
  <2> QED BY <2>1 DEF ScheduleComplaints
<1>17. TraceFailures(trace) \cap ScheduleComplaints = {}
  <2>1. TraceFailures(trace)
          \subseteq {"nonzero_minimum", "within_validated_capacity", "required_annotations",
                     "control_stays_one_pod", "crosses_replica_boundary"}
    BY DEF TraceFailures, Complaint
  <2> QED BY <2>1 DEF ScheduleComplaints
<1>18. ExampleFailures(timeline', scheduled') \cap ScheduleComplaints = {}
  <2>1. ExampleFailures(timeline', scheduled')
          \subseteq {"packaged request schedule has the wrong row count",
                     "controller decision ticks are not contiguous",
                     "controller decision count is incorrect",
                     "controller raw-replica decisions disagree",
                     "controller transitions do not match"}
    BY ExampleTexts
  <2> QED BY <2>1 DEF ScheduleComplaints
<1>19. failures' \cap ScheduleComplaints = {}
  <2>1. failures \cap ScheduleComplaints = {}
    BY DEF ScheduleInvariant
  <2> HIDE DEF x, row
  <2> QED BY <1>2, <1>12, <1>13, <1>14, <1>15, <1>16, <1>17, <1>18, <2>1
<1>20. second' \in Nat /\ second' <= Duration(ValuesOf(trace))
  BY <1>1, <1>3, <1>8 DEF values
<1>21. carry' \in Int /\ -Tolerance <= carry' /\ carry' < Rps - Tolerance
       /\ demanded' - scheduled' * Rps = carry'
  <2>1. PICK p \in Int : p = scheduled' * r
    <3>1. PICK s \in Nat : s = scheduled'
      BY <1>9
    <3>2. s * r \in Int
      OBVIOUS
    <3> QED BY <3>1, <3>2
  <2> QED BY <1>1, <1>4, <1>6, <1>9, <2>1
<1>22. (Duration(ValuesOf(trace)))' = Duration(ValuesOf(trace))
  BY <1>1
<1> HIDE DEF x, row
<1> QED BY <1>1, <1>5, <1>9, <1>10, <1>11, <1>19, <1>20, <1>21, <1>22 DEF ScheduleInvariant

\* Before the first second of a trace nothing is scheduled.
LEMMA NothingScheduled ==
  ASSUME Tolerance < Rps, trace \in DOMAIN TraceDefs, second = 0, carry = 0, lastOffset = -1,
         demanded = 0, scheduled = 0, timeline = << >>, failures \cap ScheduleComplaints = {}
  PROVE  ScheduleInvariant
<1>1. PICK n \in Nat \ {0} : Duration(ValuesOf(trace)) = n
  BY TraceShape
<1>2. Rps \in Nat /\ Tolerance \in Nat
  BY RpsAssumption, ToleranceAssumption
<1>3. timeline \in Seq(Int) /\ Len(timeline) = 0
  OBVIOUS
<1>4. demanded - scheduled * Rps = carry /\ lastOffset < second * MICROS
  <2>1. 0 * MICROS = 0
    BY Micros
  <2> QED BY <1>2, <2>1
<1> QED BY <1>1, <1>2, <1>3, <1>4 DEF ScheduleInvariant

\* So it is for every trace.
LEMMA ScheduleInvariantHolds ==
  ASSUME Tolerance < Rps
  PROVE  OfflineSpec => []ScheduleInvariant
<1>0. TraceIds[1] \in DOMAIN TraceDefs
  BY DEF TraceIds, TraceDefs
<1>1. OfflineInit => ScheduleInvariant
  BY <1>0, NothingScheduled DEF OfflineInit, SuiteInit, Engine!RefInit
<1>2. ASSUME ScheduleInvariant, [OfflineNext]_offlineVars
      PROVE  ScheduleInvariant'
  <2>1. CASE UNCHANGED suiteVars
    BY <1>2, <2>1 DEF suiteVars, ScheduleInvariant
  <2>2. CASE Second
    BY <1>2, <2>2, SecondKeepsSchedule
  <2>3. CASE trace' \in DOMAIN TraceDefs /\ Fresh
    <3>1. (/\ trace \in DOMAIN TraceDefs /\ second = 0 /\ carry = 0 /\ lastOffset = -1
           /\ demanded = 0 /\ scheduled = 0 /\ timeline = << >>
           /\ failures \cap ScheduleComplaints = {})'
      BY <1>2, <2>3 DEF Fresh, ScheduleInvariant
    <3> QED BY <3>1, NothingScheduled, PTL
  <2>4. NextTrace \/ SuiteExits => trace' \in DOMAIN TraceDefs /\ Fresh
    <3>1. Len(TraceIds) = 5
      BY DEF TraceIds
    <3>2. \A i \in 1..(Len(TraceIds) - 1) : i + 1 \in 1..Len(TraceIds)
      BY <3>1
    <3> QED BY <1>0, <3>2, TracesAreDefined DEF NextTrace, SuiteExits
  <2> QED
    <3>1. SuiteNext \/ SuiteExits \/ UNCHANGED suiteVars
      BY <1>2 DEF OfflineNext, Proceed, Dataset, Study, offlineVars, datasetVars
    <3> QED BY <2>1, <2>2, <2>3, <2>4, <3>1 DEF SuiteNext
<1> QED BY <1>1, <1>2, PTL DEF OfflineSpec

\* For any table, policy, horizon and unit of rates whose tolerance is less than a request:
\* the offsets of every trace increase and stay inside it, the schedule never drifts
\* by a request from the demand, and every row of the oracle is the demand a horizon
\* later (request_schedule, validate_workload_suite.py).
THEOREM SchedulesNeverDrift ==
  ASSUME Tolerance < Rps
  PROVE  OfflineSpec => [](failures \cap ScheduleComplaints = {})
<1>1. ScheduleInvariant => failures \cap ScheduleComplaints = {}
  BY DEF ScheduleInvariant
<1> QED BY <1>1, ScheduleInvariantHolds, PTL

-----------------------------------------------------------------------------
(* The study protocol.                                                     *)

\* What a run in the matrix is.
LEMMA RowShape ==
  \A r \in Rows :
    \/ \E p \in Pairs, s \in {"a", "b"}, k \in 1..Blocks : r = Run("primary", p, s, k, FALSE)
    \/ \E w \in References, k \in 1..FewBlocks : r = Run("reference", w, "reference", k, FALSE)
    \/ \E c \in SafetyCells, k \in 1..FewBlocks :
         r = Run("secondary_safety", c[1], c[2], k, TRUE)
<1> TAKE r \in Rows
<1>1. CASE r \in {Run("primary", p, s, k, FALSE) : p \in Pairs, s \in {"a", "b"}, k \in 1..Blocks}
  <2>1. \E p \in Pairs, s \in {"a", "b"}, k \in 1..Blocks : r = Run("primary", p, s, k, FALSE)
    BY <1>1 DEF Run
  <2> QED BY <2>1
<1>2. CASE r \in {Run("reference", w, "reference", k, FALSE) : w \in References, k \in 1..FewBlocks}
  <2>1. \E w \in References, k \in 1..FewBlocks : r = Run("reference", w, "reference", k, FALSE)
    BY <1>2 DEF Run
  <2> QED BY <2>1
<1>3. CASE r \in {Run("secondary_safety", c[1], c[2], k, TRUE) : c \in SafetyCells, k \in 1..FewBlocks}
  <2>1. \E c \in SafetyCells, k \in 1..FewBlocks :
          r = Run("secondary_safety", c[1], c[2], k, TRUE)
    BY <1>3 DEF Run
  <2> QED BY <2>1
<1> QED BY <1>1, <1>2, <1>3 DEF Rows, Run

\* The matrix is finite.
LEMMA RowsAreFinite == IsFiniteSet(Rows)
<1> DEFINE P == (Pairs \X {"a", "b"}) \X (1..Blocks)
           W == References \X (1..FewBlocks)
           S == SafetyCells \X (1..FewBlocks)
           fP == [x \in P |-> Run("primary", x[1][1], x[1][2], x[2], FALSE)]
           fW == [x \in W |-> Run("reference", x[1], "reference", x[2], FALSE)]
           fS == [x \in S |-> Run("secondary_safety", x[1][1], x[1][2], x[2], TRUE)]
<1>1. IsFiniteSet(1..Blocks) /\ IsFiniteSet(1..FewBlocks) /\ IsFiniteSet({"a", "b"})
  <2>1. IsFiniteSet({"a"} \cup {"b"}) 
    BY FS_Singleton, FS_Union
  <2>2. Blocks \in Int /\ FewBlocks \in Int
    BY ProtocolAssumption
  <2>3. IsFiniteSet({"a", "b"})
    <3>1. {"a"} \cup {"b"} = {"a", "b"}
      OBVIOUS
    <3> QED BY <2>1, <3>1, Zenon
  <2>4. IsFiniteSet(1..Blocks) /\ IsFiniteSet(1..FewBlocks)
    BY <2>2, FS_Interval
  <2> QED BY <2>3, <2>4
<1>2. IsFiniteSet(Pairs \X {"a", "b"})
  BY <1>1, FS_Product, ProtocolAssumption
<1>3. IsFiniteSet(SafetyCells)
  BY <1>2, FS_Subset, ProtocolAssumption
<1>4. IsFiniteSet(P) /\ IsFiniteSet(W) /\ IsFiniteSet(S)
  BY <1>1, <1>2, <1>3, FS_Product, ProtocolAssumption
<1>5. \A A, B : \A f \in Surjection(A, B) : IsFiniteSet(A) => IsFiniteSet(B)
  BY FS_Surjection
<1> DEFINE iP == {fP[x] : x \in P}
           iW == {fW[x] : x \in W}
           iS == {fS[x] : x \in S}
<1>6. fP \in Surjection(P, iP) /\ fW \in Surjection(W, iW) /\ fS \in Surjection(S, iS)
  <2> HIDE DEF P, W, S
  <2> QED BY DEF Surjection
<1>7. IsFiniteSet(iP \cup iW \cup iS)
  <2> HIDE DEF iP, iW, iS, P, W, S, fP, fW, fS
  <2>1. IsFiniteSet(iP) /\ IsFiniteSet(iW) /\ IsFiniteSet(iS)
    BY <1>4, <1>5, <1>6
  <2> QED BY <2>1, FS_Union
<1>8. Rows \subseteq iP \cup iW \cup iS
  <2> SUFFICES ASSUME NEW r \in Rows
               PROVE  r \in iP \/ r \in iW \/ r \in iS
    OBVIOUS
  <2>1. CASE \E p \in Pairs, s \in {"a", "b"}, k \in 1..Blocks :
               r = Run("primary", p, s, k, FALSE)
    <3>1. PICK p \in Pairs, s \in {"a", "b"}, k \in 1..Blocks :
            r = Run("primary", p, s, k, FALSE)
      BY <2>1
    <3>2. <<<<p, s>>, k>> \in P /\ fP[<<<<p, s>>, k>>] = r
      BY <3>1
    <3> HIDE DEF P, fP
    <3> QED BY <3>2
  <2>2. CASE \E w \in References, k \in 1..FewBlocks :
               r = Run("reference", w, "reference", k, FALSE)
    <3>1. PICK w \in References, k \in 1..FewBlocks :
            r = Run("reference", w, "reference", k, FALSE)
      BY <2>2
    <3>2. <<w, k>> \in W /\ fW[<<w, k>>] = r
      BY <3>1
    <3> HIDE DEF W, fW
    <3> QED BY <3>2
  <2>3. CASE \E c \in SafetyCells, k \in 1..FewBlocks :
               r = Run("secondary_safety", c[1], c[2], k, TRUE)
    <3>1. PICK c \in SafetyCells, k \in 1..FewBlocks :
            r = Run("secondary_safety", c[1], c[2], k, TRUE)
      BY <2>3
    <3>2. <<c, k>> \in S /\ fS[<<c, k>>] = r
      BY <3>1
    <3> HIDE DEF S, fS
    <3> QED BY <3>2
  <2> QED BY <2>1, <2>2, <2>3, RowShape
<1>9. Rows \in SUBSET (iP \cup iW \cup iS)
  BY <1>8
<1> HIDE DEF iP, iW, iS
<1> QED BY <1>7, <1>9, FS_Subset

\* The order lists planned runs, none twice, by ascending repetition; the campaign starts
\* with all of them; what it accepts are its own runs; every safety run of the table
\* has its one comparator in the matrix.
ProtocolInvariant ==
  /\ order \in Seq(Rows)
  /\ \A i, j \in DOMAIN order : i <= j => order[i].repetition <= order[j].repetition
  /\ \A i, j \in DOMAIN order : order[i] = order[j] => i = j
  /\ step \in {"campaign", "matrix", "process", "processed"} =>
       /\ ToSet(order) = Rows
       /\ Planned("primary") = 2 * Cardinality(Pairs) * Blocks
       /\ Planned("reference") = Cardinality(References) * FewBlocks
  /\ \A r \in completed : r \in ToSet(order) /\ InCampaign(r)
  /\ step \in {"process", "processed"} =>
       /\ \A row \in SafetyRuns : \E r : r \in Matches(row)
       /\ matrix = SafetyMatrix
  /\ table = IF step = "processed" THEN completed \cup SafetyRuns ELSE {}

\* A row's fields.
LEMMA RowFields ==
  ASSUME NEW r \in Rows
  PROVE  /\ r.repetition \in 1..Blocks /\ r.repetition \in Nat
         /\ r.phase = "primary" =>
              /\ r.pair \in Pairs /\ r.side \in {"a", "b"} /\ r.safety = FALSE
              /\ r = Run("primary", r.pair, r.side, r.repetition, FALSE)
         /\ r.phase = "secondary_safety" =>
              /\ <<r.pair, r.side>> \in SafetyCells /\ r.repetition \in 1..FewBlocks
              /\ r.side \in {"a", "b"} /\ r.safety = TRUE
              /\ r = Run("secondary_safety", r.pair, r.side, r.repetition, TRUE)
         /\ r.phase = "reference" => r.side = "reference" /\ r.safety = FALSE
         /\ r.phase # "reference" => r.condition = ConditionOf[<<r.pair, r.side>>]
         /\ r.phase \in {"primary", "reference", "secondary_safety"}
<1>1. CASE \E p \in Pairs, s \in {"a", "b"}, k \in 1..Blocks : r = Run("primary", p, s, k, FALSE)
  BY <1>1, ProtocolAssumption DEF Run, Semantic
<1>2. CASE \E w \in References, k \in 1..FewBlocks : r = Run("reference", w, "reference", k, FALSE)
  BY <1>2, ProtocolAssumption DEF Run, Semantic
<1>3. CASE \E c \in SafetyCells, k \in 1..FewBlocks :
             r = Run("secondary_safety", c[1], c[2], k, TRUE)
  <2>1. PICK c \in SafetyCells, k \in 1..FewBlocks :
          r = Run("secondary_safety", c[1], c[2], k, TRUE)
    BY <1>3
  <2>2. PICK p \in Pairs, s \in {"a", "b"} : c = <<p, s>>
    BY ProtocolAssumption
  <2> QED BY <2>1, <2>2, ProtocolAssumption DEF Run, Semantic
<1> QED BY <1>1, <1>2, <1>3, RowShape

\* The next block extends an order of blocks by one more.
LEMMA BlockExtends ==
  ASSUME ProtocolInvariant, OrderBlock
  PROVE  /\ order' \in Seq(Rows)
         /\ \A i, j \in DOMAIN order' : i <= j => order'[i].repetition <= order'[j].repetition
         /\ \A i, j \in DOMAIN order' : order'[i] = order'[j] => i = j
         /\ ToSet(order) \subseteq ToSet(order')
<1> DEFINE n == Len(order)
           c == Cardinality(OfBlock(Block))
<1>0. \A r \in Rows : r.repetition \in Nat
  BY RowFields
<1>1. IsFiniteSet(OfBlock(Block)) /\ c \in Nat /\ OfBlock(Block) \subseteq Rows
  BY RowsAreFinite, FS_Subset, FS_CardinalityType DEF OfBlock
<1>2. PICK o \in SetToSeqs(OfBlock(Block)) : order' = order \o o
  BY DEF OrderBlock
<1>3. /\ o \in [1..c -> OfBlock(Block)]
      /\ \A i, j \in 1..c : i # j => o[i] # o[j]
  BY <1>2 DEF SetToSeqs
<1>4. /\ o \in Seq(OfBlock(Block)) /\ Len(o) = c /\ DOMAIN o = 1..c
      /\ o \in Seq(Rows)
  BY <1>1, <1>3
<1>5. /\ order \in Seq(Rows) /\ n \in Nat /\ DOMAIN order = 1..n
      /\ \A i, j \in 1..n : i <= j => order[i].repetition <= order[j].repetition
      /\ \A i, j \in 1..n : order[i] = order[j] => i = j
      /\ \A i \in 1..n : order[i] \in Rows
  BY DEF ProtocolInvariant
<1>6. /\ order' \in Seq(Rows) /\ DOMAIN order' = 1..(n + c)
      /\ \A i \in 1..n : order'[i] = order[i]
      /\ \A i \in (n + 1)..(n + c) : order'[i] = o[i - n] /\ i - n \in 1..c
  <2>1. \A m \in Nat : m = Len(o) =>
            /\ order \o o \in Seq(Rows) /\ DOMAIN (order \o o) = 1..(n + m)
            /\ \A i \in 1..n : (order \o o)[i] = order[i]
            /\ \A i \in (n + 1)..(n + m) : (order \o o)[i] = o[i - n] /\ i - n \in 1..m
    BY <1>4, <1>5
  <2> HIDE DEF c
  <2> QED BY <1>1, <1>2, <1>4, <2>1
<1>7. \A i \in 1..n : order[i].repetition \in Int /\ order[i].repetition < Block
  <2> TAKE i \in 1..n
  <2>1. order # << >> /\ Last(order) = order[n] /\ n \in 1..n
    BY <1>5 DEF Last
  <2>2. order[i].repetition <= order[n].repetition
    BY <1>5, <2>1
  <2>3. order[i].repetition \in Int /\ order[n].repetition \in Int
    BY <1>5, <2>1, <1>0
  <2>4. Block = order[n].repetition + 1
    BY <2>1 DEF Block
  <2> QED BY <2>2, <2>3, <2>4
<1>8. \A i \in (n + 1)..(n + c) : order'[i].repetition = Block /\ order'[i] \in Rows
  BY <1>3, <1>6 DEF OfBlock
<1>9. Block \in Int
  <2>1. CASE order = << >>
    BY <2>1 DEF Block
  <2>2. CASE order # << >>
    <3>1. n \in 1..n
      BY <1>5, <2>2
    <3>2. order[n].repetition \in Int
      BY <1>5, <3>1, <1>0
    <3>3. Block = order[n].repetition + 1
      BY <2>2 DEF Block, Last
    <3> QED BY <3>2, <3>3
  <2> QED BY <2>1, <2>2
<1> DEFINE New(i) == i \in (n + 1)..(n + c)
<1>10. \A i \in DOMAIN order' : i \in 1..n \/ New(i)
  <2> HIDE DEF c
  <2> QED BY <1>1, <1>5, <1>6
<1>11. \A i, j \in DOMAIN order' : i <= j => order'[i].repetition <= order'[j].repetition
  <2> SUFFICES ASSUME NEW i \in DOMAIN order', NEW j \in DOMAIN order', i <= j
               PROVE  order'[i].repetition <= order'[j].repetition
    OBVIOUS
  <2>1. CASE i \in 1..n /\ j \in 1..n
    BY <1>5, <1>6, <2>1
  <2>2. CASE i \in 1..n /\ New(j)
    <3>1. order'[i].repetition \in Int /\ order'[i].repetition < Block
      BY <1>6, <1>7, <2>2
    <3>2. order'[j].repetition = Block
      BY <1>8, <2>2
    <3> QED BY <1>9, <3>1, <3>2
  <2>3. CASE New(i) /\ New(j)
    <3>1. order'[i].repetition = Block /\ order'[j].repetition = Block
      BY <1>8, <2>3
    <3> QED BY <1>9, <3>1
  <2>4. ~ (New(i) /\ j \in 1..n)
    <3> HIDE DEF c
    <3> QED BY <1>1, <1>5
  <2> QED BY <1>10, <2>1, <2>2, <2>3, <2>4
<1>12. \A i, j \in DOMAIN order' : order'[i] = order'[j] => i = j
  <2> SUFFICES ASSUME NEW i \in DOMAIN order', NEW j \in DOMAIN order', order'[i] = order'[j]
               PROVE  i = j
    OBVIOUS
  <2>1. CASE i \in 1..n /\ j \in 1..n
    BY <1>5, <1>6, <2>1
  <2>2. CASE New(i) /\ New(j)
    <3>1. i - n \in 1..c /\ j - n \in 1..c /\ o[i - n] = o[j - n]
      BY <1>6, <2>2
    <3>2. i - n = j - n
      BY <1>3, <3>1
    <3>3. i \in Int /\ j \in Int
      BY <2>2
    <3> QED BY <1>5, <3>2, <3>3
  <2>3. ~ (i \in 1..n /\ New(j)) /\ ~ (j \in 1..n /\ New(i))
    <3>1. \A k \in 1..n : order'[k].repetition \in Int /\ order'[k].repetition < Block
      BY <1>6, <1>7
    <3>2. \A k : New(k) => order'[k].repetition = Block
      BY <1>8
    <3>3. order'[i].repetition = order'[j].repetition
      OBVIOUS
    <3> HIDE DEF New
    <3> QED BY <1>9, <3>1, <3>2, <3>3
  <2> QED BY <1>10, <2>1, <2>2, <2>3
<1>13. ToSet(order) \subseteq ToSet(order')
  <2>1. \A i \in 1..n : i \in DOMAIN order' /\ order'[i] = order[i]
    <3> HIDE DEF c
    <3> QED BY <1>1, <1>5, <1>6
  <2> QED BY <1>5, <2>1 DEF ToSet
<1> QED BY <1>6, <1>11, <1>12, <1>13

\* What the programs of the protocol write keeps the invariant.
LEMMA ProtocolInvariantKept ==
  ASSUME ProtocolInvariant, ProtocolNext
  PROVE  ProtocolInvariant'
<1>0. /\ order \in Seq(Rows)
      /\ \A r \in completed : r \in ToSet(order) /\ InCampaign(r)
      /\ table = IF step = "processed" THEN completed \cup SafetyRuns ELSE {}
  BY DEF ProtocolInvariant
<1>1. CASE OrderBlock
  <2>1. /\ step = "order" /\ step' = "order" /\ completed' = completed /\ table' = {}
    BY <1>0, <1>1 DEF OrderBlock
  <2>2. \A r \in completed' : r \in ToSet(order') /\ InCampaign(r)'
    BY <1>0, <1>1, <2>1, BlockExtends DEF InCampaign
  <2>3. /\ order' \in Seq(Rows)
        /\ \A i, j \in DOMAIN order' : i <= j => order'[i].repetition <= order'[j].repetition
        /\ \A i, j \in DOMAIN order' : order'[i] = order'[j] => i = j
    BY <1>1, BlockExtends
  <2> QED BY <2>1, <2>2, <2>3 DEF ProtocolInvariant
<1>2. CASE Freeze
  <2>1. /\ step = "order" /\ step' \in {"campaign", "failed"} /\ order' = order
        /\ completed' = completed /\ matrix' = matrix /\ table' = table
    BY <1>2 DEF Freeze
  <2>2. step' = "campaign" => /\ ToSet(order) = Rows
                              /\ Planned("primary") = 2 * Cardinality(Pairs) * Blocks
                              /\ Planned("reference") = Cardinality(References) * FewBlocks
    BY <1>2 DEF Freeze
  <2> QED BY <2>1, <2>2 DEF ProtocolInvariant, ToSet, Planned, InCampaign
<1>3. CASE Finalize
  <2>1. /\ step = "campaign" /\ step' = "matrix" /\ order' = order
        /\ matrix' = matrix /\ table' = table
        /\ \A r \in completed' : r \in ToSet(order) /\ InCampaign(r)
    BY <1>3 DEF Finalize
  <2> QED BY <2>1 DEF ProtocolInvariant, ToSet, Planned, InCampaign
<1>4. CASE BuildMatrix
  <2>1. /\ step = "matrix" /\ step' \in {"process", "failed"} /\ order' = order
        /\ completed' = completed /\ table' = table
    BY <1>4 DEF BuildMatrix
  <2>2. SafetyRuns' = SafetyRuns /\ \A row : Matches(row)' = Matches(row)
    BY <2>1 DEF SafetyRuns, Matches, ToSet
  <2>3. ASSUME step' = "process"
        PROVE  /\ \A row \in SafetyRuns : \E r : r \in Matches(row)
               /\ matrix' = SafetyMatrix
    <3>1. \A row \in SafetyRuns : Cardinality(Matches(row)) = 1
      BY <1>4, <2>1, <2>3 DEF BuildMatrix
    <3>2. \A row \in SafetyRuns : Matches(row) # {}
      BY <3>1, FS_EmptySet
    <3>3. matrix' = SafetyMatrix
      BY <1>4, <2>1, <2>3 DEF BuildMatrix
    <3> QED BY <3>2, <3>3
  <2>4. step' = "process" =>
          /\ \A row \in SafetyRuns' : \E r : r \in Matches(row)'
          /\ matrix' = SafetyMatrix'
    BY <2>2, <2>3 DEF SafetyMatrix
  <2>5. ToSet(order)' = ToSet(order) /\ \A q : Planned(q)' = Planned(q)
    BY <2>1 DEF ToSet, Planned
  <2> QED BY <2>1, <2>4, <2>5 DEF ProtocolInvariant, InCampaign
<1>5. CASE Process
  <2>1. /\ step = "process" /\ step' \in {"processed", "failed"} /\ order' = order
        /\ completed' = completed /\ matrix' = matrix
    BY <1>5 DEF Process
  <2>2. SafetyRuns' = SafetyRuns /\ \A row : Matches(row)' = Matches(row)
    BY <2>1 DEF SafetyRuns, Matches, ToSet
  <2>3. ToSet(order)' = ToSet(order) /\ \A q : Planned(q)' = Planned(q)
    BY <2>1 DEF ToSet, Planned
  <2>4. /\ \A row \in SafetyRuns : \E r : r \in Matches(row)
        /\ matrix = UNION {{[run |-> row, off |-> r] : r \in Matches(row)} : row \in SafetyRuns}
    BY <2>1 DEF ProtocolInvariant, SafetyMatrix
  <2>5. {m.run : m \in matrix} = SafetyRuns
    <3>1. ASSUME NEW row \in SafetyRuns PROVE row \in {m.run : m \in matrix}
      <4>1. PICK r : r \in Matches(row)
        BY <2>4
      <4>2. [run |-> row, off |-> r] \in matrix
        BY <2>4, <4>1
      <4> QED BY <4>2
    <3>2. ASSUME NEW m \in matrix PROVE m.run \in SafetyRuns
      BY <2>4
    <3> QED BY <3>1, <3>2
  <2>6. table' = IF step' = "processed" THEN completed \cup SafetyRuns ELSE {}
    BY <1>0, <1>5, <2>1, <2>5 DEF Process
  <2>7. matrix' = SafetyMatrix'
    BY <2>1, <2>2, <2>4 DEF SafetyMatrix
  <2> QED BY <2>1, <2>2, <2>3, <2>4, <2>6, <2>7 DEF ProtocolInvariant, InCampaign
<1> QED BY <1>1, <1>2, <1>3, <1>4, <1>5 DEF ProtocolNext

\* A block is where its repetition stands, one stretch of the order.
LEMMA BlockIsOneStretch ==
  ASSUME ProtocolInvariant, NEW x \in ToSet(order)
  PROVE  /\ BlockOf(x) = {i \in DOMAIN order : order[i].repetition = x.repetition}
         /\ BlockOf(x) = Min(BlockOf(x))..Max(BlockOf(x))
<1> DEFINE B == {i \in DOMAIN order : order[i].repetition = x.repetition}
           n == Len(order)
<1>1. PICK k \in DOMAIN order : order[k] = x
  BY DEF ToSet
<1>2. order[Position(x)] = x
  BY <1>1 DEF Position
<1>3. BlockOf(x) = B
  BY <1>2 DEF BlockOf
<1>4. n \in Nat /\ DOMAIN order = 1..n /\ \A i \in 1..n : order[i].repetition \in Nat
  <2>1. order \in Seq(Rows)
    BY DEF ProtocolInvariant
  <2>2. \A r \in Rows : r.repetition \in Nat
    BY RowFields
  <2> QED BY <2>1, <2>2
<1>5. \A i, j \in 1..n : i <= j => order[i].repetition <= order[j].repetition
  BY <1>4 DEF ProtocolInvariant
<1>6. B \subseteq Nat /\ B # {} /\ \A i \in B : i <= n
  BY <1>1, <1>4
<1>7. Min(B) \in B /\ Max(B) \in B /\ \A i \in B : Min(B) <= i /\ i <= Max(B)
  BY <1>4, <1>6, MinNat, MaxNat
<1>8. \A i \in Min(B)..Max(B) : i \in B
  <2> DEFINE lo == Min(B)
             hi == Max(B)
  <2>1. /\ lo \in 1..n /\ hi \in 1..n
        /\ order[lo].repetition = x.repetition /\ order[hi].repetition = x.repetition
    BY <1>4, <1>7
  <2> HIDE DEF lo, hi
  <2> SUFFICES ASSUME NEW i \in lo..hi PROVE i \in B
    BY DEF lo, hi
  <2>2. i \in 1..n /\ lo <= i /\ i <= hi
    BY <1>4, <2>1
  <2>3. order[lo].repetition <= order[i].repetition /\ order[i].repetition <= order[hi].repetition
    BY <1>5, <2>1, <2>2
  <2>4. order[i].repetition = x.repetition
    BY <1>4, <2>1, <2>2, <2>3
  <2> QED BY <1>4, <2>2, <2>4
<1>9. \A i \in B : i \in Min(B)..Max(B)
  BY <1>6, <1>7
<1>10. B = Min(B)..Max(B)
  <2> HIDE DEF B
  <2> QED BY <1>8, <1>9
<1> QED BY <1>3, <1>10

\* The runs of a condition in the table.
LEMMA TableRuns ==
  ASSUME ProtocolInvariant, NEW p, NEW s
  PROVE  /\ \A r \in Runs("primary", p, s) :
              /\ r \in completed /\ r \in Rows /\ r \in ToSet(order) /\ step = "processed"
              /\ p \in Pairs /\ s \in {"a", "b"} /\ r.repetition \in 1..Blocks
              /\ r = Run("primary", p, s, r.repetition, FALSE)
         /\ \A r \in Runs("secondary_safety", p, s) :
              /\ r \in SafetyRuns /\ r \in Rows /\ r \in ToSet(order) /\ step = "processed"
              /\ <<p, s>> \in SafetyCells /\ s \in {"a", "b"} /\ r.repetition \in 1..FewBlocks
              /\ r = Run("secondary_safety", p, s, r.repetition, TRUE)
<1>1. \A r \in ToSet(order) : r \in Rows
  BY DEF ProtocolInvariant, ToSet
<1>2. /\ \A r \in completed : r \in ToSet(order) /\ InCampaign(r)
      /\ table = IF step = "processed" THEN completed \cup SafetyRuns ELSE {}
  BY DEF ProtocolInvariant
<1>3. \A r \in SafetyRuns : r \in ToSet(order) /\ r.phase = "secondary_safety"
  BY DEF SafetyRuns
<1>4. ASSUME NEW r \in Runs("primary", p, s)
      PROVE  /\ r \in completed /\ r \in Rows /\ r \in ToSet(order) /\ step = "processed"
             /\ p \in Pairs /\ s \in {"a", "b"} /\ r.repetition \in 1..Blocks
             /\ r = Run("primary", p, s, r.repetition, FALSE)
  <2>1. r \in table /\ r.phase = "primary" /\ r.pair = p /\ r.side = s
    BY DEF Runs
  <2>2. r \in completed /\ r \in ToSet(order) /\ r \in Rows /\ step = "processed"
    BY <1>1, <1>2, <1>3, <2>1
  <2> QED BY <2>1, <2>2, RowFields
<1>5. ASSUME NEW r \in Runs("secondary_safety", p, s)
      PROVE  /\ r \in SafetyRuns /\ r \in Rows /\ r \in ToSet(order) /\ step = "processed"
             /\ <<p, s>> \in SafetyCells /\ s \in {"a", "b"} /\ r.repetition \in 1..FewBlocks
             /\ r = Run("secondary_safety", p, s, r.repetition, TRUE)
  <2>1. r \in table /\ r.phase = "secondary_safety" /\ r.pair = p /\ r.side = s
    BY DEF Runs
  <2>2. r \in SafetyRuns /\ r \in ToSet(order) /\ r \in Rows /\ step = "processed"
    BY <1>1, <1>2, <1>3, <2>1 DEF InCampaign
  <2> QED BY <2>1, <2>2, RowFields
<1> QED BY <1>4, <1>5

\* A row of the table is the run of its condition in its repetition.
LEMMA PrimaryRow ==
  ASSUME ProtocolInvariant, NEW p, NEW s, NEW r \in Runs("primary", p, s)
  PROVE  r.repetition \in 1..Blocks /\ r = Run("primary", p, s, r.repetition, FALSE)
BY TableRuns

LEMMA SafetyRow ==
  ASSUME ProtocolInvariant, NEW p, NEW s, NEW r \in Runs("secondary_safety", p, s)
  PROVE  r.repetition \in 1..FewBlocks /\ r = Run("secondary_safety", p, s, r.repetition, TRUE)
BY TableRuns

\* A safety cell as the analysis names it.
Contrast(c) == <<c[1], ConditionOf[c]>>

\* Within a pair the condition names the side: found by it, the runs are those the
\* matrix finds by the side.
LEMMA ConditionNamesTheSide ==
  ASSUME ProtocolInvariant, NEW c \in SafetyCells
  PROVE  /\ Contrast(c) \in SafetyContrasts
         /\ SafetyComparison(Contrast(c))
              = Joined(Runs("primary", c[1], c[2]), Runs("secondary_safety", c[1], c[2]))
<1>1. PICK p \in Pairs, s \in {"a", "b"} : c = <<p, s>>
  BY ProtocolAssumption
<1>2. Contrast(c) = <<p, ConditionOf[<<p, s>>]>> /\ Contrast(c) \in SafetyContrasts
  BY <1>1, ProtocolAssumption DEF Contrast
<1>3. \A t \in {"a", "b"} : ConditionOf[<<p, t>>] = ConditionOf[<<p, s>>] <=> t = s
  BY ProtocolAssumption
<1>4. \A r \in table : r \in Rows
  BY DEF ProtocolInvariant, ToSet, SafetyRuns
<1>5. ASSUME NEW q \in {"primary", "secondary_safety"}
      PROVE  RunsOfCondition(q, p, ConditionOf[<<p, s>>]) = Runs(q, p, s)
  <2>1. ASSUME NEW r \in table, r.phase = q, r.pair = p
        PROVE  r.condition = ConditionOf[<<p, s>>] <=> r.side = s
    <3>1. r \in Rows
      BY <1>4
    <3>2. r.side \in {"a", "b"} /\ r.condition = ConditionOf[<<p, r.side>>]
      BY <2>1, <3>1, RowFields
    <3> QED BY <1>3, <3>2
  <2> QED BY <2>1 DEF RunsOfCondition, Runs
<1>6. SafetyComparison(Contrast(c))
        = Joined(RunsOfCondition("primary", p, ConditionOf[<<p, s>>]),
                 RunsOfCondition("secondary_safety", p, ConditionOf[<<p, s>>]))
  BY <1>2 DEF SafetyComparison
<1> QED BY <1>1, <1>2, <1>5, <1>6

LEMMA ContrastsAreCells ==
  ASSUME NEW d \in SafetyContrasts
  PROVE  \E c \in SafetyCells : d = Contrast(c)
BY ProtocolAssumption DEF Contrast

\* The two runs of a pair, and of a condition without and with the safety controller.
PairAt(p, k)  == <<Run("primary", p, "a", k, FALSE), Run("primary", p, "b", k, FALSE)>>
CoverAt(c, k) ==
  <<Run("primary", c[1], c[2], k, FALSE), Run("secondary_safety", c[1], c[2], k, TRUE)>>

\* What is compared are the two runs of one repetition.
LEMMA ComparedRuns ==
  ASSUME ProtocolInvariant
  PROVE  /\ \A p \in Pairs : \A c \in PrimaryComparison(p) :
              /\ c[1] \in ToSet(order) /\ c[2] \in ToSet(order) /\ step = "processed"
              /\ c[1].repetition \in 1..Blocks /\ c = PairAt(p, c[1].repetition)
         /\ \A d \in SafetyCells : \A c \in SafetyComparison(Contrast(d)) :
              /\ c[1] \in ToSet(order) /\ c[2] \in ToSet(order) /\ step = "processed"
              /\ c[1].repetition \in 1..FewBlocks /\ c = CoverAt(d, c[1].repetition)
<1>1. ASSUME NEW p \in Pairs, NEW c \in PrimaryComparison(p)
      PROVE  /\ c[1] \in ToSet(order) /\ c[2] \in ToSet(order) /\ step = "processed"
             /\ c[1].repetition \in 1..Blocks /\ c = PairAt(p, c[1].repetition)
  <2>1. /\ c[1] \in Runs("primary", p, "a") /\ c[2] \in Runs("primary", p, "b")
        /\ c = <<c[1], c[2]>> /\ c[1].repetition = c[2].repetition
    BY DEF PrimaryComparison, Joined
  <2>2. /\ c[1] \in ToSet(order) /\ c[2] \in ToSet(order) /\ step = "processed"
        /\ c[1].repetition \in 1..Blocks
    BY <2>1, TableRuns
  <2>3. c[1] = PairAt(p, c[1].repetition)[1] /\ c[2] = PairAt(p, c[2].repetition)[2]
    <3>1. c[1] = Run("primary", p, "a", c[1].repetition, FALSE)
      BY <2>1, PrimaryRow
    <3>2. c[2] = Run("primary", p, "b", c[2].repetition, FALSE)
      BY <2>1, PrimaryRow
    <3> QED BY <3>1, <3>2 DEF PairAt, Run
  <2>4. \A k : PairAt(p, k) = <<PairAt(p, k)[1], PairAt(p, k)[2]>>
    BY DEF PairAt
  <2> QED BY <2>1, <2>2, <2>3, <2>4
<1>2. ASSUME NEW d \in SafetyCells, NEW c \in SafetyComparison(Contrast(d))
      PROVE  /\ c[1] \in ToSet(order) /\ c[2] \in ToSet(order) /\ step = "processed"
             /\ c[1].repetition \in 1..FewBlocks /\ c = CoverAt(d, c[1].repetition)
  <2>1. /\ c[1] \in Runs("primary", d[1], d[2]) /\ c[2] \in Runs("secondary_safety", d[1], d[2])
        /\ c = <<c[1], c[2]>> /\ c[1].repetition = c[2].repetition
    BY ConditionNamesTheSide DEF Joined
  <2>2. /\ c[1] \in ToSet(order) /\ c[2] \in ToSet(order) /\ step = "processed"
        /\ c[1].repetition \in 1..FewBlocks
    BY <2>1, TableRuns
  <2>3. c[1] = CoverAt(d, c[1].repetition)[1] /\ c[2] = CoverAt(d, c[2].repetition)[2]
    BY <2>1, TableRuns DEF CoverAt, Run
  <2>4. \A k : CoverAt(d, k) = <<CoverAt(d, k)[1], CoverAt(d, k)[2]>>
    BY DEF CoverAt
  <2> QED BY <2>1, <2>2, <2>3, <2>4
<1> QED BY <1>1, <1>2

\* Two runs that are compared differ in one thing and stand in one block.
LEMMA OneThingDiffers ==
  ASSUME ProtocolInvariant, NEW c \in Comparisons
  PROVE  LET x == c[1]
             y == c[2]
         IN  /\ x.pair = y.pair /\ {x, y} \subseteq ToSet(order)
             /\ (x.side # y.side) # (x.safety # y.safety)
             /\ x.repetition = y.repetition
             /\ BlockOf(x) = BlockOf(y)
             /\ BlockOf(x) = Min(BlockOf(x))..Max(BlockOf(x))
<1>1. ASSUME NEW x \in ToSet(order), NEW y \in ToSet(order), x.repetition = y.repetition
      PROVE  BlockOf(x) = BlockOf(y) /\ BlockOf(x) = Min(BlockOf(x))..Max(BlockOf(x))
  BY <1>1, BlockIsOneStretch
<1>2. CASE \E p \in Pairs : c \in PrimaryComparison(p)
  <2>1. PICK p \in Pairs : c \in PrimaryComparison(p)
    BY <1>2
  <2>2. /\ c[1] \in ToSet(order) /\ c[2] \in ToSet(order) /\ c = PairAt(p, c[1].repetition)
    BY <2>1, ComparedRuns
  <2>3. PICK k : c = PairAt(p, k)
    BY <2>2
  <2>4. /\ c[1].pair = c[2].pair /\ c[1].repetition = c[2].repetition
        /\ c[1].side = "a" /\ c[2].side = "b" /\ c[1].safety = FALSE /\ c[2].safety = FALSE
    BY <2>3 DEF PairAt, Run
  <2>5. (c[1].side # c[2].side) # (c[1].safety # c[2].safety)
    BY <2>4
  <2> QED BY <1>1, <2>2, <2>4, <2>5
<1>3. CASE \E d \in SafetyContrasts : c \in SafetyComparison(d)
  <2>1. PICK d \in SafetyCells : c \in SafetyComparison(Contrast(d))
    BY <1>3, ContrastsAreCells
  <2>2. /\ c[1] \in ToSet(order) /\ c[2] \in ToSet(order) /\ c = CoverAt(d, c[1].repetition)
    BY <2>1, ComparedRuns
  <2>3. PICK k : c = CoverAt(d, k)
    BY <2>2
  <2>4. /\ c[1].pair = c[2].pair /\ c[1].repetition = c[2].repetition
        /\ c[1].side = c[2].side /\ c[1].safety = FALSE /\ c[2].safety = TRUE
    BY <2>3 DEF CoverAt, Run
  <2>5. (c[1].side # c[2].side) # (c[1].safety # c[2].safety)
    BY <2>4
  <2> QED BY <1>1, <2>2, <2>4, <2>5
<1> QED BY <1>2, <1>3 DEF Comparisons

\* The difference of two differences stays in one block.
LEMMA OneBlockThroughout ==
  ASSUME ProtocolInvariant, NEW i \in Interactions
  PROVE  Cardinality({BlockOf(i[1][1]), BlockOf(i[1][2]), BlockOf(i[2][1]), BlockOf(i[2][2])}) = 1
<1>1. /\ i[1] \in Comparisons /\ i[2] \in Comparisons
      /\ i[1][1].repetition = i[2][1].repetition
  <2>1. CASE \E p, q \in Pairs : i \in TimingInteraction(p, q)
    BY <2>1 DEF TimingInteraction, Interaction, Comparisons
  <2>2. CASE \E c, d \in SafetyContrasts : i \in SafetyInteraction(c, d)
    BY <2>2 DEF SafetyInteraction, Interaction, Comparisons
  <2> QED BY <2>1, <2>2 DEF Interactions
<1>2. /\ BlockOf(i[1][1]) = BlockOf(i[1][2]) /\ BlockOf(i[2][1]) = BlockOf(i[2][2])
      /\ i[1][1] \in ToSet(order) /\ i[2][1] \in ToSet(order)
  BY <1>1, OneThingDiffers
<1>3. BlockOf(i[1][1]) = BlockOf(i[2][1])
  <2>1. \A x \in ToSet(order) :
          BlockOf(x) = {j \in DOMAIN order : order[j].repetition = x.repetition}
    BY BlockIsOneStretch
  <2>2. /\ BlockOf(i[1][1]) = {j \in DOMAIN order : order[j].repetition = i[1][1].repetition}
        /\ BlockOf(i[2][1]) = {j \in DOMAIN order : order[j].repetition = i[2][1].repetition}
    BY <1>2, <2>1, Zenon
  <2> QED BY <1>1, <2>2, Zenon
<1>4. {BlockOf(i[1][1]), BlockOf(i[1][2]), BlockOf(i[2][1]), BlockOf(i[2][2])} = {BlockOf(i[1][1])}
  BY <1>2, <1>3
<1> QED BY <1>4, FS_Singleton

\* The order of the primary campaign is one its validator accepts.
LEMMA FrameworkAccepted ==
  ASSUME ProtocolInvariant, step = "campaign"
  PROVE  FrameworkIsValid
<1> DEFINE n == Len(order)
           places(q) == {i \in 1..n : order[i].phase = q}
           inPhase(q) == {r \in Rows : r.phase = q}
<1>1. /\ order \in Seq(Rows) /\ n \in Nat /\ DOMAIN order = 1..n
      /\ \A i \in 1..n : order[i] \in Rows
      /\ \A i, j \in 1..n : order[i] = order[j] => i = j
      /\ \A r \in Rows : \E i \in 1..n : order[i] = r
  BY DEF ProtocolInvariant, ToSet
<1>2. ASSUME NEW q
      PROVE  IsFiniteSet(places(q)) /\ Cardinality(places(q)) = Planned(q) /\ Planned(q) \in Nat
  <2> DEFINE f == [i \in places(q) |-> order[i]]
  <2>1. IsFiniteSet(places(q)) /\ Cardinality(places(q)) \in Nat
    <3>1. IsFiniteSet(1..n) /\ places(q) \in SUBSET (1..n)
      BY <1>1, FS_Interval
    <3> HIDE DEF places
    <3> QED BY <3>1, FS_Subset, FS_CardinalityType
  <2>2. /\ f \in [places(q) -> inPhase(q)]
        /\ \A x, y \in places(q) : f[x] = f[y] => x = y
        /\ \A r \in inPhase(q) : \E x \in places(q) : f[x] = r
    BY <1>1
  <2>3. Cardinality(inPhase(q)) = Cardinality(places(q))
    <3> HIDE DEF f, places, inPhase
    <3> QED BY <2>1, <2>2, ListedOnce
  <2> QED BY <2>1, <2>3 DEF Planned
<1>3. /\ Planned("primary") = 2 * Cardinality(Pairs) * Blocks
      /\ Planned("reference") = Cardinality(References) * FewBlocks
  BY DEF ProtocolInvariant
<1>4. CampaignPlaces = places("primary") \cup places("reference")
  BY <1>1 DEF CampaignPlaces, InCampaign
<1>5. places("primary") \cap places("reference") = {}
  OBVIOUS
<1>6. /\ IsFiniteSet(CampaignPlaces)
      /\ Cardinality(CampaignPlaces) = Planned("primary") + Planned("reference")
  <2> HIDE DEF places
  <2>1. /\ IsFiniteSet(places("primary") \cup places("reference"))
        /\ Cardinality(places("primary") \cup places("reference"))
             = Cardinality(places("primary")) + Cardinality(places("reference"))
               - Cardinality(places("primary") \cap places("reference"))
    BY <1>2, FS_Union
  <2>2. Cardinality(places("primary") \cap places("reference")) = 0
    BY <1>5, FS_EmptySet
  <2> QED BY <1>2, <1>4, <2>1, <2>2
<1>7. Cardinality({order[i] : i \in CampaignPlaces}) = Cardinality(CampaignPlaces)
  <2> DEFINE f == [i \in CampaignPlaces |-> order[i]]
             T == {order[i] : i \in CampaignPlaces}
  <2>1. /\ f \in [CampaignPlaces -> T]
        /\ \A x, y \in CampaignPlaces : f[x] = f[y] => x = y
        /\ \A r \in T : \E x \in CampaignPlaces : f[x] = r
    BY <1>1 DEF CampaignPlaces
  <2> HIDE DEF f, T
  <2>2. Cardinality(T) = Cardinality(CampaignPlaces)
    BY <1>6, <2>1, ListedOnce
  <2> QED BY <2>2 DEF T
<1>8. \A i \in CampaignPlaces : order[i].safety = FALSE
  <2> TAKE i \in CampaignPlaces
  <2>1. order[i] \in Rows /\ order[i].phase \in {"primary", "reference"}
    BY <1>1 DEF CampaignPlaces, InCampaign
  <2> QED BY <2>1, RowFields
<1>9. /\ {i \in CampaignPlaces : order[i].phase = "primary"} = places("primary")
      /\ {i \in CampaignPlaces : order[i].phase = "reference"} = places("reference")
  BY <1>4
<1>10. Cardinality(places("primary")) = Planned("primary")
       /\ Cardinality(places("reference")) = Planned("reference")
  BY <1>2
<1> HIDE DEF places
<1> QED BY <1>3, <1>6, <1>7, <1>8, <1>9, <1>10 DEF FrameworkIsValid

\* The numbers up to n list every member of T, each number another value.
ListedIn(T, f, n) ==
  /\ f = [k \in 1..n |-> f[k]]
  /\ \A j, k \in 1..n : f[j] = f[k] => j = k
  /\ \A t \in T : \E k \in 1..n : t = f[k]

\* As many values as numbers, when no two numbers share one; so many of them are all.
LEMMA OneForEach ==
  ASSUME NEW n \in Nat, NEW f, NEW T, ListedIn(T, f, n)
  PROVE  /\ (\A k \in 1..n : f[k] \in T) => Cardinality(T) = n
         /\ Cardinality(T) = n => \A k \in 1..n : f[k] \in T
<1> DEFINE U == {f[k] : k \in 1..n}
<1>1. IsFiniteSet(1..n) /\ Cardinality(1..n) = n
  <2>1. 1 \in Int /\ n \in Int /\ (IF 1 > n THEN 0 ELSE n - 1 + 1) = n
    OBVIOUS
  <2> QED BY <2>1, FS_Interval
<1>2. /\ f \in [1..n -> U] /\ \A t \in U : \E k \in 1..n : f[k] = t
      /\ \A j, k \in 1..n : f[j] = f[k] => j = k
  BY DEF ListedIn
<1>3. T \in SUBSET U /\ \A k \in 1..n : f[k] \in U
  BY DEF ListedIn
<1>4. (\A k \in 1..n : f[k] \in T) => T = U
  BY <1>3
<1> HIDE DEF U
<1>5. IsFiniteSet(U) /\ Cardinality(U) = n
  BY <1>1, <1>2, ListedOnce
<1>6. Cardinality(T) = n => T = U
  BY <1>3, <1>5, FS_Subset
<1> QED BY <1>3, <1>4, <1>5, <1>6

\* A valid analysis compares in every repetition.
LEMMA EveryRepetitionCompared ==
  ASSUME ProtocolInvariant, AnalysisIsValid
  PROVE  /\ \A p \in Pairs : \A k \in 1..Blocks : PairAt(p, k) \in PrimaryComparison(p)
         /\ \A d \in SafetyCells : \A k \in 1..FewBlocks : CoverAt(d, k) \in SafetyComparison(Contrast(d))
<1>1. ASSUME NEW p \in Pairs
      PROVE  \A k \in 1..Blocks : PairAt(p, k) \in PrimaryComparison(p)
  <2> DEFINE f == [k \in 1..Blocks |-> PairAt(p, k)]
             T == PrimaryComparison(p)
  <2>1. f = [k \in 1..Blocks |-> f[k]] /\ \A k \in 1..Blocks : f[k] = PairAt(p, k)
    OBVIOUS
  <2>2. \A j, k \in 1..Blocks : PairAt(p, j) = PairAt(p, k) => j = k
    BY DEF PairAt, Run
  <2>3. Blocks \in Nat /\ Cardinality(T) = Blocks
    BY ProtocolAssumption DEF AnalysisIsValid
  <2>4. \A t \in T : \E k \in 1..Blocks : t = PairAt(p, k)
    BY ComparedRuns
  <2> HIDE DEF f, T
  <2>5. ListedIn(T, f, Blocks)
    BY <2>1, <2>2, <2>4 DEF ListedIn
  <2>6. \A k \in 1..Blocks : f[k] \in T
    BY <2>3, <2>5, OneForEach
  <2> QED BY <2>1, <2>6 DEF T
<1>2. ASSUME NEW d \in SafetyCells
      PROVE  \A k \in 1..FewBlocks : CoverAt(d, k) \in SafetyComparison(Contrast(d))
  <2> DEFINE f == [k \in 1..FewBlocks |-> CoverAt(d, k)]
             T == SafetyComparison(Contrast(d))
  <2>1. f = [k \in 1..FewBlocks |-> f[k]] /\ \A k \in 1..FewBlocks : f[k] = CoverAt(d, k)
    OBVIOUS
  <2>2. \A j, k \in 1..FewBlocks : CoverAt(d, j) = CoverAt(d, k) => j = k
    BY DEF CoverAt, Run
  <2>3. FewBlocks \in Nat /\ Cardinality(T) = FewBlocks
    BY ProtocolAssumption, ConditionNamesTheSide DEF AnalysisIsValid
  <2>4. \A t \in T : \E k \in 1..FewBlocks : t = CoverAt(d, k)
    BY ComparedRuns
  <2> HIDE DEF f, T
  <2>5. ListedIn(T, f, FewBlocks)
    BY <2>1, <2>2, <2>4 DEF ListedIn
  <2>6. \A k \in 1..FewBlocks : f[k] \in T
    BY <2>3, <2>5, OneForEach
  <2> QED BY <2>1, <2>6 DEF T
<1> QED BY <1>1, <1>2

\* A valid analysis has the runs of every condition in every repetition.
LEMMA EveryConditionComplete ==
  ASSUME ProtocolInvariant, AnalysisIsValid, NEW c \in ConditionCatalog
  PROVE  /\ Cardinality(Runs("primary", c.pair, c.side)) = c.repetitions
         /\ Cardinality(Runs("secondary_safety", c.pair, c.side)) = c.safety
<1>1. PICK p \in Pairs, s \in {"a", "b"} :
        c = [pair |-> p, side |-> s, repetitions |-> Blocks,
             safety |-> IF <<p, s>> \in SafetyCells THEN FewBlocks ELSE 0]
  BY DEF ConditionCatalog
<1>2. /\ c.pair = p /\ c.side = s /\ c.repetitions = Blocks
      /\ c.safety = IF <<p, s>> \in SafetyCells THEN FewBlocks ELSE 0
  BY <1>1
<1>3. Blocks \in Nat /\ FewBlocks \in Nat
  BY ProtocolAssumption
<1>4. Cardinality(Runs("primary", p, s)) = Blocks
  <2> DEFINE At(k) == Run("primary", p, s, k, FALSE)
             f == [k \in 1..Blocks |-> At(k)]
             T == Runs("primary", p, s)
  <2>1. f = [k \in 1..Blocks |-> f[k]] /\ \A k \in 1..Blocks : f[k] = At(k)
    OBVIOUS
  <2>2. \A j, k \in 1..Blocks : At(j) = At(k) => j = k
    BY DEF Run
  <2>3. \A t \in T : t.repetition \in 1..Blocks /\ t = At(t.repetition)
    BY PrimaryRow
  <2>4. \A k \in 1..Blocks : At(k) \in T
    <3> SUFFICES ASSUME NEW k \in 1..Blocks PROVE At(k) \in T
      OBVIOUS
    <3>1. /\ PairAt(p, k)[1] \in Runs("primary", p, "a")
          /\ PairAt(p, k)[2] \in Runs("primary", p, "b")
      BY EveryRepetitionCompared DEF PrimaryComparison, Joined
    <3>2. CASE s = "a"
      BY <3>1, <3>2 DEF PairAt
    <3>3. CASE s = "b"
      BY <3>1, <3>3 DEF PairAt
    <3> QED BY <3>2, <3>3
  <2> HIDE DEF At, f, T
  <2>5. /\ ListedIn(T, f, Blocks)
        /\ \A k \in 1..Blocks : f[k] \in T
    BY <2>1, <2>2, <2>3, <2>4 DEF ListedIn
  <2>6. Cardinality(T) = Blocks
    BY <1>3, <2>5, OneForEach
  <2> QED BY <2>6 DEF T
<1>5. CASE <<p, s>> \notin SafetyCells
  <2>1. Runs("secondary_safety", p, s) = {}
    BY <1>5, TableRuns
  <2> QED BY <1>2, <1>4, <1>5, <2>1, FS_EmptySet
<1>6. CASE <<p, s>> \in SafetyCells
  <2> DEFINE At(k) == Run("secondary_safety", p, s, k, TRUE)
             f == [k \in 1..FewBlocks |-> At(k)]
             T == Runs("secondary_safety", p, s)
  <2>1. f = [k \in 1..FewBlocks |-> f[k]] /\ \A k \in 1..FewBlocks : f[k] = At(k)
    OBVIOUS
  <2>2. \A j, k \in 1..FewBlocks : At(j) = At(k) => j = k
    BY DEF Run
  <2>3. \A t \in T : t.repetition \in 1..FewBlocks /\ t = At(t.repetition)
    BY SafetyRow
  <2>4. \A k \in 1..FewBlocks : At(k) \in T
    <3> SUFFICES ASSUME NEW k \in 1..FewBlocks PROVE At(k) \in T
      OBVIOUS
    <3>1. CoverAt(<<p, s>>, k) \in SafetyComparison(Contrast(<<p, s>>))
      BY <1>6, EveryRepetitionCompared
    <3>2. CoverAt(<<p, s>>, k) \in Joined(Runs("primary", p, s), Runs("secondary_safety", p, s))
      BY <1>6, <3>1, ConditionNamesTheSide
    <3> QED BY <3>2 DEF CoverAt, Joined
  <2> HIDE DEF At, f, T
  <2>5. /\ ListedIn(T, f, FewBlocks)
        /\ \A k \in 1..FewBlocks : f[k] \in T
    BY <2>1, <2>2, <2>3, <2>4 DEF ListedIn
  <2>6. Cardinality(T) = FewBlocks
    BY <1>3, <2>5, OneForEach
  <2> QED BY <1>2, <1>4, <1>6, <2>6 DEF T
<1> QED BY <1>5, <1>6

\* A valid analysis has a difference of two differences for every repetition.
LEMMA EveryInteractionComplete ==
  ASSUME ProtocolInvariant, AnalysisIsValid
  PROVE  /\ \A p, q \in Pairs : Cardinality(TimingInteraction(p, q)) = Blocks
         /\ \A c, d \in SafetyContrasts : Cardinality(SafetyInteraction(c, d)) = FewBlocks
<1>0. Blocks \in Nat /\ FewBlocks \in Nat
  BY ProtocolAssumption
<1>1. ASSUME NEW p \in Pairs, NEW q \in Pairs
      PROVE  Cardinality(TimingInteraction(p, q)) = Blocks
  <2> DEFINE At(k) == <<PairAt(p, k), PairAt(q, k)>>
             f == [k \in 1..Blocks |-> At(k)]
             T == TimingInteraction(p, q)
  <2>1. f = [k \in 1..Blocks |-> f[k]] /\ \A k \in 1..Blocks : f[k] = At(k)
    OBVIOUS
  <2>2. \A j, k : PairAt(p, j) = PairAt(p, k) => j = k
    BY DEF PairAt, Run
  <2>3. \A r, k : PairAt(r, k)[1].repetition = k
    BY DEF PairAt, Run
  <2>4. \A t \in T : \E k \in 1..Blocks : t = At(k)
    <3> SUFFICES ASSUME NEW t \in T PROVE \E k \in 1..Blocks : t = At(k)
      OBVIOUS
    <3>1. /\ t[1] \in PrimaryComparison(p) /\ t[2] \in PrimaryComparison(q)
          /\ t = <<t[1], t[2]>> /\ t[1][1].repetition = t[2][1].repetition
      BY DEF TimingInteraction, Interaction
    <3> QED BY <3>1, ComparedRuns
  <2>5. \A k \in 1..Blocks : At(k) \in T
    BY <2>3, EveryRepetitionCompared DEF TimingInteraction, Interaction
  <2>6. \A j, k \in 1..Blocks : At(j) = At(k) => j = k
    BY <2>2
  <2> HIDE DEF At, f, T
  <2>7. /\ ListedIn(T, f, Blocks)
        /\ \A k \in 1..Blocks : f[k] \in T
    BY <2>1, <2>4, <2>5, <2>6 DEF ListedIn
  <2>8. Cardinality(T) = Blocks
    BY <1>0, <2>7, OneForEach
  <2> QED BY <2>8 DEF T
<1>2. ASSUME NEW c \in SafetyCells, NEW d \in SafetyCells
      PROVE  Cardinality(SafetyInteraction(Contrast(c), Contrast(d))) = FewBlocks
  <2> DEFINE At(k) == <<CoverAt(c, k), CoverAt(d, k)>>
             f == [k \in 1..FewBlocks |-> At(k)]
             T == SafetyInteraction(Contrast(c), Contrast(d))
  <2>1. f = [k \in 1..FewBlocks |-> f[k]] /\ \A k \in 1..FewBlocks : f[k] = At(k)
    OBVIOUS
  <2>2. \A j, k : CoverAt(c, j) = CoverAt(c, k) => j = k
    BY DEF CoverAt, Run
  <2>3. \A r, k : CoverAt(r, k)[1].repetition = k
    BY DEF CoverAt, Run
  <2>4. \A t \in T : \E k \in 1..FewBlocks : t = At(k)
    <3> SUFFICES ASSUME NEW t \in T PROVE \E k \in 1..FewBlocks : t = At(k)
      OBVIOUS
    <3>1. /\ t[1] \in SafetyComparison(Contrast(c)) /\ t[2] \in SafetyComparison(Contrast(d))
          /\ t = <<t[1], t[2]>> /\ t[1][1].repetition = t[2][1].repetition
      BY DEF SafetyInteraction, Interaction
    <3> QED BY <3>1, ComparedRuns
  <2>5. \A k \in 1..FewBlocks : At(k) \in T
    BY <2>3, EveryRepetitionCompared DEF SafetyInteraction, Interaction
  <2>6. \A j, k \in 1..FewBlocks : At(j) = At(k) => j = k
    BY <2>2
  <2> HIDE DEF At, f, T
  <2>7. /\ ListedIn(T, f, FewBlocks)
        /\ \A k \in 1..FewBlocks : f[k] \in T
    BY <2>1, <2>4, <2>5, <2>6 DEF ListedIn
  <2>8. Cardinality(T) = FewBlocks
    BY <1>0, <2>7, OneForEach
  <2> QED BY <2>8 DEF T
<1> QED BY <1>1, <1>2, ContrastsAreCells

\* The matrix and the analysis pair the safety runs alike.
LEMMA SameComparators ==
  ASSUME ProtocolInvariant, step = "processed"
  PROVE  {<<m.off, m.run>> : m \in matrix} = {c \in Comparisons : c[2].safety}
<1>1. /\ matrix = UNION {{[run |-> row, off |-> r] : r \in Matches(row)} : row \in SafetyRuns}
      /\ table = completed \cup SafetyRuns
      /\ \A r \in completed : r \in ToSet(order) /\ InCampaign(r)
      /\ \A r \in ToSet(order) : r \in Rows
  BY DEF ProtocolInvariant, ToSet, SafetyMatrix
<1>2. ASSUME NEW m \in matrix
      PROVE  <<m.off, m.run>> \in Comparisons /\ m.run.safety
  <2>0. PICK row \in SafetyRuns : m \in {[run |-> row, off |-> r] : r \in Matches(row)}
    BY <1>1
  <2>1. PICK r \in Matches(row) : m = [run |-> row, off |-> r]
    BY <2>0
  <2>2. m.run = row /\ m.off = r
    BY <2>1
  <2>3. /\ row \in Rows /\ row.phase = "secondary_safety" /\ row.safety /\ row \in table
        /\ <<row.pair, row.side>> \in SafetyCells /\ row.side \in {"a", "b"}
    BY <1>1, RowFields DEF SafetyRuns
  <2>4. /\ r \in completed /\ r \in Rows /\ r \in table /\ InCampaign(r)
        /\ r.pair = row.pair /\ r.side = row.side /\ r.repetition = row.repetition
    BY <1>1 DEF Matches
  <2>5. r.phase = "primary"
    BY <2>3, <2>4, RowFields DEF InCampaign
  <2>6. <<r, row>> \in Joined(Runs("primary", row.pair, row.side),
                           Runs("secondary_safety", row.pair, row.side))
    BY <2>3, <2>4, <2>5 DEF Joined, Runs
  <2>7. /\ Contrast(<<row.pair, row.side>>) \in SafetyContrasts
        /\ <<r, row>> \in SafetyComparison(Contrast(<<row.pair, row.side>>))
    BY <2>3, <2>6, ConditionNamesTheSide
  <2> QED BY <2>2, <2>3, <2>7 DEF Comparisons
<1>3. ASSUME NEW c \in Comparisons, c[2].safety
      PROVE  \E m \in matrix : c = <<m.off, m.run>>
  <2>1. \A p \in Pairs : c \notin PrimaryComparison(p)
    <3> SUFFICES ASSUME NEW p \in Pairs, c \in PrimaryComparison(p) PROVE FALSE
      OBVIOUS
    <3>1. PICK k : c = PairAt(p, k)
      BY ComparedRuns
    <3>2. c[2].safety = FALSE
      BY <3>1 DEF PairAt, Run
    <3> QED BY <1>3, <3>2
  <2>2. PICK d \in SafetyCells : c \in SafetyComparison(Contrast(d))
    BY <2>1, ContrastsAreCells DEF Comparisons
  <2>3. /\ c[1] \in Runs("primary", d[1], d[2]) /\ c[2] \in Runs("secondary_safety", d[1], d[2])
        /\ c = <<c[1], c[2]>> /\ c[1].repetition = c[2].repetition
    BY <2>2, ConditionNamesTheSide DEF Joined
  <2>4. c[1] \in completed /\ c[2] \in SafetyRuns
    BY <2>3, TableRuns
  <2>5. c[1] \in Matches(c[2])
    BY <2>3, <2>4 DEF Matches, Runs
  <2>6. [run |-> c[2], off |-> c[1]] \in matrix
    BY <1>1, <2>4, <2>5
  <2> QED BY <2>3, <2>6
<1>4. \A c \in {<<m.off, m.run>> : m \in matrix} : c \in Comparisons /\ c[2].safety
  BY <1>2
<1>5. \A c \in {d \in Comparisons : d[2].safety} : c \in {<<m.off, m.run>> : m \in matrix}
  BY <1>3
<1> QED BY <1>4, <1>5

\* A valid analysis uses every run but the references.
LEMMA EveryRunCompared ==
  ASSUME ProtocolInvariant, AnalysisIsValid, NEW r \in Rows
  PROVE  r.phase = "reference" \/ \E c \in Comparisons : r \in {c[1], c[2]}
<1>1. CASE r.phase = "primary"
  <2>1. /\ r.pair \in Pairs /\ r.side \in {"a", "b"} /\ r.repetition \in 1..Blocks
        /\ r = Run("primary", r.pair, r.side, r.repetition, FALSE)
    BY <1>1, RowFields
  <2>2. PairAt(r.pair, r.repetition) \in Comparisons
    BY <2>1, EveryRepetitionCompared DEF Comparisons
  <2>3. r = PairAt(r.pair, r.repetition)[1] \/ r = PairAt(r.pair, r.repetition)[2]
    BY <2>1 DEF PairAt, Run
  <2> QED BY <2>2, <2>3
<1>2. CASE r.phase = "secondary_safety"
  <2>1. /\ <<r.pair, r.side>> \in SafetyCells /\ r.repetition \in 1..FewBlocks
        /\ r = Run("secondary_safety", r.pair, r.side, r.repetition, TRUE)
    BY <1>2, RowFields
  <2>2. CoverAt(<<r.pair, r.side>>, r.repetition) \in Comparisons
    BY <2>1, EveryRepetitionCompared, ConditionNamesTheSide DEF Comparisons
  <2>3. r = CoverAt(<<r.pair, r.side>>, r.repetition)[2]
    BY <2>1 DEF CoverAt, Run
  <2> QED BY <2>2, <2>3
<1> QED BY <1>1, <1>2, RowFields

\* The invariant makes the study compare like with like.
LEMMA LikeWithLike == ProtocolInvariant => ComparesLikeWithLike
<1> SUFFICES ASSUME ProtocolInvariant PROVE ComparesLikeWithLike
  OBVIOUS
<1>1. \A c \in Comparisons :
        LET x == c[1]
            y == c[2]
        IN  /\ x.pair = y.pair /\ {x, y} \subseteq ToSet(order)
            /\ (x.side # y.side) # (x.safety # y.safety)
            /\ BlockOf(x) = BlockOf(y)
            /\ BlockOf(x) = Min(BlockOf(x))..Max(BlockOf(x))
  BY OneThingDiffers
<1>2. \A i \in Interactions :
        Cardinality({BlockOf(i[1][1]), BlockOf(i[1][2]), BlockOf(i[2][1]), BlockOf(i[2][2])}) = 1
  BY OneBlockThroughout
<1>3. step = "campaign" => FrameworkIsValid
  BY FrameworkAccepted
<1>4. AnalysisIsValid =>
        /\ \A c \in ConditionCatalog :
             /\ Cardinality(Runs("primary", c.pair, c.side)) = c.repetitions
             /\ Cardinality(Runs("secondary_safety", c.pair, c.side)) = c.safety
        /\ \A p, q \in Pairs : Cardinality(TimingInteraction(p, q)) = Blocks
        /\ \A c, d \in SafetyContrasts : Cardinality(SafetyInteraction(c, d)) = FewBlocks
  BY EveryConditionComplete, EveryInteractionComplete
<1>5. step = "processed" => {<<m.off, m.run>> : m \in matrix} = {c \in Comparisons : c[2].safety}
  BY SameComparators
<1>6. AnalysisIsValid =>
        \A r \in Rows : r.phase = "reference" \/ \E c \in Comparisons : r \in {c[1], c[2]}
  BY EveryRunCompared
<1> QED BY <1>1, <1>2, <1>3, <1>4, <1>5, <1>6 DEF ComparesLikeWithLike

\* ComparesLikeWithLike: whichever runs are given up, two accepted runs that are compared
\* differ in one thing only and stand in one block of the randomized order
\* (build_step14.py, build_step16.py, process_step17.py, analyze_step18.py).
THEOREM StudyComparesLikeWithLike == OfflineSpec => []ComparesLikeWithLike
<1>1. OfflineInit => ProtocolInvariant
  <2> SUFFICES ASSUME OfflineInit PROVE ProtocolInvariant
    OBVIOUS
  <2>1. order = << >> /\ completed = {} /\ table = {} /\ step = "order"
    BY DEF OfflineInit, ProtocolInit
  <2> QED BY <2>1 DEF ProtocolInvariant
<1>2. ProtocolInvariant /\ [OfflineNext]_offlineVars => ProtocolInvariant'
  <2> SUFFICES ASSUME ProtocolInvariant, [OfflineNext]_offlineVars PROVE ProtocolInvariant'
    OBVIOUS
  <2>1. CASE UNCHANGED protocolVars
    <3>1. UNCHANGED <<order, completed, matrix, table, step>>
      BY <2>1 DEF protocolVars
    <3>2. SafetyRuns' = SafetyRuns /\ \A row : Matches(row)' = Matches(row)
      BY <3>1 DEF SafetyRuns, Matches, ToSet
    <3>3. SafetyMatrix' = SafetyMatrix
      BY <3>2 DEF SafetyMatrix
    <3> QED BY <3>1, <3>2, <3>3 DEF ProtocolInvariant, ToSet, Planned, InCampaign
  <2>2. CASE ProtocolNext
    BY <2>2, ProtocolInvariantKept
  <2>3. UNCHANGED protocolVars \/ ProtocolNext
    BY DEF OfflineNext, Proceed, Dataset, Study, studyVars, offlineVars
  <2> QED BY <2>1, <2>2, <2>3
<1> QED BY <1>1, <1>2, LikeWithLike, PTL DEF OfflineSpec

-----------------------------------------------------------------------------
(* The evidence of a run.                                                  *)

\* A poll reads what is Ready when it reads; the requests are those of the schedule.
CollectionInvariant ==
  /\ now \in Nat /\ stamped \in {Idle} \cup 0..now
  /\ truth \in Seq(ReadyLevels) /\ Len(truth) = now /\ ready \in ReadyLevels
  /\ snapshots \in Seq([at : Int, read : Int, ready : Int])
  /\ \A i \in DOMAIN snapshots :
       LET x == snapshots[i]
       IN  /\ -LeadSeconds <= x.at /\ x.at <= x.read /\ x.read <= now - LeadSeconds
           /\ x.ready \in {Missing, TrueReady(x.read)}
  /\ IsFiniteSet(requests)

\* Every row is that of the collected files, its P99 one that percentile may give.
RowsAreJoined ==
  \E above \in [Seconds -> BOOLEAN] :
    /\ \A s \in Seconds : above[s] \in P99Above(s)
    /\ rows = [s \in Seconds |-> Row(s, above[s])]

\* The rows are those of the collected files, the verdicts those of the rows, and the
\* metrics those of an accepted run.
ReportInvariant ==
  /\ stage \in {"normalized", "accepted", "rejected", "processed"} => RowsAreJoined
  /\ stage \in {"accepted", "processed"} => Acceptable
  /\ stage \in {"accepted", "rejected", "processed"} => complete = ReportIsValid
  /\ stage = "processed" =>
       LET flags == {s \in Seconds : Violates(rows[s])}
       IN  /\ outcome.flags = flags /\ outcome.episodes = Episodes(flags)
           /\ outcome.delays = Delays /\ outcome.deficit = ReadyDeficit

EvidenceInvariant == CollectionInvariant /\ ReportInvariant

\* What was true in a second stays so.
LEMMA TruthIsKept ==
  ASSUME CollectionInvariant, SecondPasses
  PROVE  \A t \in Int : -LeadSeconds <= t /\ t <= now - LeadSeconds =>
           TrueReady(t) = IF t + LeadSeconds < Len(truth') THEN truth'[t + LeadSeconds + 1] ELSE ready'
<1>1. /\ now \in Nat /\ truth \in Seq(ReadyLevels) /\ Len(truth) = now
      /\ ready \in ReadyLevels /\ truth' = Append(truth, ready)
  BY DEF CollectionInvariant, SecondPasses
<1>2. /\ Len(truth') = now + 1 /\ truth'[now + 1] = ready
      /\ \A i \in 1..now : truth'[i] = truth[i]
  BY <1>1
<1>3. LeadSeconds \in Nat
  BY EvidenceAssumption
<1> SUFFICES ASSUME NEW t \in Int, -LeadSeconds <= t, t <= now - LeadSeconds
             PROVE  TrueReady(t) = IF t + LeadSeconds < Len(truth') THEN truth'[t + LeadSeconds + 1]
                                   ELSE ready'
  OBVIOUS
<1>4. CASE t + LeadSeconds < now
  <2>1. t + LeadSeconds + 1 \in 1..now
    BY <1>1, <1>3, <1>4
  <2> QED BY <1>1, <1>2, <1>3, <1>4, <2>1 DEF TrueReady
<1>5. CASE t + LeadSeconds = now
  BY <1>1, <1>2, <1>3, <1>5 DEF TrueReady
<1> QED BY <1>1, <1>3, <1>4, <1>5

\* A schedule has finitely many requests, in every second as many as it says.
LEMMA ScheduleIsFinite ==
  /\ IsFiniteSet(Scheduled)
  /\ \A s \in Seconds : ScheduledIn[s + 1] \in Nat
                       /\ IsFiniteSet(ScheduledAt(s))
                       /\ Cardinality(ScheduledAt(s)) = ScheduledIn[s + 1]
<1>1. ASSUME NEW s \in Seconds
      PROVE  /\ ScheduledIn[s + 1] \in Nat /\ IsFiniteSet(ScheduledAt(s))
             /\ Cardinality(ScheduledAt(s)) = ScheduledIn[s + 1]
  <2> DEFINE n == ScheduledIn[s + 1]
  <2>1. s \in Nat /\ s + 1 \in 1..RunSeconds
    BY EvidenceAssumption DEF Seconds
  <2>2. n \in Nat
    BY <2>1, ScheduleAssumption
  <2> HIDE DEF n
  <2>3. IsFiniteSet(1..n) /\ Cardinality(1..n) = n
    BY <2>2, FS_Interval
  <2>4. IsFiniteSet({s}) /\ Cardinality({s}) = 1
    BY FS_Singleton
  <2>5. IsFiniteSet({s} \X (1..n))
        /\ Cardinality({s} \X (1..n)) = Cardinality({s}) * Cardinality(1..n)
    <3> HIDE DEF n
    <3> QED BY <2>3, <2>4, FS_Product
  <2>6. Cardinality({s} \X (1..n)) = n
    BY <2>2, <2>3, <2>4, <2>5
  <2> QED BY <2>2, <2>5, <2>6 DEF ScheduledAt, n
<1>2. IsFiniteSet({ScheduledAt(s) : s \in Seconds})
  <2> DEFINE T == {ScheduledAt(s) : s \in Seconds}
             f == [s \in Seconds |-> ScheduledAt(s)]
  <2>1. f \in Surjection(Seconds, T)
    BY DEF Surjection
  <2>2. IsFiniteSet(Seconds)
    BY FS_Interval, EvidenceAssumption DEF Seconds
  <2> HIDE DEF f, T
  <2>3. IsFiniteSet(T)
    BY <2>1, <2>2, FS_Surjection
  <2> QED BY <2>3 DEF T
<1>3. \A S \in {ScheduledAt(s) : s \in Seconds} : IsFiniteSet(S)
  BY <1>1
<1>4. IsFiniteSet(UNION {ScheduledAt(s) : s \in Seconds})
  BY <1>2, <1>3, FS_UNION
<1> QED BY <1>1, <1>4 DEF Scheduled

\* Collecting the evidence keeps the invariant.
LEMMA CollectionKept ==
  ASSUME CollectionInvariant, EvidenceNext
  PROVE  CollectionInvariant'
<1>0. LeadSeconds \in Nat /\ RunSeconds \in Nat /\ ReadyLevels \subseteq Nat
  BY EvidenceAssumption
<1> DEFINE Honest(x) == /\ -LeadSeconds <= x.at /\ x.at <= x.read /\ x.read <= now - LeadSeconds
                        /\ x.ready \in {Missing, TrueReady(x.read)}
           Shape == [at : Int, read : Int, ready : Int]
<1>h. /\ now \in Nat /\ stamped \in {Idle} \cup 0..now
      /\ truth \in Seq(ReadyLevels) /\ Len(truth) = now /\ ready \in ReadyLevels
      /\ snapshots \in Seq(Shape) /\ \A i \in DOMAIN snapshots : Honest(snapshots[i])
      /\ IsFiniteSet(requests)
  BY DEF CollectionInvariant
<1>1. CASE Poll
  <2>1. stamped' = now /\ UNCHANGED <<now, ready, truth, snapshots, requests>>
    BY <1>1 DEF Poll
  <2>2. stamped' \in {Idle} \cup 0..now
    BY <1>h, <2>1
  <2> QED BY <2>1, <2>2 DEF CollectionInvariant, TrueReady
<1>2. CASE Read
  <2>1. /\ stamped # Idle /\ stamped' = Idle
        /\ UNCHANGED <<now, ready, truth, requests>>
    BY <1>2 DEF Read
  <2>2. PICK n \in {Missing, ready} : snapshots' = Append(snapshots, Snapshot(n))
    BY <1>2 DEF Read
  <2>3. TrueReady(now - LeadSeconds) = ready
    BY <1>0, <1>h DEF TrueReady
  <2>4. Snapshot(n) \in Shape /\ Honest(Snapshot(n))
    <3>1. stamped \in 0..now
      BY <1>h, <2>1
    <3>2. n \in Int
      BY <1>0, <1>h DEF Missing
    <3> QED BY <1>0, <1>h, <2>3, <3>1, <3>2 DEF Snapshot
  <2>5. snapshots' \in Seq(Shape) /\ \A i \in DOMAIN snapshots' : Honest(snapshots'[i])
    <3> HIDE DEF Shape, Honest
    <3> QED BY <1>h, <2>2, <2>4
  <2>6. \A t : TrueReady(t)' = TrueReady(t)
    BY <2>1 DEF TrueReady
  <2> QED BY <2>1, <2>5, <2>6 DEF CollectionInvariant
<1>3. CASE Serve
  <2>1. UNCHANGED <<now, ready, truth, stamped, snapshots>>
    BY <1>3 DEF Serve
  <2>2. IsFiniteSet(requests')
    <3>1. PICK irregular \in SUBSET Scheduled :
            \E lost \in SUBSET irregular : \E took \in [irregular \ lost -> Took] :
              requests' = {Record(q, IF q \in irregular THEN took[q] ELSE Punctual) :
                             q \in Scheduled \ lost}
      BY <1>3 DEF Serve
    <3>2. PICK lost \in SUBSET irregular : \E took \in [irregular \ lost -> Took] :
            requests' = {Record(q, IF q \in irregular THEN took[q] ELSE Punctual) :
                           q \in Scheduled \ lost}
      BY <3>1
    <3>3. PICK took \in [irregular \ lost -> Took] :
            requests' = {Record(q, IF q \in irregular THEN took[q] ELSE Punctual) :
                           q \in Scheduled \ lost}
      BY <3>2
    <3> DEFINE f == [q \in Scheduled \ lost |->
                       Record(q, IF q \in irregular THEN took[q] ELSE Punctual)]
    <3>4. /\ IsFiniteSet(Scheduled \ lost)
          /\ \A q \in Scheduled \ lost : f[q] \in requests'
          /\ \A x \in requests' : \E q \in Scheduled \ lost : f[q] = x
      BY <3>3, ScheduleIsFinite, SubsetCounts
    <3>5. f \in [Scheduled \ lost -> requests']
      <4>1. f = [q \in Scheduled \ lost |-> f[q]]
        OBVIOUS
      <4> HIDE DEF f
      <4> QED BY <3>4, <4>1
    <3>6. f \in Surjection(Scheduled \ lost, requests')
      <4> HIDE DEF f
      <4> QED BY <3>4, <3>5 DEF Surjection
    <3> QED BY <3>4, <3>6, FS_Surjection
  <2> QED BY <1>h, <2>1, <2>2 DEF CollectionInvariant, TrueReady
<1>4. CASE SecondPasses
  <2>1. /\ now' = now + 1 /\ truth' = Append(truth, ready) /\ ready' \in ReadyLevels
        /\ UNCHANGED <<stamped, snapshots, requests>>
    BY <1>4 DEF SecondPasses
  <2>2. /\ now' \in Nat /\ stamped' \in {Idle} \cup 0..now'
        /\ truth' \in Seq(ReadyLevels) /\ Len(truth') = now'
    BY <1>h, <2>1
  <2> DEFINE After(t) == IF t + LeadSeconds < Len(truth') THEN truth'[t + LeadSeconds + 1]
                         ELSE ready'
  <2>4. \A i \in DOMAIN snapshots :
          LET x == snapshots[i]
          IN  /\ -LeadSeconds <= x.at /\ x.at <= x.read /\ x.read <= now' - LeadSeconds
              /\ x.ready \in {Missing, After(x.read)}
    <3> SUFFICES ASSUME NEW i \in DOMAIN snapshots
                 PROVE  /\ -LeadSeconds <= snapshots[i].at /\ snapshots[i].at <= snapshots[i].read
                        /\ snapshots[i].read <= now' - LeadSeconds
                        /\ snapshots[i].ready \in {Missing, After(snapshots[i].read)}
      OBVIOUS
    <3>0. snapshots[i] \in Shape
      <4> HIDE DEF Shape, Honest
      <4> QED BY <1>h
    <3>1. Honest(snapshots[i])
      <4> HIDE DEF Shape, Honest
      <4> QED BY <1>h
    <3>2. snapshots[i].at \in Int /\ snapshots[i].read \in Int
      BY <3>0
    <3>3. -LeadSeconds <= snapshots[i].read /\ snapshots[i].read <= now - LeadSeconds
      BY <1>0, <3>1, <3>2
    <3>4. TrueReady(snapshots[i].read) = After(snapshots[i].read)
      BY <1>4, <3>2, <3>3, TruthIsKept
    <3>5. now' = now + 1 /\ now \in Nat
      BY <1>h, <2>1
    <3> HIDE DEF After
    <3> QED BY <1>0, <3>1, <3>2, <3>4, <3>5
  <2> QED BY <1>h, <2>1, <2>2, <2>4 DEF CollectionInvariant, TrueReady
<1>5. CASE Capture \/ Normalize \/ Validate \/ ProcessRun
  <2>1. UNCHANGED <<now, ready, truth, stamped, snapshots, requests>>
    BY <1>5 DEF Capture, Normalize, Validate, ProcessRun
  <2> QED BY <2>1 DEF CollectionInvariant, TrueReady
<1> QED BY <1>1, <1>2, <1>3, <1>4, <1>5 DEF EvidenceNext

\* The same files give the same rows, and the same rows the same verdicts.
LEMMA SameRows ==
  ASSUME UNCHANGED <<snapshots, requests>>
  PROVE  /\ \A s, above : Row(s, above)' = Row(s, above)
         /\ \A s : P99Above(s)' = P99Above(s) /\ CompletedIn(s)' = CompletedIn(s)
BY DEF Row, P99Above, Carried, Present, LastOf, CompletedIn

LEMMA SameVerdicts ==
  ASSUME UNCHANGED <<snapshots, requests, decisions, attested, rows>>
  PROVE  /\ RowsAreJoined' = RowsAreJoined
         /\ Acceptable' = Acceptable /\ ReportIsValid' = ReportIsValid /\ Delays' = Delays
         /\ ReadyDeficit' = ReadyDeficit
<1>0. RowsAreJoined' = RowsAreJoined
  BY SameRows DEF RowsAreJoined
<1>1. Gaps' = Gaps
  BY DEF Gaps
<1>2. Acceptable' = Acceptable
  <2>1. Offered' = Offered
    BY DEF Offered, MapThenSumSet, MapThenFoldSet
  <2> QED BY <1>1, <2>1 DEF Acceptable, Covered
<1>3. ReportIsValid' = ReportIsValid
  BY <1>1 DEF ReportIsValid, LogsAreComplete
<1>4. Delays' = Delays
  BY DEF Delays, Raises, Reached, Commanded
<1>5. ReadyDeficit' = ReadyDeficit
  BY DEF ReadyDeficit, MapThenSumSet, MapThenFoldSet
<1> QED BY <1>0, <1>2, <1>3, <1>4, <1>5

\* Normalizing, validating and processing keep the invariant.
LEMMA ReportKept ==
  ASSUME ReportInvariant, EvidenceNext \/ UNCHANGED evidenceVars
  PROVE  ReportInvariant'
<1>1. CASE Poll \/ Read \/ SecondPasses \/ Serve \/ Capture
  <2>1. stage' \in {"collecting", "served", "captured"}
    BY <1>1 DEF Poll, Read, SecondPasses, Serve, Capture
  <2> QED BY <2>1 DEF ReportInvariant
<1>2. CASE Normalize
  <2>1. PICK above \in [Seconds -> BOOLEAN] :
          /\ \A s \in Seconds : above[s] \in P99Above(s)
          /\ rows' = [s \in Seconds |-> Row(s, above[s])]
    BY <1>2 DEF Normalize
  <2>2. stage' = "normalized" /\ UNCHANGED <<snapshots, requests>>
    BY <1>2 DEF Normalize
  <2>3. RowsAreJoined'
    BY <2>1, <2>2, SameRows DEF RowsAreJoined
  <2> QED BY <2>2, <2>3 DEF ReportInvariant
<1>3. CASE Validate
  <2>1. /\ stage = "normalized" /\ stage' = (IF Acceptable THEN "accepted" ELSE "rejected")
        /\ complete' = ReportIsValid
        /\ UNCHANGED <<snapshots, requests, decisions, attested, rows>>
    BY <1>3 DEF Validate
  <2>2. RowsAreJoined
    BY <2>1 DEF ReportInvariant
  <2>3. RowsAreJoined' /\ Acceptable' = Acceptable /\ ReportIsValid' = ReportIsValid
    BY <2>1, <2>2, SameVerdicts
  <2> QED BY <2>1, <2>3 DEF ReportInvariant
<1>4. CASE ProcessRun
  <2> DEFINE flags == {s \in Seconds : Violates(rows[s])}
  <2>1. /\ stage = "accepted" /\ stage' = "processed" /\ complete' = complete
        /\ UNCHANGED <<snapshots, requests, decisions, attested, rows>>
        /\ outcome'.flags = flags /\ outcome'.episodes = Episodes(flags)
        /\ outcome'.delays = Delays /\ outcome'.deficit = ReadyDeficit
    BY <1>4 DEF ProcessRun
  <2>2. RowsAreJoined /\ Acceptable /\ complete = ReportIsValid
    BY <2>1 DEF ReportInvariant
  <2>3. /\ RowsAreJoined' /\ Acceptable' = Acceptable /\ ReportIsValid' = ReportIsValid
        /\ Delays' = Delays /\ ReadyDeficit' = ReadyDeficit
    BY <2>1, <2>2, SameVerdicts
  <2> QED BY <2>1, <2>2, <2>3 DEF ReportInvariant
<1>5. CASE UNCHANGED evidenceVars
  <2>1. UNCHANGED <<stage, snapshots, requests, decisions, attested, rows, complete, outcome>>
    BY <1>5 DEF evidenceVars
  <2>2. /\ RowsAreJoined' = RowsAreJoined
        /\ Acceptable' = Acceptable /\ ReportIsValid' = ReportIsValid
        /\ Delays' = Delays /\ ReadyDeficit' = ReadyDeficit
    BY <2>1, SameVerdicts
  <2> QED BY <2>1, <2>2 DEF ReportInvariant
<1> QED BY <1>1, <1>2, <1>3, <1>4, <1>5 DEF EvidenceNext

\* The columns of a joined row.
LEMMA RowColumns ==
  ASSUME RowsAreJoined, NEW s \in Seconds
  PROVE  /\ rows[s].ready = Carried(s) /\ rows[s].present = Present(s)
         /\ rows[s].offered = Demand[s + 1] /\ rows[s].completed = Cardinality(CompletedIn(s))
         /\ rows[s].failed = Cardinality({r \in CompletedIn(s) : ~r.ok})
         /\ rows[s].slow \in P99Above(s)
<1>1. PICK above \in [Seconds -> BOOLEAN] :
        /\ \A q \in Seconds : above[q] \in P99Above(q)
        /\ rows = [q \in Seconds |-> Row(q, above[q])]
  BY DEF RowsAreJoined
<1>2. rows[s] = Row(s, above[s]) /\ above[s] \in P99Above(s)
  BY <1>1
<1> QED BY <1>2 DEF Row

\* A row shows what a poll of its own second read, or of a second no further back than
\* the gap acceptance allows.
LEMMA RowsAreRecent ==
  ASSUME EvidenceInvariant, Trusted, NEW s \in Seconds, rows[s].ready # Missing
  PROVE  \E i \in DOMAIN snapshots :
           /\ snapshots[i].ready = rows[s].ready /\ snapshots[i].at \in Nat
           /\ s - (IF complete THEN 0 ELSE MaxMissing) <= snapshots[i].at /\ snapshots[i].at <= s
<1> DEFINE seen == {p \in 0..s : Present(p)}
           p == Max(seen)
<1>1. RunSeconds \in Nat /\ MaxMissing \in Nat /\ s \in Nat /\ s < RunSeconds
  BY EvidenceAssumption DEF Seconds
<1>2. RowsAreJoined /\ Covered /\ complete = ReportIsValid
  BY DEF EvidenceInvariant, ReportInvariant, Trusted, Acceptable
<1>3. \A q \in Seconds : rows[q].ready = Carried(q) /\ rows[q].present = Present(q)
  BY <1>2, RowColumns
<1>4. seen # {} /\ rows[s].ready = LastOf(p).ready
  BY <1>3 DEF Carried
<1>5. p \in seen /\ \A q \in seen : q <= p
  BY <1>1, <1>4, MaxNat
<1>6. p \in Nat /\ p <= s /\ Present(p)
  BY <1>1, <1>5
<1>7. \A q \in Seconds : q > p /\ q <= s => q \in Gaps
  <2> SUFFICES ASSUME NEW q \in Seconds, q > p, q <= s PROVE ~rows[q].present
    BY DEF Gaps
  <2>1. q \notin seen
    BY <1>5, <1>6 DEF Seconds
  <2>2. ~Present(q)
    BY <1>1, <2>1 DEF Seconds
  <2> QED BY <1>3, <2>2
<1> HIDE DEF seen, p
<1>8. s - (IF complete THEN 0 ELSE MaxMissing) <= p
  <2>1. CASE complete
    <3>1. Gaps = {}
      BY <1>2, <2>1 DEF ReportIsValid
    <3>2. ~ (s > p)
      BY <1>1, <1>6, <1>7, <3>1
    <3> QED BY <1>1, <1>6, <2>1, <3>2
  <2>2. CASE ~complete
    <3> SUFFICES ASSUME s - MaxMissing > p PROVE FALSE
      BY <1>1, <1>6, <2>2
    <3> DEFINE a == s - MaxMissing
    <3>1. a \in Seconds /\ a + MaxMissing = s
      BY <1>1, <1>6 DEF Seconds
    <3>2. \A q \in a..(a + MaxMissing) : q \in Seconds /\ q > p /\ q <= s
      BY <1>1, <1>6, <3>1 DEF Seconds
    <3>3. a..(a + MaxMissing) \subseteq Gaps
      BY <1>7, <3>2
    <3> HIDE DEF a
    <3> QED BY <1>2, <3>1, <3>3 DEF Covered
  <2> QED BY <2>1, <2>2
<1> DEFINE A == {i \in DOMAIN snapshots : snapshots[i].at = p}
<1>9. Max(A) \in A
  <2>1. DOMAIN snapshots = 1..Len(snapshots) /\ Len(snapshots) \in Nat
    BY DEF EvidenceInvariant, CollectionInvariant
  <2>2. A \subseteq Nat /\ A # {} /\ \A i \in A : i <= Len(snapshots)
    BY <1>6, <2>1 DEF Present
  <2> QED BY <2>1, <2>2, MaxNat
<1>10. LastOf(p) = snapshots[Max(A)]
  BY DEF LastOf
<1> QED BY <1>4, <1>6, <1>8, <1>9, <1>10

\* What a row shows was true within the gap and the time of a poll.
LEMMA RowsAreTrue ==
  ASSUME EvidenceInvariant, Trusted, NEW s \in Seconds
  PROVE  rows[s].ready \in Near(s) \cup {Missing}
<1> SUFFICES ASSUME rows[s].ready # Missing PROVE rows[s].ready \in Near(s)
  OBVIOUS
<1> DEFINE back == IF complete THEN 0 ELSE MaxMissing
           D == {snapshots[i].read - snapshots[i].at : i \in DOMAIN snapshots}
           late == IF snapshots = << >> THEN 0 ELSE Max(D)
<1>1. PICK i \in DOMAIN snapshots :
        /\ snapshots[i].ready = rows[s].ready /\ snapshots[i].at \in Nat
        /\ s - back <= snapshots[i].at /\ snapshots[i].at <= s
  BY RowsAreRecent
<1>2. /\ now \in Nat /\ snapshots \in Seq([at : Int, read : Int, ready : Int])
      /\ \A k \in DOMAIN snapshots :
           /\ -LeadSeconds <= snapshots[k].at /\ snapshots[k].at <= snapshots[k].read
           /\ snapshots[k].read <= now - LeadSeconds
           /\ snapshots[k].ready \in {Missing, TrueReady(snapshots[k].read)}
  BY DEF EvidenceInvariant, CollectionInvariant
<1>3. LeadSeconds \in Nat /\ MaxMissing \in Nat /\ s \in Nat
  BY EvidenceAssumption DEF Seconds
<1>4. \A k \in DOMAIN snapshots : snapshots[k].at \in Int /\ snapshots[k].read \in Int
  <2> DEFINE Shape == [at : Int, read : Int, ready : Int]
  <2>1. \A k \in DOMAIN snapshots : snapshots[k] \in Shape
    <3>1. snapshots \in Seq(Shape)
      BY <1>2
    <3> HIDE DEF Shape
    <3> QED BY <3>1
  <2> QED BY <2>1
<1>5. D \subseteq Nat /\ D # {} /\ \A d \in D : d <= now
  <2>1. \A k \in DOMAIN snapshots :
          /\ snapshots[k].read - snapshots[k].at \in Nat
          /\ snapshots[k].read - snapshots[k].at <= now
    <3> SUFFICES ASSUME NEW k \in DOMAIN snapshots, NEW x \in Int, NEW y \in Int,
                        x = snapshots[k].at, y = snapshots[k].read
                 PROVE  y - x \in Nat /\ y - x <= now
      BY <1>4
    <3>1. -LeadSeconds <= x /\ x <= y /\ y <= now - LeadSeconds
      BY <1>2
    <3>2. now \in Int /\ LeadSeconds \in Int
      BY <1>2, <1>3
    <3> QED BY <3>1, <3>2
  <2>2. \A d \in D : \E k \in DOMAIN snapshots : d = snapshots[k].read - snapshots[k].at
    OBVIOUS
  <2>3. snapshots[i].read - snapshots[i].at \in D
    BY <1>1
  <2> HIDE DEF D
  <2>4. ASSUME NEW d \in D PROVE d \in Nat /\ d <= now
    <3>1. PICK k \in DOMAIN snapshots : d = snapshots[k].read - snapshots[k].at
      BY <2>2
    <3> QED BY <2>1, <3>1, Zenon
  <2> QED BY <2>3, <2>4
<1>6. late \in Nat /\ snapshots[i].read - snapshots[i].at <= late
  <2>1. Max(D) \in D /\ \A d \in D : d <= Max(D)
    BY <1>2, <1>5, MaxNat
  <2>2. snapshots # << >>
    BY <1>1, <1>2
  <2>3. snapshots[i].read - snapshots[i].at \in D
    BY <1>1
  <2> HIDE DEF D
  <2> QED BY <1>5, <2>1, <2>2, <2>3
<1> HIDE DEF D
<1>7. snapshots[i].read \in (s - back)..(s + late)
  <2>1. back \in Nat
    BY <1>3
  <2> HIDE DEF back, late
  <2>2. snapshots[i].at \in Int /\ snapshots[i].read \in Int
    BY <1>4
  <2>3. /\ snapshots[i].at <= snapshots[i].read /\ snapshots[i].read - snapshots[i].at <= late
        /\ s - back <= snapshots[i].at /\ snapshots[i].at <= s
    BY <1>1, <1>2, <1>6
  <2>4. late \in Nat
    BY <1>6
  <2> QED BY <1>3, <2>1, <2>2, <2>3, <2>4
<1>8. rows[s].ready = TrueReady(snapshots[i].read)
  BY <1>1, <1>2
<1> QED BY <1>7, <1>8 DEF Near, D

\* A measured delay ends where the row shows the commanded replicas.
LEMMA DelaysAreTrue ==
  ASSUME EvidenceInvariant, stage = "processed", NEW s \in DOMAIN outcome.delays
  PROVE  \E n \in Near(s + outcome.delays[s]) : n >= Commanded(s)
<1> DEFINE t == Min(Reached(s))
<1>1. RunSeconds \in Nat
  BY EvidenceAssumption
<1>2. outcome.delays = [q \in {u \in Raises : Reached(u) # {}} |-> Min(Reached(q)) - q]
  BY DEF EvidenceInvariant, ReportInvariant, Delays
<1>3. s \in Seconds /\ Reached(s) # {} /\ outcome.delays[s] = t - s
  BY <1>2 DEF Raises
<1>4. s \in Nat /\ Reached(s) \subseteq Nat
  BY <1>1, <1>3 DEF Seconds, Reached
<1>5. t \in Reached(s)
  BY <1>3, <1>4, MinNat
<1>6. t \in Seconds /\ rows[t].ready # Missing /\ rows[t].ready >= Commanded(s)
  BY <1>1, <1>4, <1>5 DEF Seconds, Reached
<1>7. s + outcome.delays[s] = t
  BY <1>3, <1>4, <1>5
<1>8. rows[t].ready \in Near(t)
  BY <1>6, RowsAreTrue DEF Trusted
<1> QED BY <1>6, <1>7, <1>8

\* The invariant makes the readiness of an accepted run honest.
LEMMA HonestReadiness == EvidenceInvariant => MeasuredReadinessIsHonest
<1> SUFFICES ASSUME EvidenceInvariant PROVE MeasuredReadinessIsHonest
  OBVIOUS
<1>1. Trusted => \A s \in Seconds : rows[s].ready \in Near(s) \cup {Missing}
  BY RowsAreTrue
<1>2. stage = "processed" => \A s \in DOMAIN outcome.delays :
        \E n \in Near(s + outcome.delays[s]) : n >= Commanded(s)
  BY DelaysAreTrue
<1> QED BY <1>1, <1>2 DEF MeasuredReadinessIsHonest

\* Every flagged second lies in one maximal run of flagged seconds.
LEMMA OneEpisode ==
  ASSUME NEW flags, flags \subseteq Seconds, NEW s \in flags
  PROVE  Cardinality({e \in Episodes(flags) : s \in e[1]..e[2]}) = 1
<1> DEFINE A == {a \in 0..s : a..s \subseteq flags}
           B == {b \in Seconds : s <= b /\ s..b \subseteq flags}
           a == Min(A)
           b == Max(B)
           E == {e \in Episodes(flags) : s \in e[1]..e[2]}
<1>1. RunSeconds \in Nat /\ s \in Nat /\ s < RunSeconds /\ \A q \in flags : q \in Nat /\ q < RunSeconds
  BY EvidenceAssumption DEF Seconds
<1>2. /\ A \subseteq Nat /\ s \in A /\ B \subseteq Nat /\ s \in B /\ \A q \in B : q <= RunSeconds
  BY <1>1 DEF Seconds
<1>3. a \in A /\ b \in B /\ (\A q \in A : a <= q) /\ (\A q \in B : q <= b)
  BY <1>1, <1>2, MinNat, MaxNat
<1>4. a \in Nat /\ a <= s /\ a..s \subseteq flags /\ b \in Nat /\ s <= b /\ s..b \subseteq flags
  BY <1>1, <1>2, <1>3
<1>5. a - 1 \notin flags /\ b + 1 \notin flags
  <2> HIDE DEF a, b
  <2>1. ASSUME a - 1 \in flags PROVE FALSE
    <3>1. \A q \in (a - 1)..s : q = a - 1 \/ q \in a..s
      BY <1>1, <1>4
    <3>2. a - 1 \in A
      BY <1>1, <1>4, <2>1, <3>1
    <3> HIDE DEF A
    <3> QED BY <1>3, <1>4, <3>2
  <2>2. ASSUME b + 1 \in flags PROVE FALSE
    <3>1. \A q \in s..(b + 1) : q = b + 1 \/ q \in s..b
      BY <1>1, <1>4
    <3>2. b + 1 \in B
      BY <1>1, <1>4, <2>2, <3>1 DEF Seconds
    <3> HIDE DEF B
    <3> QED BY <1>3, <1>4, <3>2
  <2> QED BY <2>1, <2>2
<1> HIDE DEF a, b, A, B
<1>6. <<a, b>> \in E
  <2>1. \A q \in a..b : q \in a..s \/ q \in s..b
    BY <1>1, <1>4
  <2>2. a..b \subseteq flags
    BY <1>4, <2>1
  <2>3. a \in Seconds /\ b \in Seconds /\ a <= b /\ s \in a..b
    BY <1>1, <1>4, <2>2 DEF Seconds
  <2> QED BY <1>5, <2>2, <2>3 DEF Episodes
<1>7. \A e \in E : e = <<a, b>>
  <2> SUFFICES ASSUME NEW e \in E PROVE e = <<a, b>>
    OBVIOUS
  <2>1. /\ e \in Seconds \X Seconds /\ e[1]..e[2] \subseteq flags
        /\ e[1] - 1 \notin flags /\ e[2] + 1 \notin flags /\ s \in e[1]..e[2]
    BY DEF Episodes
  <2>2. e[1] \in Nat /\ e[2] \in Nat /\ e = <<e[1], e[2]>> /\ e[1] <= s /\ s <= e[2]
    BY <2>1 DEF Seconds
  <2>3. ~ (e[1] < a) /\ ~ (a < e[1])
    <3>1. e[1] < a => a - 1 \in e[1]..e[2]
      BY <1>4, <2>2
    <3>2. a < e[1] => e[1] - 1 \in a..s
      BY <1>1, <1>4, <2>2
    <3> QED BY <1>4, <1>5, <2>1, <3>1, <3>2
  <2>4. ~ (e[2] < b) /\ ~ (b < e[2])
    <3>1. b < e[2] => b + 1 \in e[1]..e[2]
      BY <1>4, <2>2
    <3>2. e[2] < b => e[2] + 1 \in s..b
      BY <1>1, <1>4, <2>2
    <3> QED BY <1>4, <1>5, <2>1, <3>1, <3>2
  <2> QED BY <1>4, <2>2, <2>3, <2>4
<1> HIDE DEF E
<1>8. E = {<<a, b>>}
  BY <1>6, <1>7
<1> QED BY <1>8, FS_Singleton DEF E

\* What a joined row says of the requests that complete in its second.
LEMMA RowCounts ==
  ASSUME EvidenceInvariant, RowsAreJoined, NEW s \in Seconds
  PROVE  /\ rows[s].offered \in Nat /\ rows[s].offered > 0
         /\ rows[s].offered <= 100 * PerRequest
         /\ IsFiniteSet(CompletedIn(s))
         /\ rows[s].completed \in Nat /\ rows[s].failed \in Nat
         /\ rows[s].failed > 0 <=> \E r \in CompletedIn(s) : ~r.ok
         /\ rows[s].slow \in BOOLEAN
<1>1. RunSeconds \in Nat /\ PerRequest \in Nat \ {0}
      /\ Demand \in [1..RunSeconds -> 1..(100 * PerRequest)] /\ s + 1 \in 1..RunSeconds
  BY EvidenceAssumption, ScheduleAssumption DEF Seconds
<1>2. rows[s].offered \in 1..(100 * PerRequest)
  BY <1>1, RowColumns
<1>3. IsFiniteSet(CompletedIn(s)) /\ Cardinality(CompletedIn(s)) \in Nat
  BY SubsetCounts DEF EvidenceInvariant, CollectionInvariant, CompletedIn
<1> DEFINE F == {r \in CompletedIn(s) : ~r.ok}
<1>4. IsFiniteSet(F) /\ Cardinality(F) \in Nat
  BY <1>3, SubsetCounts
<1>5. Cardinality(F) > 0 <=> F # {}
  BY <1>4, FS_EmptySet
<1>6. F # {} <=> \E r \in CompletedIn(s) : ~r.ok
  OBVIOUS
<1>7. rows[s].slow \in BOOLEAN
  BY RowColumns DEF P99Above
<1> HIDE DEF F
<1>8. rows[s].failed = Cardinality(F) /\ rows[s].completed = Cardinality(CompletedIn(s))
  BY RowColumns DEF F
<1> QED BY <1>1, <1>2, <1>3, <1>4, <1>5, <1>6, <1>7, <1>8

\* A P99 above the objective has a slow request, and where that is certain it is above.
LEMMA SlowRows ==
  ASSUME EvidenceInvariant, RowsAreJoined, NEW s \in Seconds
  PROVE  LET slow == {r \in CompletedIn(s) : r.slow}
         IN  /\ rows[s].slow => \E r \in CompletedIn(s) : r.slow
             /\ slow # {} /\ slow = CompletedIn(s) => rows[s].slow
             /\ Cardinality(slow) >= 2 /\ Cardinality(CompletedIn(s)) <= 101 => rows[s].slow
<1> DEFINE C == CompletedIn(s)
           S == {r \in C : r.slow}
           F == {r \in C : ~r.slow}
           n == Cardinality(C)
           fast == Cardinality(F)
<1>1. IsFiniteSet(C) /\ IsFiniteSet(S) /\ IsFiniteSet(F)
      /\ n \in Nat /\ fast \in Nat /\ Cardinality(S) \in Nat
  <2>1. IsFiniteSet(C)
    BY RowCounts
  <2> QED BY <2>1, SubsetCounts
<1>2. n = fast + Cardinality(S)
  <2>1. F \cup S = C /\ F \cap S = {}
    OBVIOUS
  <2>2. Cardinality(F \cup S) = fast + Cardinality(S) - Cardinality(F \cap S)
    BY <1>1, FS_Union
  <2>3. Cardinality(F \cap S) = 0
    BY <2>1, FS_EmptySet
  <2>4. n = Cardinality(F \cup S)
    BY <2>1
  <2> HIDE DEF n, fast, F, S
  <2> QED BY <1>1, <2>2, <2>3, <2>4
<1>3. /\ rows[s].slow \in BOOLEAN
      /\ n > 0 /\ 99 * (n - 1) >= 100 * fast => rows[s].slow
      /\ n = 0 \/ 99 * (n - 1) <= 100 * (fast - 1) => ~rows[s].slow
  BY RowColumns DEF P99Above
<1>4. (S = {} <=> Cardinality(S) = 0) /\ (C = {} <=> n = 0)
  BY <1>1, FS_EmptySet
<1>5. S = C => F = {}
  OBVIOUS
<1>6. F = {} => fast = 0
  BY FS_EmptySet
<1>7. S # {} <=> \E r \in C : r.slow
  OBVIOUS
<1> HIDE DEF C, S, F, n, fast
<1>8. rows[s].slow => S # {}
  <2> SUFFICES ASSUME S = {} PROVE ~rows[s].slow
    OBVIOUS
  <2>1. n = fast
    BY <1>1, <1>2, <1>4
  <2>2. n = 0 \/ 99 * (n - 1) <= 100 * (fast - 1)
    BY <1>1, <2>1
  <2> QED BY <1>3, <2>2
<1>9. S # {} /\ S = C => rows[s].slow
  <2> SUFFICES ASSUME S # {}, S = C PROVE rows[s].slow
    OBVIOUS
  <2>1. fast = 0 /\ n > 0
    BY <1>1, <1>4, <1>5, <1>6
  <2>2. 99 * (n - 1) >= 100 * fast
    BY <1>1, <2>1
  <2> QED BY <1>3, <2>1, <2>2
<1>10. Cardinality(S) >= 2 /\ n <= 101 => rows[s].slow
  <2> SUFFICES ASSUME Cardinality(S) >= 2, n <= 101 PROVE rows[s].slow
    OBVIOUS
  <2>1. n > 0 /\ fast <= n - 2
    BY <1>1, <1>2
  <2>2. 99 * (n - 1) >= 100 * fast
    BY <1>1, <2>1
  <2> QED BY <1>3, <2>1, <2>2
<1> QED BY <1>7, <1>8, <1>9, <1>10 DEF C, S, n

\* The invariant gives every violation its cause and every cause its violation.
LEMMA CausedFlags == EvidenceInvariant => FlagsHaveCauses
<1> SUFFICES ASSUME EvidenceInvariant, stage = "processed"
             PROVE  /\ \A s \in Seconds : MissesObjective(s) => s \in outcome.flags
                    /\ \A s \in outcome.flags :
                         /\ Cardinality({e \in outcome.episodes : s \in e[1]..e[2]}) = 1
                         /\ \/ \E r \in CompletedIn(s) : r.slow \/ ~r.ok
                            \/ \E q \in ScheduledAt(s) : \A r \in CompletedIn(s) : r.id # q
                            \/ 100 * (ScheduledIn[s + 1] * PerRequest) < 99 * Demand[s + 1]
  BY DEF FlagsHaveCauses
<1> DEFINE flags == {s \in Seconds : Violates(rows[s])}
<1>1. outcome.flags = flags /\ outcome.episodes = Episodes(flags) /\ RowsAreJoined
  BY DEF EvidenceInvariant, ReportInvariant
<1>2. PerRequest \in Nat \ {0}
  BY ScheduleAssumption
<1>3. ASSUME NEW s \in Seconds, MissesObjective(s) PROVE Violates(rows[s])
  <2>1. CASE \E r \in CompletedIn(s) : ~r.ok
    <3>1. /\ rows[s].failed \in Nat /\ rows[s].failed > 0 /\ rows[s].offered \in Nat
          /\ rows[s].offered > 0 /\ rows[s].offered <= 100 * PerRequest
      BY <1>1, <2>1, RowCounts
    <3>2. 1 * PerRequest <= rows[s].failed * PerRequest /\ rows[s].failed * PerRequest \in Nat
      BY <1>2, <3>1, ProductGrows
    <3>3. 100 * (rows[s].failed * PerRequest) >= rows[s].offered
      BY <1>2, <3>1, <3>2
    <3> QED BY <3>1, <3>3 DEF Violates
  <2>2. CASE rows[s].slow
    BY <2>2 DEF Violates
  <2> QED BY <1>1, <1>3, <2>1, <2>2, SlowRows DEF MissesObjective
<1>4. ASSUME NEW s \in flags, ~\E r \in CompletedIn(s) : r.slow \/ ~r.ok,
             \A q \in ScheduledAt(s) : \E r \in CompletedIn(s) : r.id = q
      PROVE  100 * (ScheduledIn[s + 1] * PerRequest) < 99 * Demand[s + 1]
  <2> DEFINE done == rows[s].completed
             due  == ScheduledIn[s + 1]
  <2>0. s \in Seconds /\ Violates(rows[s])
    OBVIOUS
  <2>1. /\ rows[s].offered \in Nat /\ rows[s].offered > 0 /\ rows[s].failed \in Nat
        /\ ~(rows[s].failed > 0) /\ ~rows[s].slow /\ done \in Nat
        /\ IsFiniteSet(CompletedIn(s))
    BY <1>1, <1>4, <2>0, RowCounts, SlowRows
  <2>2. 100 * (done * PerRequest) < 99 * rows[s].offered
    <3>1. rows[s].failed = 0
      BY <2>1
    <3>2. ~(100 * (0 * PerRequest) >= rows[s].offered)
      BY <1>2, <2>1
    <3> QED BY <2>0, <2>1, <3>1, <3>2 DEF Violates
  <2>3. rows[s].offered = Demand[s + 1] /\ done = Cardinality(CompletedIn(s))
    BY <1>1, <2>0, RowColumns
  <2>4. due \in Nat /\ Cardinality(ScheduledAt(s)) = due
    BY <2>0, ScheduleIsFinite
  <2>5. due <= done
    <3> DEFINE f == [q \in ScheduledAt(s) |-> CHOOSE r \in CompletedIn(s) : r.id = q]
    <3>1. \A q \in ScheduledAt(s) : f[q] \in CompletedIn(s) /\ f[q].id = q
      BY <1>4
    <3>2. f \in [ScheduledAt(s) -> CompletedIn(s)]
      <4>1. f = [q \in ScheduledAt(s) |-> f[q]]
        OBVIOUS
      <4> HIDE DEF f
      <4> QED BY <3>1, <4>1
    <3>3. \A q, p \in ScheduledAt(s) : f[q] = f[p] => q = p
      <4> HIDE DEF f
      <4> QED BY <3>1
    <3>4. f \in Injection(ScheduledAt(s), CompletedIn(s))
      <4> HIDE DEF f
      <4> QED BY <3>2, <3>3 DEF Injection, IsInjective
    <3>5. Cardinality(ScheduledAt(s)) <= Cardinality(CompletedIn(s))
      <4> HIDE DEF f
      <4> QED BY <2>1, <3>4, FS_Injection
    <3> QED BY <2>3, <2>4, <3>5
  <2> HIDE DEF done, due
  <2>6. due * PerRequest \in Nat /\ done * PerRequest \in Nat /\ due * PerRequest <= done * PerRequest
    BY <1>2, <2>1, <2>4, <2>5, ProductGrows
  <2>7. 100 * (due * PerRequest) < 99 * Demand[s + 1]
    BY <2>1, <2>2, <2>3, <2>6
  <2> QED BY <2>7 DEF due
<1>5. \A s \in flags : Cardinality({e \in Episodes(flags) : s \in e[1]..e[2]}) = 1
  <2>1. flags \subseteq Seconds
    OBVIOUS
  <2> HIDE DEF flags
  <2> QED BY <2>1, OneEpisode
<1>6. \A s \in Seconds : MissesObjective(s) => s \in flags
  BY <1>3
<1>7. \A s \in flags : \/ \E r \in CompletedIn(s) : r.slow \/ ~r.ok
                       \/ \E q \in ScheduledAt(s) : \A r \in CompletedIn(s) : r.id # q
                       \/ 100 * (ScheduledIn[s + 1] * PerRequest) < 99 * Demand[s + 1]
  <2> HIDE DEF flags
  <2> QED BY <1>4
<1> HIDE DEF flags
<1> QED BY <1>1, <1>5, <1>6, <1>7

\* The invariant holds in every state.
LEMMA EvidenceInvariantHolds == OfflineSpec => []EvidenceInvariant
<1>1. OfflineInit => EvidenceInvariant
  <2> SUFFICES ASSUME OfflineInit PROVE EvidenceInvariant
    OBVIOUS
  <2>1. /\ stage = "collecting" /\ now = 0 /\ ready = Min(ReadyLevels) /\ truth = << >>
        /\ stamped = Idle /\ snapshots = << >> /\ requests = {}
    BY DEF OfflineInit, EvidenceInit
  <2>2. ready \in ReadyLevels
    BY <2>1, MinNat, EvidenceAssumption
  <2> QED BY <2>1, <2>2, FS_EmptySet
          DEF EvidenceInvariant, CollectionInvariant, ReportInvariant
<1>2. EvidenceInvariant /\ [OfflineNext]_offlineVars => EvidenceInvariant'
  <2> SUFFICES ASSUME EvidenceInvariant, [OfflineNext]_offlineVars PROVE EvidenceInvariant'
    OBVIOUS
  <2>1. CASE UNCHANGED evidenceVars
    <3>1. CollectionInvariant'
      BY <2>1 DEF evidenceVars, EvidenceInvariant, CollectionInvariant, TrueReady
    <3> QED BY <2>1, <3>1, ReportKept DEF EvidenceInvariant
  <2>2. CASE EvidenceNext
    BY <2>2, CollectionKept, ReportKept DEF EvidenceInvariant
  <2>3. UNCHANGED evidenceVars \/ EvidenceNext
    BY DEF OfflineNext, Proceed, Dataset, Study, studyVars, offlineVars
  <2> QED BY <2>1, <2>2, <2>3
<1> QED BY <1>1, <1>2, PTL DEF OfflineSpec

\* MetricsAreTrue: an accepted run shows true readiness, up to the gaps its acceptance
\* allows and the time of a poll (kubernetes.py, normalize.py, validate_final_run.py), and
\* every violation has its cause, every cause in the run its violation, and every
\* violation its one episode (process_step17.py).
THEOREM ReportedMetricsAreTrue == OfflineSpec => []MetricsAreTrue
<1>1. EvidenceInvariant => MetricsAreTrue
  BY HonestReadiness, CausedFlags DEF MetricsAreTrue
<1> QED BY <1>1, EvidenceInvariantHolds, PTL

\* Both lookups find the same count for the rates of the run.
LEMMA BothLookups ==
  ASSUME NEW i \in 1..RunSeconds
  PROVE  Required[i] \in Nat /\ RobustRequired(Demand[i]) = Required[i]
<1> DEFINE d == Demand[i]
           T == StudyCapacity
           F == Fitting(T, d)
           E == {p \in DOMAIN T : T[p].rps >= d}
<1>1. d \in Nat /\ d > 0
  BY ScheduleAssumption
<1>2. /\ T \in Seq([replicas : Nat \ {0}, rps : Nat])
      /\ \E p \in DOMAIN T : d <= T[p].rps
      /\ \A p \in DOMAIN T : d <= T[p].rps + Tolerance => d <= T[p].rps
  BY DemandIsCovered
<1>3. DOMAIN T \subseteq Nat /\ \A p \in DOMAIN T : T[p].replicas \in Nat /\ T[p].rps \in Nat
  <2>1. DOMAIN T = 1..Len(T) /\ Len(T) \in Nat
    BY <1>2
  <2>2. \A p \in DOMAIN T : T[p] \in [replicas : Nat \ {0}, rps : Nat]
    BY <1>2, <2>1, ElementOfSeq
  <2> QED BY <2>1, <2>2
<1>4. F = E /\ E # {} /\ E \subseteq DOMAIN T
  <2> HIDE DEF d, T
  <2>1. \A p \in DOMAIN T : d <= T[p].rps + Tolerance <=> T[p].rps >= d
    BY <1>1, <1>2, <1>3, ToleranceAssumption
  <2> QED BY <1>1, <1>2, <1>3, <2>1 DEF Fitting
<1>5. Min(E) \in E
  BY <1>3, <1>4, MinNat
<1>6. RequiredReplicas(T, d) = T[Min(E)].replicas
  BY <1>1, <1>4 DEF RequiredReplicas
<1>7. RobustRequired(d) = T[Min(E)].replicas
  BY <1>1, <1>4 DEF RobustRequired
<1>8. Required[i] = RequiredReplicas(T, d)
  BY DEF Required
<1> HIDE DEF T, d, E, F
<1>9. T[Min(E)].replicas \in Nat
  BY <1>3, <1>4, <1>5
<1> QED BY <1>6, <1>7, <1>8, <1>9 DEF d

\* The second a row falls short in is one whose Ready count is known, and too low.
LEMMA ShortRow ==
  ASSUME EvidenceInvariant, Trusted, NEW s \in Seconds
  PROVE  /\ Short(rows[s], Required[s + 1]) \in Nat
         /\ Short(rows[s], Required[s + 1]) > 0 =>
              rows[s].ready # Missing /\ rows[s].ready < Required[s + 1]
<1> DEFINE needed == Required[s + 1]
           shown == rows[s].ready
<1>1. needed \in Nat
  <2>1. s + 1 \in 1..RunSeconds
    BY EvidenceAssumption DEF Seconds
  <2> QED BY <2>1, BothLookups
<1>2. CASE shown = Missing
  <2>1. Short(rows[s], needed) = 0
    BY <1>2 DEF Short
  <2> QED BY <2>1
<1>3. CASE shown # Missing
  <2> DEFINE Shape == [at : Int, read : Int, ready : Int]
  <2>1. PICK i \in DOMAIN snapshots : snapshots[i].ready = shown
    BY <1>3, RowsAreRecent
  <2>2. snapshots \in Seq(Shape)
    BY DEF EvidenceInvariant, CollectionInvariant
  <2>3. snapshots[i] \in Shape
    <3> HIDE DEF Shape
    <3> QED BY <2>1, <2>2
  <2>4. shown \in Int
    BY <2>1, <2>3
  <2>5. Short(rows[s], needed) = Max({needed - shown, 0})
    BY <1>3 DEF Short
  <2> HIDE DEF needed, shown
  <2>6. Max({needed - shown, 0}) = IF needed - shown >= 0 THEN needed - shown ELSE 0
    BY <1>1, <2>4, MaxOfTwo
  <2>7. /\ Max({needed - shown, 0}) \in Nat
        /\ Max({needed - shown, 0}) > 0 => shown < needed
    BY <1>1, <2>4, <2>6
  <2> QED BY <1>3, <2>5, <2>7 DEF needed, shown
<1> QED BY <1>2, <1>3

Counted == [violating : Nat, episodes : Nat, on : BOOLEAN, deficit : Nat]
NothingCounted == [violating |-> 0, episodes |-> 0, on |-> FALSE, deficit |-> 0]
Places == [i \in 1..RunSeconds |-> i - 1]

\* The counters of the robustness analysis, second by second.
LEMMA CountersAreScanned ==
  ASSUME \A s \in Seconds : Short(rows[s], Required[s + 1]) \in Nat
  PROVE  \E c : /\ c[0] = NothingCounted /\ RobustnessSummary = c[RunSeconds]
                /\ \A i \in 1..RunSeconds : c[i] = Scan(c[i - 1], i - 1)
<1> DEFINE D == DOMAIN Places
           pick == [s \in SUBSET D |-> Max(s)]
           one == [k \in D |-> [v \in Counted |-> Scan(v, Places[k])]]
<1>1. RunSeconds \in Nat /\ D = 1..RunSeconds /\ \A k \in D : Places[k] = k - 1 /\ k - 1 \in Seconds
  BY EvidenceAssumption DEF Places, Seconds
<1>2. IsFiniteSet(D)
  BY <1>1, FS_Interval
<1>3. \A s \in SUBSET D : s # {} => pick[s] \in s
  <2> SUFFICES ASSUME NEW s \in SUBSET D, s # {} PROVE Max(s) \in s
    OBVIOUS
  <2>1. s \subseteq Nat /\ \A y \in s : y <= RunSeconds
    BY <1>1
  <2> QED BY <1>1, <2>1, MaxNat
<1>4. one \in [D -> [Counted -> Counted]]
  <2> SUFFICES ASSUME NEW k \in D, NEW v \in Counted PROVE Scan(v, Places[k]) \in Counted
    OBVIOUS
  <2>1. Short(rows[k - 1], Required[(k - 1) + 1]) \in Nat
    BY <1>1
  <2>2. Flagged(rows[k - 1]) \in BOOLEAN
    BY DEF Flagged
  <2>3. (k - 1) + 1 = k /\ RobustRequired(Demand[k]) = Required[k]
    BY <1>1, BothLookups
  <2> QED BY <1>1, <2>1, <2>2, <2>3 DEF Scan, Counted
<1>5. NothingCounted \in Counted
  BY DEF NothingCounted, Counted
<1> DEFINE f[s \in SUBSET D] ==
      IF s = {} THEN NothingCounted ELSE Scan(f[s \ {Max(s)}], Places[Max(s)])
<1>6. RobustnessSummary = f[D]
  BY DEF RobustnessSummary, FoldLeft, MapThenFoldSet, NothingCounted, Places
<1>7. PICK g \in [SUBSET D -> Counted] : Folds(g, D, NothingCounted, one, pick)
  <2>1. Orders(pick, D)
    BY <1>3 DEF Orders
  <2> HIDE DEF D, pick, one
  <2> QED BY <1>2, <1>4, <1>5, <2>1, FoldExists
<1>8. g = [s \in SUBSET D |->
            IF s = {} THEN NothingCounted ELSE Scan(g[s \ {Max(s)}], Places[Max(s)])]
  <2> SUFFICES ASSUME NEW s \in SUBSET D
               PROVE  g[s] = IF s = {} THEN NothingCounted
                             ELSE Scan(g[s \ {Max(s)}], Places[Max(s)])
    OBVIOUS
  <2>1. s # {} => Max(s) \in D /\ g[s \ {Max(s)}] \in Counted
    BY <1>3
  <2> QED BY <1>7, <2>1 DEF Folds
<1>9. f = [s \in SUBSET D |->
            IF s = {} THEN NothingCounted ELSE Scan(f[s \ {Max(s)}], Places[Max(s)])]
  <2> HIDE DEF D
  <2> QED BY <1>8
<1> DEFINE c == [i \in 0..RunSeconds |-> f[1..i]]
<1> HIDE DEF f
<1>10. c[0] = NothingCounted /\ c[RunSeconds] = f[D]
  <2>1. 1..0 = {} /\ {} \in SUBSET D
    OBVIOUS
  <2> QED BY <1>1, <1>9, <2>1
<1>11. \A i \in 1..RunSeconds : c[i] = Scan(c[i - 1], i - 1)
  <2> SUFFICES ASSUME NEW i \in 1..RunSeconds PROVE f[1..i] = Scan(f[1..(i - 1)], i - 1)
    BY <1>1
  <2>1. 1..i \in SUBSET D /\ Places[i] = i - 1 /\ i \in Nat /\ i # 0
    BY <1>1
  <2>2. Max(1..i) = i /\ (1..i) \ {i} = 1..(i - 1) /\ 1..i # {}
    BY <2>1, LastPlace
  <2> QED BY <1>9, <2>1, <2>2
<1> QED BY <1>6, <1>10, <1>11

\* The total of the processing, second by second.
LEMMA DeficitIsScanned ==
  ASSUME \A s \in Seconds : Short(rows[s], Required[s + 1]) \in Nat
  PROVE  \E d : /\ d[0] = 0 /\ ReadyDeficit = d[RunSeconds]
                /\ \A i \in 1..RunSeconds : d[i - 1] \in Int
                     /\ d[i] = Short(rows[i - 1], Required[i]) + d[i - 1]
<1> DEFINE S == Seconds
           pick == [s \in SUBSET S |-> CHOOSE x \in s : TRUE]
           short == [k \in S |-> Short(rows[k], Required[k + 1])]
           one == [k \in S |-> [v \in Int |-> short[k] + v]]
<1>1. RunSeconds \in Nat /\ S = 0..(RunSeconds - 1)
  BY EvidenceAssumption DEF Seconds
<1>2. IsFiniteSet(S)
  BY <1>1, FS_Interval
<1>3. \A s \in SUBSET S : s # {} => pick[s] \in s /\ pick[s] = CHOOSE x \in s : TRUE
  OBVIOUS
<1>4. one \in [S -> [Int -> Int]] /\ short \in [S -> Int]
  OBVIOUS
<1> DEFINE f[s \in SUBSET S] ==
      IF s = {} THEN 0
      ELSE LET x == CHOOSE x \in s : TRUE IN Short(rows[x], Required[x + 1]) + f[s \ {x}]
<1>5. ReadyDeficit = f[S]
  BY DEF ReadyDeficit, MapThenSumSet, MapThenFoldSet
<1>6. PICK g \in [SUBSET S -> Int] : Folds(g, S, 0, one, pick)
  <2>1. Orders(pick, S)
    BY <1>3 DEF Orders
  <2>2. 0 \in Int
    OBVIOUS
  <2> HIDE DEF S, pick, one
  <2> QED BY <1>2, <1>4, <2>1, <2>2, FoldExists
<1>7. \A s \in SUBSET S : s # {} => g[s] = short[pick[s]] + g[s \ {pick[s]}]
  <2> SUFFICES ASSUME NEW s \in SUBSET S, s # {} PROVE g[s] = short[pick[s]] + g[s \ {pick[s]}]
    OBVIOUS
  <2>1. pick[s] \in S /\ g[s \ {pick[s]}] \in Int
    BY <1>3
  <2> HIDE DEF pick, S, short
  <2> QED BY <1>6, <2>1 DEF Folds
<1>8. g = [s \in SUBSET S |->
            IF s = {} THEN 0
            ELSE LET x == CHOOSE x \in s : TRUE IN Short(rows[x], Required[x + 1]) + g[s \ {x}]]
  <2> SUFFICES ASSUME NEW s \in SUBSET S
               PROVE  g[s] = IF s = {} THEN 0
                             ELSE LET x == CHOOSE x \in s : TRUE
                                  IN  Short(rows[x], Required[x + 1]) + g[s \ {x}]
    OBVIOUS
  <2>1. s # {} => pick[s] \in S /\ short[pick[s]] = Short(rows[pick[s]], Required[pick[s] + 1])
    BY <1>3
  <2>2. s = {} => g[s] = 0
    BY <1>6 DEF Folds
  <2> QED BY <1>3, <1>7, <2>1, <2>2
<1>9. f = [s \in SUBSET S |->
            IF s = {} THEN 0
            ELSE LET x == CHOOSE x \in s : TRUE IN Short(rows[x], Required[x + 1]) + f[s \ {x}]]
  <2> HIDE DEF S
  <2> QED BY <1>8
<1> HIDE DEF f
<1>10. \A s \in SUBSET S : s # {} => f[s] = short[pick[s]] + f[s \ {pick[s]}]
  <2> SUFFICES ASSUME NEW s \in SUBSET S, s # {} PROVE f[s] = short[pick[s]] + f[s \ {pick[s]}]
    OBVIOUS
  <2>1. pick[s] \in S /\ short[pick[s]] = Short(rows[pick[s]], Required[pick[s] + 1])
    BY <1>3
  <2> QED BY <1>3, <1>9, <2>1
<1>11. \A s \in SUBSET S : f[s] \in Int
  <2> DEFINE T == {s \in SUBSET S : f[s] \in Int}
  <2>1. {} \in T
    BY <1>9
  <2>2. \A s \in SUBSET S : s # {} /\ s \ {pick[s]} \in T => s \in T
    <3> SUFFICES ASSUME NEW s \in SUBSET S, s # {}, f[s \ {pick[s]}] \in Int PROVE f[s] \in Int
      OBVIOUS
    <3>1. short[pick[s]] \in Int
      BY <1>3, <1>4
    <3>2. f[s] = short[pick[s]] + f[s \ {pick[s]}]
      BY <1>10
    <3> HIDE DEF short, pick
    <3> QED BY <3>1, <3>2
  <2>3. Orders(pick, S)
    BY <1>3 DEF Orders
  <2> HIDE DEF T, pick, S
  <2>4. \A s \in SUBSET S : s \in T
    BY <1>2, <2>1, <2>2, <2>3, EverySubset
  <2> QED BY <2>4 DEF T
<1>12. f \in [SUBSET S -> Int]
  <2> HIDE DEF S
  <2> QED BY <1>9, <1>11
<1>13. SumsAnyhow(f, S, short)
  <2>1. Orders(pick, S)
    BY <1>3 DEF Orders
  <2>2. Sums(f, S, short, pick)
    BY <1>10 DEF Sums
  <2>3. short \in [S -> Int]
    BY <1>4
  <2> HIDE DEF S, pick, short
  <2> QED BY <1>2, <1>12, <2>1, <2>2, <2>3, AnyOrder
<1> DEFINE d == [i \in 0..RunSeconds |-> f[0..(i - 1)]]
<1>14. d[0] = 0 /\ d[RunSeconds] = f[S]
  <2>1. 0..(0 - 1) = {} /\ {} \in SUBSET S
    OBVIOUS
  <2>2. f[{}] = 0
    BY <1>9, <2>1
  <2> QED BY <1>1, <2>1, <2>2
<1>15. ASSUME NEW i \in 1..RunSeconds
       PROVE  d[i - 1] \in Int /\ d[i] = Short(rows[i - 1], Required[i]) + d[i - 1]
  <2>0. i \in Nat /\ i - 1 \in Nat /\ i <= RunSeconds
    BY <1>1
  <2>1. /\ i - 1 \in 0..(i - 1) /\ i - 1 \in S /\ (i - 1) + 1 = i
        /\ i \in 0..RunSeconds /\ i - 1 \in 0..RunSeconds
    BY <1>1, <2>0
  <2>4. 0..(i - 1) \in SUBSET S /\ 0..((i - 1) - 1) \in SUBSET S
    BY <1>1, <2>0
  <2>5. (0..(i - 1)) \ {i - 1} = 0..((i - 1) - 1)
    BY <2>0
  <2>6. f[0..(i - 1)] = short[i - 1] + f[0..((i - 1) - 1)]
    <3>1. \A t \in SUBSET S : \A x \in t : f[t] = short[x] + f[t \ {x}]
      BY <1>13 DEF SumsAnyhow
    <3>2. 0..(i - 1) \in SUBSET S /\ i - 1 \in 0..(i - 1)
      BY <2>1, <2>4
    <3>3. f[0..(i - 1)] = short[i - 1] + f[(0..(i - 1)) \ {i - 1}]
      BY ONLY <3>1, <3>2, Zenon
    <3> QED BY ONLY <2>5, <3>3, Zenon
  <2>7. f[0..((i - 1) - 1)] \in Int
    <3>1. PICK t \in SUBSET S : t = 0..((i - 1) - 1)
      BY <2>4
    <3> HIDE DEF S
    <3>2. f[t] \in Int
      BY <1>11
    <3> QED BY <3>1, <3>2
  <2>2. short[i - 1] = Short(rows[i - 1], Required[i])
    BY <2>1
  <2>3. d[i - 1] = f[0..((i - 1) - 1)] /\ d[i] = f[0..(i - 1)]
    BY <2>1
  <2> HIDE DEF short, d, S
  <2> QED BY <2>2, <2>3, <2>6, <2>7
<1> HIDE DEF d
<1> QED BY <1>5, <1>14, <1>15

\* The members of a set that are below a number.
Under(F, i) == {s \in F : s < i}

\* Nothing of a set of naturals is below 0, all of it below a bound; and below a number
\* there is as much as below the one before, and that one if it is in the set.
LEMMA CountGrows ==
  ASSUME NEW F, IsFiniteSet(F), F \subseteq Nat
  PROVE  /\ Cardinality(Under(F, 0)) = 0
         /\ \A i \in Nat : Cardinality(Under(F, i + 1))
                             = Cardinality(Under(F, i)) + (IF i \in F THEN 1 ELSE 0)
<1>1. Cardinality(Under(F, 0)) = 0
  <2>1. \A s \in F : ~ (s < 0)
    OBVIOUS
  <2>2. Under(F, 0) = {}
    BY <2>1 DEF Under
  <2> QED BY <2>2, FS_EmptySet
<1>2. ASSUME NEW i \in Nat
      PROVE  Cardinality(Under(F, i + 1)) = Cardinality(Under(F, i)) + (IF i \in F THEN 1 ELSE 0)
  <2>1. IsFiniteSet(Under(F, i)) /\ Cardinality(Under(F, i)) \in Nat
    BY SubsetCounts DEF Under
  <2>2. \A s \in F : s < i + 1 <=> s < i \/ s = i
    OBVIOUS
  <2>3. CASE i \in F
    <3>1. \A s : s \in Under(F, i + 1) <=> s \in Under(F, i) \cup {i}
      BY <2>2, <2>3 DEF Under
    <3>2. Under(F, i + 1) = Under(F, i) \cup {i} /\ i \notin Under(F, i)
      BY <3>1 DEF Under
    <3>3. Cardinality(Under(F, i + 1)) = Cardinality(Under(F, i)) + 1
      BY <2>1, <3>2, FS_AddElement
    <3> QED BY <2>3, <3>3
  <2>4. CASE i \notin F
    <3>1. Under(F, i + 1) = Under(F, i)
      BY <2>2, <2>4 DEF Under
    <3> QED BY <2>1, <2>4, <3>1
  <2> QED BY <2>3, <2>4
<1> QED BY <1>1, <1>2

\* There are as many maximal runs of flagged seconds as flagged seconds that follow
\* one that is not.
LEMMA EpisodesStart ==
  ASSUME NEW flags, flags \subseteq Seconds
  PROVE  Cardinality(Episodes(flags)) = Cardinality({s \in flags : s - 1 \notin flags})
<1> DEFINE A == {s \in flags : s - 1 \notin flags}
           E == Episodes(flags)
           At(s) == {e \in E : s \in e[1]..e[2]}
           f == [s \in A |-> CHOOSE e \in E : s \in e[1]..e[2]]
<1>1. RunSeconds \in Nat /\ Seconds = 0..(RunSeconds - 1)
  BY EvidenceAssumption DEF Seconds
<1>2. IsFiniteSet(A)
  <2>1. IsFiniteSet(Seconds) /\ \A s \in A : s \in Seconds
    BY <1>1, FS_Interval
  <2> HIDE DEF A
  <2> QED BY <2>1, SubsetCounts
<1>3. \A e \in E : /\ e \in Seconds \X Seconds /\ e[1] \in Nat /\ e[2] \in Nat /\ e[1] <= e[2]
                   /\ e[1]..e[2] \subseteq flags /\ e[1] - 1 \notin flags
  <2> TAKE e \in E
  <2>1. e \in Seconds \X Seconds /\ e[1]..e[2] \subseteq flags /\ e[1] <= e[2] /\ e[1] - 1 \notin flags
    BY DEF Episodes
  <2>2. e[1] \in Nat /\ e[2] \in Nat
    BY <1>1, <2>1
  <2> QED BY <2>1, <2>2
<1>4. \A s \in flags : \E x : At(s) = {x}
  <2> TAKE s \in flags
  <2>1. Cardinality(At(s)) = 1
    BY OneEpisode
  <2>2. IsFiniteSet(At(s))
    <3>0. IsFiniteSet(Seconds)
      BY <1>1, FS_Interval
    <3>1. IsFiniteSet(Seconds \X Seconds)
      BY <3>0, FS_Product
    <3>2. \A e \in At(s) : e \in Seconds \X Seconds
      BY <1>3
    <3> HIDE DEF At
    <3> QED BY <3>1, <3>2, SubsetCounts
  <2> HIDE DEF At
  <2> QED BY <2>1, <2>2, FS_Singleton
<1>5. \A s \in A : f[s] \in E /\ s \in f[s][1]..f[s][2]
  <2> TAKE s \in A
  <2>1. PICK x : At(s) = {x}
    BY <1>4
  <2>2. x \in E /\ s \in x[1]..x[2]
    BY <2>1
  <2> HIDE DEF E, A
  <2> QED BY <2>2
<1>6. \A s \in A : \A e \in E : s \in e[1]..e[2] => e[1] = s
  <2> SUFFICES ASSUME NEW s \in A, NEW e \in E, s \in e[1]..e[2] PROVE e[1] = s
    OBVIOUS
  <2>1. e[1] \in Nat /\ e[2] \in Nat /\ e[1]..e[2] \subseteq flags /\ s - 1 \notin flags
    BY <1>3
  <2>2. s \in Nat /\ (e[1] # s => s - 1 \in e[1]..e[2])
    BY <2>1
  <2> QED BY <2>1, <2>2
<1>7. \A s, t \in A : f[s] = f[t] => s = t
  <2> HIDE DEF A, E, f
  <2> QED BY <1>5, <1>6
<1>8. \A e \in E : \E s \in A : f[s] = e
  <2> TAKE e \in E
  <2>1. e[1] \in A /\ e[1] \in flags /\ e[1] \in e[1]..e[2]
    BY <1>3
  <2>2. PICK x : At(e[1]) = {x}
    BY <1>4, <2>1
  <2>3. e \in At(e[1]) /\ f[e[1]] \in At(e[1])
    BY <1>5, <2>1
  <2>4. f[e[1]] = e
    BY <2>2, <2>3
  <2> QED BY <2>1, <2>4
<1>9. f \in [A -> E]
  <2>1. f = [s \in A |-> f[s]]
    OBVIOUS
  <2> HIDE DEF A, E, f
  <2> QED BY <1>5, <2>1
<1> HIDE DEF A, E, f
<1>10. Cardinality(E) = Cardinality(A)
  BY <1>2, <1>7, <1>8, <1>9, ListedOnce
<1> QED BY <1>10 DEF A, E

\* The counters and the intervals agree.
LEMMA CountersAgree ==
  ASSUME EvidenceInvariant, stage = "processed"
  PROVE  LET flags == {s \in Seconds : Violates(rows[s])}
         IN  /\ RobustnessSummary.violating = Cardinality(flags)
             /\ RobustnessSummary.episodes = Cardinality(Episodes(flags))
             /\ RobustnessSummary.deficit = ReadyDeficit
<1> DEFINE F == {s \in Seconds : Violates(rows[s])}
           A == {s \in F : s - 1 \notin F}
<1>1. RunSeconds \in Nat /\ Seconds = 0..(RunSeconds - 1)
  BY EvidenceAssumption DEF Seconds
<1>2. \A s \in Seconds : Short(rows[s], Required[s + 1]) \in Nat
  BY ShortRow DEF Trusted
<1>3. \A s \in Seconds : Flagged(rows[s]) <=> s \in F
  <2> TAKE s \in Seconds
  <2>1. RowsAreJoined
    BY DEF EvidenceInvariant, ReportInvariant
  <2>2. rows[s].offered \in Nat /\ rows[s].offered > 0
    BY <2>1, RowCounts
  <2>3. rows[s].offered # 0
    BY <2>2
  <2> QED BY <2>2, <2>3 DEF Flagged, Violates
<1>4. /\ IsFiniteSet(F) /\ IsFiniteSet(A) /\ F \subseteq Nat /\ A \subseteq Nat
      /\ F \subseteq Seconds /\ -1 \notin F
  <2>1. IsFiniteSet(Seconds) /\ (\A s \in F : s \in Seconds) /\ (\A s \in A : s \in F)
    BY <1>1, FS_Interval
  <2>2. F \subseteq Nat /\ -1 \notin F
    BY <1>1
  <2> HIDE DEF F, A
  <2>3. IsFiniteSet(F)
    BY <2>1, SubsetCounts
  <2>4. IsFiniteSet(A)
    BY <2>1, <2>3, SubsetCounts
  <2> QED BY <2>1, <2>2, <2>3, <2>4
<1>5. PICK c : /\ c[0] = NothingCounted /\ RobustnessSummary = c[RunSeconds]
               /\ \A i \in 1..RunSeconds : c[i] = Scan(c[i - 1], i - 1)
  BY <1>2, CountersAreScanned
<1>6. PICK d : /\ d[0] = 0 /\ ReadyDeficit = d[RunSeconds]
               /\ \A i \in 1..RunSeconds : d[i - 1] \in Int
                    /\ d[i] = Short(rows[i - 1], Required[i]) + d[i - 1]
  BY <1>2, DeficitIsScanned
<1> HIDE DEF F, A
<1> DEFINE T == {i \in 0..RunSeconds :
                   /\ c[i].violating = Cardinality(Under(F, i))
                   /\ c[i].episodes = Cardinality(Under(A, i))
                   /\ (c[i].on <=> i - 1 \in F)
                   /\ c[i].deficit = d[i]}
<1>7. 0 \in T
  <2>1. Cardinality(Under(F, 0)) = 0 /\ Cardinality(Under(A, 0)) = 0
    BY <1>4, CountGrows
  <2>2. 0 \in 0..RunSeconds /\ 0 - 1 \notin F
    BY <1>1, <1>4
  <2>3. /\ c[0].violating = 0 /\ c[0].episodes = 0 /\ c[0].on = FALSE
        /\ c[0].deficit = 0 /\ d[0] = 0
    BY <1>5, <1>6 DEF NothingCounted
  <2>4. c[0].on <=> 0 - 1 \in F
    BY <2>2, <2>3
  <2> QED BY <2>1, <2>2, <2>3, <2>4
<1>8. ASSUME NEW i \in 1..RunSeconds, i - 1 \in T PROVE i \in T
  <2> DEFINE p == i - 1
  <2>1. p \in Nat /\ p \in Seconds /\ p + 1 = i /\ i \in 0..RunSeconds
    BY <1>1
  <2>2. /\ c[p].violating = Cardinality(Under(F, p))
        /\ c[p].episodes = Cardinality(Under(A, p))
        /\ (c[p].on <=> p - 1 \in F) /\ c[p].deficit = d[p]
    BY <1>8
  <2>3. /\ Cardinality(Under(F, p + 1)) = Cardinality(Under(F, p)) + (IF p \in F THEN 1 ELSE 0)
        /\ Cardinality(Under(A, p + 1)) = Cardinality(Under(A, p)) + (IF p \in A THEN 1 ELSE 0)
    BY <1>4, <2>1, CountGrows
  <2>4. c[i] = Scan(c[p], p) /\ d[p] \in Int /\ d[i] = Short(rows[p], Required[p + 1]) + d[p]
    BY <1>5, <1>6, <2>1
  <2>5. /\ c[i].violating = c[p].violating + (IF Flagged(rows[p]) THEN 1 ELSE 0)
        /\ c[i].episodes = c[p].episodes + (IF Flagged(rows[p]) /\ ~c[p].on THEN 1 ELSE 0)
        /\ c[i].on = Flagged(rows[p])
        /\ c[i].deficit = c[p].deficit + Short(rows[p], Required[p + 1])
    <3>1. RobustRequired(Demand[p + 1]) = Required[p + 1]
      BY <2>1, BothLookups
    <3> HIDE DEF p
    <3> QED BY <2>4, <3>1 DEF Scan
  <2>6. Flagged(rows[p]) <=> p \in F
    BY <1>3, <2>1
  <2>7. p \in A <=> p \in F /\ p - 1 \notin F
    BY DEF A
  <2> HIDE DEF p
  <2>8. c[i].violating = Cardinality(Under(F, i)) /\ c[i].episodes = Cardinality(Under(A, i))
    BY <2>1, <2>2, <2>3, <2>5, <2>6, <2>7
  <2>9. c[i].on <=> p \in F
    BY <2>5, <2>6 DEF Flagged
  <2>10. Short(rows[p], Required[p + 1]) \in Int
    BY <1>2, <2>1
  <2>11. c[i].deficit = d[i]
    BY <2>2, <2>4, <2>5, <2>10
  <2> QED BY <2>1, <2>8, <2>9, <2>11 DEF p
<1>9. RunSeconds \in T
  <2> HIDE DEF T
  <2>1. \A i \in 1..RunSeconds : i - 1 \in T => i \in T
    BY <1>8
  <2>2. \A i \in 0..RunSeconds : i \in T
    BY <1>1, <1>7, <2>1, EveryPlace
  <2> QED BY <1>1, <2>2
<1>10. Under(F, RunSeconds) = F /\ Under(A, RunSeconds) = A
  <2>1. \A s \in F : s < RunSeconds
    BY <1>1, <1>4
  <2>2. \A s \in A : s \in F
    BY DEF A
  <2> QED BY <2>1, <2>2 DEF Under
<1>11. /\ c[RunSeconds].violating = Cardinality(F) /\ c[RunSeconds].episodes = Cardinality(A)
       /\ c[RunSeconds].deficit = d[RunSeconds]
  BY <1>9, <1>10
<1>12. Cardinality(Episodes(F)) = Cardinality(A)
  BY <1>4, EpisodesStart DEF A
<1> QED BY <1>5, <1>6, <1>11, <1>12 DEF F

\* A deficit is one of a second whose row shows too few.
LEMMA DeficitIsShort ==
  ASSUME EvidenceInvariant, stage = "processed", ReadyDeficit > 0
  PROVE  \E s \in Seconds : \E n \in Near(s) : n < Required[s + 1]
<1>1. \A s \in Seconds : /\ Short(rows[s], Required[s + 1]) \in Nat
                         /\ Short(rows[s], Required[s + 1]) > 0 =>
                              rows[s].ready # Missing /\ rows[s].ready < Required[s + 1]
  BY ShortRow DEF Trusted
<1>2. PICK s \in Seconds : Short(rows[s], Required[s + 1]) # 0
  <2> SUFFICES ASSUME \A s \in Seconds : Short(rows[s], Required[s + 1]) = 0 PROVE FALSE
    OBVIOUS
  <2>1. PICK d : /\ d[0] = 0 /\ ReadyDeficit = d[RunSeconds]
                 /\ \A i \in 1..RunSeconds : d[i - 1] \in Int
                      /\ d[i] = Short(rows[i - 1], Required[i]) + d[i - 1]
    BY <1>1, DeficitIsScanned
  <2> DEFINE T == {i \in 0..RunSeconds : d[i] = 0}
  <2>2. RunSeconds \in Nat /\ Seconds = 0..(RunSeconds - 1)
    BY EvidenceAssumption DEF Seconds
  <2>3. 0 \in T
    BY <2>1, <2>2
  <2>4. ASSUME NEW i \in 1..RunSeconds, i - 1 \in T PROVE i \in T
    <3>1. i - 1 \in Seconds /\ (i - 1) + 1 = i /\ i \in 0..RunSeconds
      BY <2>2
    <3>2. Short(rows[i - 1], Required[i]) = 0
      BY <3>1
    <3>3. d[i] = 0
      BY <2>1, <2>4, <3>2
    <3> QED BY <3>1, <3>3
  <2>5. RunSeconds \in T
    <3> HIDE DEF T
    <3>1. \A i \in 1..RunSeconds : i - 1 \in T => i \in T
      BY <2>4
    <3>2. \A i \in 0..RunSeconds : i \in T
      BY <2>2, <2>3, <3>1, EveryPlace
    <3> QED BY <2>2, <3>2
  <2>6. d[RunSeconds] = 0
    BY <2>5
  <2>7. ReadyDeficit = 0
    BY <2>1, <2>6
  <2>8. ReadyDeficit > 0
    OBVIOUS
  <2> QED BY <2>7, <2>8
<1>3. rows[s].ready # Missing /\ rows[s].ready < Required[s + 1]
  BY <1>1, <1>2
<1>4. rows[s].ready \in Near(s)
  BY <1>3, RowsAreTrue DEF Trusted
<1> QED BY <1>3, <1>4

\* The invariant makes both analyses agree.
LEMMA AgreedAnalyses == EvidenceInvariant => AnalysesAgree
<1> SUFFICES ASSUME EvidenceInvariant, stage = "processed"
             PROVE  /\ RobustnessSummary.violating = Cardinality(outcome.flags)
                    /\ RobustnessSummary.episodes = Cardinality(outcome.episodes)
                    /\ outcome.deficit = RobustnessSummary.deficit
                    /\ outcome.deficit > 0 => \E s \in Seconds : \E n \in Near(s) : n < Required[s + 1]
  BY DEF AnalysesAgree
<1> DEFINE flags == {s \in Seconds : Violates(rows[s])}
<1>1. outcome.flags = flags /\ outcome.episodes = Episodes(flags) /\ outcome.deficit = ReadyDeficit
  BY DEF EvidenceInvariant, ReportInvariant
<1>2. /\ RobustnessSummary.violating = Cardinality(flags)
      /\ RobustnessSummary.episodes = Cardinality(Episodes(flags))
      /\ RobustnessSummary.deficit = ReadyDeficit
  BY CountersAgree
<1> HIDE DEF flags
<1>3. ReadyDeficit > 0 => \E s \in Seconds : \E n \in Near(s) : n < Required[s + 1]
  BY DeficitIsShort
<1> QED BY <1>1, <1>2, <1>3

\* AnalysesAgree: the counters of the robustness analysis and the intervals of the
\* processing find the same violations, episodes and deficit in every accepted run,
\* however long, and a deficit is never reported of a Deployment that had enough Ready
\* replicas all the time (process_step17.py, analyze_step19_campaign.py).
THEOREM BothAnalysesAgree == OfflineSpec => []AnalysesAgree
BY AgreedAnalyses, EvidenceInvariantHolds, PTL
=============================================================================
