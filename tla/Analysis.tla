------------------------------ MODULE Analysis ------------------------------
(***************************************************************************)
(* The statistics the study reports: the exact paired test and the          *)
(* correction for several tests (analyze_step18.py,                         *)
(* analyze_step19_campaign.py), and the forecast horizon derived from the   *)
(* readiness trials (analyze_step6.py).  P values are counts of sign        *)
(* vectors, or parts of Whole; delays are tenths of a second.  Bootstrap    *)
(* intervals, rankings and descriptive statistics are left out.             *)
(***************************************************************************)
EXTENDS Integers, SequencesExt

CONSTANTS
  Differences,  \* differences between the two runs of a pair
  MaxPairs,     \* bound: pairs of runs of a comparison
  Whole,        \* the p value 1
  PValues,      \* p values of a family of tests, Undefined for one without data
  MaxTests,     \* bound: tests of a family
  DelayValues,  \* effective serving delays of the trials
  MaxTrials     \* bound: valid trials

ASSUME AnalysisAssumption ==
  /\ Differences \subseteq Int /\ MaxPairs \in Nat /\ MaxTests \in Nat /\ Whole \in Nat
  /\ PValues \subseteq -1..Whole /\ DelayValues \subseteq Nat /\ MaxTrials \in Nat

Undefined == -1

VARIABLES
  pairs,     \* the paired differences of a comparison
  family,    \* the p values of a family of tests
  delays     \* the effective serving delays of the valid trials, in order

analysisVars == <<pairs, family, delays>>
-----------------------------------------------------------------------------
(* The exact sign-flip test.                                                 *)

Size(x) == IF x < 0 THEN -x ELSE x
Sum(d) == FoldFunction(LAMBDA x, y : x + y, 0, d)
Flip(d, signs) == [i \in DOMAIN d |-> signs[i] * d[i]]
SignVectors(n) == [1..n -> {-1, 1}]
Signum(x) == IF x < 0 THEN -1 ELSE IF x > 0 THEN 1 ELSE 0

\* ranks: twice the average rank of |d[i]|.
TwiceRank(d, i) ==
  Cardinality({j \in DOMAIN d : Size(d[j]) < Size(d[i])})
  + Cardinality({j \in DOMAIN d : Size(d[j]) <= Size(d[i])}) + 1

\* The two statistics: the sum of the differences, the sum of their signed ranks.
SignedRanks(d) == [i \in DOMAIN d |-> TwiceRank(d, i) * Signum(d[i])]
Statistic(name, d) == IF name = "mean" THEN Sum(d) ELSE Sum(SignedRanks(d))

\* exact_signflip, exact_p: how many sign vectors are as extreme as the data.
\* The seeded fault: only those that are more extreme count.
MoreExtreme(name, d) ==
  Cardinality({s \in SignVectors(Len(d)) :
                 Size(Statistic(name, Flip(d, s))) > Size(Statistic(name, d))})

Extreme(name, d) ==
  Cardinality({s \in SignVectors(Len(d)) :
                 Size(Statistic(name, Flip(d, s))) >= Size(Statistic(name, d))})

\* The robustness analysis counts on its own, over the masks of n bits.
MaskedExtreme(d) ==
  LET n == Len(d)
      Sign(mask, i) == IF (mask \div 2^(i - 1)) % 2 = 1 THEN 1 ELSE -1
      Masked(mask) == Sum([i \in DOMAIN d |-> Sign(mask, i) * d[i]])
  IN  Cardinality({mask \in 0..(2^n - 1) : Size(Masked(mask)) >= Size(Sum(d))})

\* rank_biserial, as numerator and denominator.
Nonzero(d) == Restrict(d, {i \in DOMAIN d : d[i] # 0})
RankBiserial(d) ==
  LET z == Nonzero(d)
  IN  IF DOMAIN z = {} THEN <<0, 1>>
      ELSE <<Sum(SignedRanks(z)), Sum([i \in DOMAIN z |-> TwiceRank(z, i)])>>

\* paired_result, of the differences b - a.
Paired(d) ==
  [p |-> Extreme("mean", d), rankP |-> Extreme("signedrank", d), sum |-> Sum(d),
   biserial |-> RankBiserial(d),
   positive |-> Cardinality({i \in DOMAIN d : d[i] > 0}),
   negative |-> Cardinality({i \in DOMAIN d : d[i] < 0}),
   looP |-> IF Len(d) > 2 THEN {Extreme("mean", RemoveAt(d, i)) : i \in DOMAIN d} ELSE {}]
-----------------------------------------------------------------------------
(* holm: the i-th smallest of m p values, times the number of tests not yet   *)
(* rejected, never less than the one before, at most 1.                       *)

Valid(p) == {i \in DOMAIN p : p[i] # Undefined}

\* argsort: equal p values in any order, here by index.
Smaller(p, i) == {j \in Valid(p) : p[j] < p[i] \/ (p[j] = p[i] /\ j < i)}
Scaled(p, i) == (Cardinality(Valid(p)) - Cardinality(Smaller(p, i))) * p[i]

\* The seeded fault: without the running maximum.
HolmUnordered(p) ==
  [i \in DOMAIN p |-> IF i \in Valid(p) THEN Min({Whole, Scaled(p, i)}) ELSE Undefined]

Holm(p) ==
  [i \in DOMAIN p |->
     IF i \in Valid(p)
     THEN Min({Whole, Max({Scaled(p, j) : j \in Smaller(p, i) \cup {i}})})
     ELSE Undefined]
-----------------------------------------------------------------------------
(* analyze_step6.py                                                           *)

CeilDiv(a, b) == (a + b - 1) \div b

\* percentile: nearest rank.
\* The seeded fault: rounded down.
PercentileFloor(sorted, p) == sorted[Max({1, (p * Len(sorted)) \div 100})]

Percentile(sorted, p) == sorted[Max({1, CeilDiv(p * Len(sorted), 100)})]

\* The margin, in fiftieths of a second: two seconds, or a fifth of the delay.
WithMargin(delay) == 5 * delay + Max({100, delay})

\* The selected horizon, in seconds.
ForecastHorizon(sorted) == CeilDiv(WithMargin(Percentile(sorted, 95)), 50)
-----------------------------------------------------------------------------
AnalysisInit == pairs = << >> /\ family = << >> /\ delays = << >>

\* One of the three inputs grows.
AddPair ==
  /\ family = << >> /\ delays = << >> /\ Len(pairs) < MaxPairs
  /\ \E d \in Differences : pairs' = Append(pairs, d)
  /\ UNCHANGED <<family, delays>>

AddTest ==
  /\ pairs = << >> /\ delays = << >> /\ Len(family) < MaxTests
  /\ \E p \in PValues : family' = Append(family, p)
  /\ UNCHANGED <<pairs, delays>>

AddTrial ==
  /\ pairs = << >> /\ family = << >> /\ Len(delays) < MaxTrials
  /\ \E d \in DelayValues :
       /\ \A i \in DOMAIN delays : delays[i] <= d
       /\ delays' = Append(delays, d)
  /\ UNCHANGED <<pairs, family>>

AnalysisNext == AddPair \/ AddTest \/ AddTrial
-----------------------------------------------------------------------------
\* The test is exact, with either statistic and whatever the size of the
\* differences: if every sign was as likely as its opposite, at most k of the 2^n
\* sign vectors get a p value of k/2^n or less.  A p value is therefore never 0 and,
\* when the statistic is not 0, at least 2/2^n: with the five repetitions of the
\* safety runs no comparison can be significant at 5 percent (README.md:158).
\* The two analyses agree.  Which side is called a does not matter (ANALYSIS-PROTOCOL.md, "exact two-sided
\* paired randomization/sign-flip test").
PairedTestIsExact ==
  pairs # << >> =>
    LET n == Len(pairs)
        r == Paired(pairs)
        swapped == Paired([i \in DOMAIN pairs |-> -pairs[i]])
    IN  /\ \A name \in {"mean", "signedrank"} :
             LET p == {<<s, Extreme(name, Flip(pairs, s))>> : s \in SignVectors(n)}
             IN  \A k \in 0..(2^n) : Cardinality({v \in p : v[2] <= k}) <= k
        /\ r.sum # 0 => r.p >= 2
        /\ MaskedExtreme(pairs) = r.p
        /\ swapped.p = r.p /\ swapped.rankP = r.rankP /\ swapped.looP = r.looP
        /\ swapped.sum = -r.sum /\ swapped.biserial = <<-r.biserial[1], r.biserial[2]>>
        /\ swapped.positive = r.negative
        /\ r.biserial[1] = r.biserial[2] <=> (r.positive > 0 /\ r.negative = 0)

\* The adjusted p values are those of the closed test of the family, whose error
\* rate is controlled whatever the dependence between the tests: a test is as
\* significant as the least significant of all the sets of tests it belongs to, each
\* judged by Bonferroni.  Tests without data count for nothing.
HolmControlsTheFamily ==
  LET adjusted == Holm(family)
      Bonferroni(S) == Min({Whole} \cup {Cardinality(S) * family[i] : i \in S})
  IN  \A i \in DOMAIN family :
        IF family[i] = Undefined THEN adjusted[i] = Undefined
        ELSE adjusted[i] = Max({Bonferroni(S) : S \in {T \in SUBSET Valid(family) : i \in T}})

\* The selected horizon is the shortest whole number of seconds that leaves 95 of
\* 100 trials their effective serving delay and the margin (STEP6.md, the rule of
\* the forecast horizon).
HorizonCoversReadiness ==
  delays # << >> =>
    LET Covers(h) ==
          100 * Cardinality({i \in DOMAIN delays : WithMargin(delays[i]) <= 50 * h})
            >= 95 * Len(delays)
        h == ForecastHorizon(delays)
    IN  Covers(h) /\ ~Covers(h - 1)
=============================================================================
