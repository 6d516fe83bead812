---------------------------- MODULE NumberFacts -----------------------------
(***************************************************************************)
(* Facts about sets of numbers and their minimum and maximum, about folds   *)
(* and sums over finite sets, and about powers of two and binary digits.    *)
(***************************************************************************)
EXTENDS Integers, FiniteSetsExt, FiniteSetTheorems, TLAPS,
        WellFoundedInduction

\* The order on the naturals has no infinite descending chain.
LEMMA NatOrder ==
  \E R : IsWellFoundedOn(R, Nat) /\ \A x, y \in Nat : x < y => <<x, y>> \in R
<1>1. IsWellFoundedOn(OpToRel(<, Nat), Nat)
  BY NatLessThanWellFounded
<1>2. \A x, y \in Nat : x < y => <<x, y>> \in OpToRel(<, Nat)
  BY DEF OpToRel
<1> QED BY <1>1, <1>2, Zenon

\* Every nonempty set of naturals has a least element.
LEMMA LeastNat ==
  ASSUME NEW T, T \subseteq Nat, T # {}
  PROVE  \E x \in T : \A y \in T : x <= y
<1>1. PICK R : IsWellFoundedOn(R, Nat) /\ \A x, y \in Nat : x < y => <<x, y>> \in R
  BY NatOrder
<1>2. PICK x \in T : \A y \in T : ~ (<<y, x>> \in R)
  <2>1. IsWellFoundedOn(R, Nat)
    BY <1>1
  <2>2. \A RR, SS : IsWellFoundedOn(RR, SS) =>
          \A TT : TT \subseteq SS /\ TT # {} =>
            \E u \in TT : \A v \in TT : ~ (<<v, u>> \in RR)
    BY WFMin, Zenon
  <2> QED BY <2>1, <2>2, Zenon
<1>3. \A y \in T : x <= y
  <2> TAKE y \in T
  <2>1. x \in Nat /\ y \in Nat
    OBVIOUS
  <2>2. ~ (y < x)
    BY <1>1, <1>2, <2>1
  <2> QED BY <2>1, <2>2
<1> QED BY <1>3

\* The minimum of a nonempty set of naturals is its least element.
LEMMA MinNat ==
  ASSUME NEW T, T \subseteq Nat, T # {}
  PROVE  Min(T) \in T /\ \A y \in T : Min(T) <= y
BY LeastNat DEF Min

\* The maximum of a nonempty bounded set of naturals is its largest element.
LEMMA MaxNat ==
  ASSUME NEW T, T \subseteq Nat, T # {}, NEW n \in Nat, \A y \in T : y <= n
  PROVE  Max(T) \in T /\ \A y \in T : y <= Max(T)
<1> DEFINE U == {n - y : y \in T}
<1>1. U \subseteq Nat /\ U # {}
  <2>1. \A y \in T : n - y \in Nat
    OBVIOUS
  <2>2. PICK y \in T : TRUE
    OBVIOUS
  <2>3. n - y \in U
    BY <2>2
  <2> QED BY <2>1, <2>3
<1>2. PICK u \in U : \A v \in U : u <= v
  BY <1>1, LeastNat
<1>3. PICK x \in T : u = n - x
  OBVIOUS
<1>4. \A y \in T : x >= y
  <2> TAKE y \in T
  <2>1. n - x <= n - y
    BY <1>2, <1>3
  <2> QED BY <2>1
<1>5. \A y \in T : Max(T) >= y /\ Max(T) \in T
  BY <1>3, <1>4 DEF Max
<1> QED BY <1>5

\* The maximum and the minimum of two numbers.
LEMMA MaxOfTwo ==
  ASSUME NEW a \in Int, NEW b \in Int
  PROVE  Max({a, b}) = IF a >= b THEN a ELSE b
<1>1. PICK m \in {a, b} : \A y \in {a, b} : m >= y
  <2>1. CASE a >= b BY <2>1
  <2>2. CASE ~ (a >= b) BY <2>2
  <2> QED BY <2>1, <2>2
<1>2. Max({a, b}) \in {a, b} /\ \A y \in {a, b} : Max({a, b}) >= y
  BY <1>1 DEF Max
<1> QED BY <1>2

\* The same for the smaller of the two.
LEMMA MinOfTwo ==
  ASSUME NEW a \in Int, NEW b \in Int
  PROVE  Min({a, b}) = IF a <= b THEN a ELSE b
<1>1. PICK m \in {a, b} : \A y \in {a, b} : m =< y
  <2>1. CASE a <= b BY <2>1
  <2>2. CASE ~ (a <= b) BY <2>2
  <2> QED BY <2>1, <2>2
<1>2. Min({a, b}) \in {a, b} /\ \A y \in {a, b} : Min({a, b}) =< y
  BY <1>1 DEF Min
<1> QED BY <1>2

\* What holds at the start and passes from a place to the next holds at every place.
LEMMA EveryPlace ==
  ASSUME NEW n \in Nat, NEW T, 0 \in T, \A i \in 1..n : i - 1 \in T => i \in T
  PROVE  \A i \in 0..n : i \in T
<1> DEFINE Fails == {i \in 0..n : i \notin T}
<1>1. ASSUME NEW i \in Fails, \A j \in Fails : i <= j PROVE FALSE
  <2>1. i \in 0..n /\ i \notin T /\ i # 0
    OBVIOUS
  <2>2. i \in 1..n /\ i - 1 \in 0..n /\ ~(i <= i - 1)
    BY <2>1
  <2>3. i - 1 \notin Fails
    BY <1>1, <2>2
  <2> QED BY <2>1, <2>2, <2>3
<1>2. Fails \subseteq Nat
  OBVIOUS
<1>3. Fails = {}
  <2> HIDE DEF Fails
  <2> QED BY <1>1, <1>2, LeastNat
<1> QED BY <1>3

\* The largest number of an interval from 1, and what is left without it.
LEMMA LastPlace ==
  ASSUME NEW i \in Nat, i # 0
  PROVE  Max(1..i) = i /\ (1..i) \ {i} = 1..(i - 1) /\ 1..i # {}
<1>1. 1..i \subseteq Nat /\ i \in 1..i /\ \A j \in 1..i : j <= i
  OBVIOUS
<1>2. Max(1..i) \in 1..i /\ \A j \in 1..i : j <= Max(1..i)
  BY <1>1, MaxNat
<1>3. Max(1..i) = i
  BY <1>1, <1>2
<1>4. (1..i) \ {i} = 1..(i - 1)
  OBVIOUS
<1> QED BY <1>1, <1>3, <1>4

-----------------------------------------------------------------------------
(* Folds over finite sets: a fold of the library is a function on the       *)
(* subsets that takes one element after the other.                          *)

\* The sizes of the subsets of a finite set are naturals, and shrink with an element.
LEMMA SmallerWithout ==
  ASSUME NEW S, IsFiniteSet(S), NEW s \in SUBSET S
  PROVE  /\ IsFiniteSet(s) /\ Cardinality(s) \in Nat /\ Cardinality(s) <= Cardinality(S)
         /\ Cardinality(S) \in Nat
         /\ \A x \in s : Cardinality(s \ {x}) = Cardinality(s) - 1
<1>1. IsFiniteSet(s) /\ Cardinality(s) <= Cardinality(S)
  BY FS_Subset
<1>2. Cardinality(s) \in Nat /\ Cardinality(S) \in Nat
  BY <1>1, FS_CardinalityType
<1>3. \A x \in s : Cardinality(s \ {x}) = Cardinality(s) - 1
  BY <1>1, FS_RemoveElement
<1> QED BY <1>1, <1>2, <1>3

\* An order in which the elements of the subsets are taken, and a fold in that order.
Orders(pick, S) == \A s \in SUBSET S : s # {} => pick[s] \in s
Folds(g, S, base, step, pick) ==
  \A s \in SUBSET S : g[s] = IF s = {} THEN base ELSE step[pick[s]][g[s \ {pick[s]}]]

\* A fold over a finite set exists: there is a function on the subsets that takes
\* one element after the other, in the order in which pick names them.
LEMMA FoldExists ==
  ASSUME NEW S, IsFiniteSet(S), NEW V, NEW base \in V, NEW step \in [S -> [V -> V]],
         NEW pick, Orders(pick, S)
  PROVE  \E g \in [SUBSET S -> V] : Folds(g, S, base, step, pick)
<1>0. \A s \in SUBSET S : s # {} => pick[s] \in s
  BY DEF Orders
<1> DEFINE Upto(n) == {s \in SUBSET S : Cardinality(s) <= n}
           Begun(g, n) == \A s \in Upto(n) :
             g[s] = IF s = {} THEN base ELSE step[pick[s]][g[s \ {pick[s]}]]
           Fails == {n \in Nat : ~ \E g \in [Upto(n) -> V] : Begun(g, n)}
<1>1. \A s \in SUBSET S : Cardinality(s) \in Nat /\ (s # {} => Cardinality(s \ {pick[s]}) = Cardinality(s) - 1)
  BY <1>0, SmallerWithout
<1>2. ASSUME NEW n \in Fails, \A m \in Fails : n <= m PROVE FALSE
  <2>0. n \in Nat
    OBVIOUS
  <2>1. CASE n = 0
    <3> DEFINE g == [s \in Upto(0) |-> base]
    <3>1. \A s \in Upto(0) : s = {}
      <4> TAKE s \in Upto(0)
      <4>1. s \in SUBSET S /\ Cardinality(s) \in Nat /\ Cardinality(s) <= 0
        BY <1>1
      <4>2. IsFiniteSet(s)
        BY <4>1, FS_Subset
      <4>3. Cardinality(s) = 0
        BY <4>1
      <4> QED BY <4>2, <4>3, FS_EmptySet
    <3>2. g \in [Upto(0) -> V] /\ Begun(g, 0)
      BY <3>1
    <3> QED BY <2>1, <3>2
  <2>2. CASE n # 0
    <3>1. n - 1 \in Nat /\ n - 1 \notin Fails
      <4>1. n \in Nat /\ n - 1 \in Nat /\ ~(n <= n - 1)
        BY <2>0, <2>2
      <4> HIDE DEF Fails
      <4> QED BY <1>2, <4>1
    <3>2. PICK h \in [Upto(n - 1) -> V] : Begun(h, n - 1)
      BY <3>1
    <3> DEFINE g == [s \in Upto(n) |-> IF s \in Upto(n - 1) THEN h[s]
                                      ELSE step[pick[s]][h[s \ {pick[s]}]]]
    <3>3. \A s \in Upto(n) : \/ s \in Upto(n - 1)
            \/ (s # {} /\ s \ {pick[s]} \in Upto(n - 1))
      <4> TAKE s \in Upto(n)
      <4>1. s # {} => s \ {pick[s]} \in Upto(n - 1)
        BY <1>0, <1>1
      <4>2. s = {} => s \in Upto(n - 1)
        BY FS_EmptySet, <3>1
      <4> QED BY <4>1, <4>2
    <3>4. \A s \in Upto(n - 1) : s # {} => s \ {pick[s]} \in Upto(n - 1)
      BY <1>0, <1>1
    <3>5. g \in [Upto(n) -> V]
      <4> SUFFICES ASSUME NEW s \in Upto(n) PROVE g[s] \in V
        OBVIOUS
      <4>1. CASE s \in Upto(n - 1)
        BY <4>1
      <4>2. CASE s \notin Upto(n - 1)
        <5>1. s # {} /\ s \ {pick[s]} \in Upto(n - 1) /\ pick[s] \in S
          BY <1>0, <3>3, <4>2
        <5>2. h[s \ {pick[s]}] \in V /\ step[pick[s]] \in [V -> V]
          BY <5>1
        <5> QED BY <4>2, <5>2
      <4> QED BY <4>1, <4>2
    <3>6. Upto(n - 1) \subseteq Upto(n)
      <4> SUFFICES ASSUME NEW s \in SUBSET S, Cardinality(s) <= n - 1
                   PROVE  Cardinality(s) <= n
        OBVIOUS
      <4>1. Cardinality(s) \in Nat
        BY <1>1
      <4> QED BY <2>0, <4>1
    <3>7. Begun(g, n)
      <4> SUFFICES ASSUME NEW s \in Upto(n)
                   PROVE  g[s] = IF s = {} THEN base ELSE step[pick[s]][g[s \ {pick[s]}]]
        OBVIOUS
      <4>1. CASE s \in Upto(n - 1)
        <5>1. h[s] = IF s = {} THEN base ELSE step[pick[s]][h[s \ {pick[s]}]]
          BY <3>2, <4>1
        <5>2. g[s] = h[s]
          BY <4>1
        <5>3. s # {} => g[s \ {pick[s]}] = h[s \ {pick[s]}]
          BY <3>4, <3>6, <4>1
        <5> QED BY <5>1, <5>2, <5>3
      <4>2. CASE s \notin Upto(n - 1)
        <5>1. s # {} /\ s \ {pick[s]} \in Upto(n - 1)
          BY <3>3, <4>2
        <5>2. g[s \ {pick[s]}] = h[s \ {pick[s]}]
          BY <3>6, <5>1
        <5>3. g[s] = step[pick[s]][h[s \ {pick[s]}]]
          BY <4>2
        <5> QED BY <5>1, <5>2, <5>3
      <4> QED BY <4>1, <4>2
    <3> HIDE DEF g, Begun
    <3> QED BY <3>5, <3>7
  <2> QED BY <2>1, <2>2
<1>3. Fails = {}
  <2>1. Fails \subseteq Nat
    OBVIOUS
  <2> HIDE DEF Fails
  <2> QED BY <1>2, <2>1, LeastNat
<1>4. Cardinality(S) \in Nat /\ Upto(Cardinality(S)) = SUBSET S
  BY SmallerWithout
<1>5. PICK g \in [Upto(Cardinality(S)) -> V] : Begun(g, Cardinality(S))
  BY <1>3, <1>4
<1> QED BY <1>4, <1>5 DEF Folds

\* What holds of the empty set and passes to a set from the set without the element
\* taken first holds of every subset.
LEMMA EverySubset ==
  ASSUME NEW S, IsFiniteSet(S), NEW pick, Orders(pick, S), NEW T, {} \in T,
         \A s \in SUBSET S : s # {} /\ s \ {pick[s]} \in T => s \in T
  PROVE  \A s \in SUBSET S : s \in T
<1> DEFINE Fails == {n \in Nat : \E s \in SUBSET S : Cardinality(s) = n /\ s \notin T}
<1>1. ASSUME NEW n \in Fails, \A m \in Fails : n <= m PROVE FALSE
  <2>1. PICK s \in SUBSET S : Cardinality(s) = n /\ s \notin T
    OBVIOUS
  <2>2. s # {} /\ pick[s] \in s /\ s \ {pick[s]} \notin T
    BY <2>1 DEF Orders
  <2>3. /\ n \in Nat /\ Cardinality(s \ {pick[s]}) = n - 1
        /\ Cardinality(s \ {pick[s]}) \in Nat
    BY <2>1, <2>2, SmallerWithout
  <2>4. n - 1 \in Nat /\ ~(n <= n - 1)
    BY <2>3
  <2>5. n - 1 \in Fails
    BY <2>2, <2>3, <2>4
  <2> HIDE DEF Fails
  <2> QED BY <1>1, <2>4, <2>5
<1>2. Fails = {}
  <2>1. Fails \subseteq Nat
    OBVIOUS
  <2> HIDE DEF Fails
  <2> QED BY <1>1, <2>1, LeastNat
<1>3. \A s \in SUBSET S : Cardinality(s) \in Nat
  BY SmallerWithout
<1> QED BY <1>2, <1>3

\* A sum of d, taken in that order.
Sums(g, S, d, pick) ==
  \A s \in SUBSET S : s # {} => g[s] = d[pick[s]] + g[s \ {pick[s]}]

\* A sum of d in whatever order.
SumsAnyhow(g, S, d) == \A s \in SUBSET S : \A x \in s : g[s] = d[x] + g[s \ {x}]

\* A sum over a finite set does not depend on the order in which it is taken.
LEMMA AnyOrder ==
  ASSUME NEW S, IsFiniteSet(S), NEW d \in [S -> Int], NEW g \in [SUBSET S -> Int],
         NEW pick, Orders(pick, S), Sums(g, S, d, pick)
  PROVE  SumsAnyhow(g, S, d)
<1> DEFINE Fails == {n \in Nat : \E s \in SUBSET S : Cardinality(s) = n
                                   /\ \E x \in s : g[s] # d[x] + g[s \ {x}]}
<1>1. ASSUME NEW n \in Fails, \A m \in Fails : n <= m PROVE FALSE
  <2>1. PICK s \in SUBSET S : Cardinality(s) = n /\ \E x \in s : g[s] # d[x] + g[s \ {x}]
    OBVIOUS
  <2>2. PICK x \in s : g[s] # d[x] + g[s \ {x}]
    BY <2>1
  <2> DEFINE c == pick[s]
  <2>3. c \in s /\ g[s] = d[c] + g[s \ {c}] /\ c # x
    BY <2>2 DEF Orders, Sums
  <2> HIDE DEF c
  <2>4. \A y \in s : Cardinality(s \ {y}) = n - 1 /\ n \in Nat /\ n - 1 \in Nat
    <3> TAKE y \in s
    <3>1. /\ Cardinality(s) \in Nat /\ Cardinality(s \ {y}) = Cardinality(s) - 1
          /\ Cardinality(s \ {y}) \in Nat
      BY SmallerWithout
    <3> QED BY <2>1, <3>1
  <2>5. n - 1 \notin Fails /\ n - 1 \in Nat
    <3> HIDE DEF Fails
    <3>1. n \in Nat /\ n - 1 \in Nat
      BY <2>3, <2>4
    <3>2. ~(n <= n - 1)
      BY <3>1
    <3>3. n - 1 \in Fails => n <= n - 1
      BY <1>1, Zenon
    <3> QED BY <3>1, <3>2, <3>3, Zenon
  <2>6. \A t \in SUBSET S : Cardinality(t) = n - 1 => \A y \in t : g[t] = d[y] + g[t \ {y}]
    BY <2>5
  <2>7. g[s \ {c}] = d[x] + g[(s \ {c}) \ {x}]
    BY <2>3, <2>4, <2>6
  <2>8. g[s \ {x}] = d[c] + g[(s \ {x}) \ {c}]
    BY <2>3, <2>4, <2>6
  <2>9. (s \ {c}) \ {x} = (s \ {x}) \ {c} /\ (s \ {c}) \ {x} \in SUBSET S
    OBVIOUS
  <2>10. d[x] \in Int /\ d[c] \in Int /\ g[(s \ {x}) \ {c}] \in Int
    BY <2>3, <2>9
  <2>11. g[s] = d[c] + (d[x] + g[(s \ {x}) \ {c}])
    BY <2>3, <2>7, <2>9
  <2>12. g[s] = d[x] + (d[c] + g[(s \ {x}) \ {c}])
    BY <2>10, <2>11
  <2> QED BY <2>2, <2>8, <2>12
<1>2. Fails = {}
  <2>1. Fails \subseteq Nat
    OBVIOUS
  <2> HIDE DEF Fails
  <2> QED BY <1>1, <2>1, LeastNat
<1>3. \A s \in SUBSET S : Cardinality(s) \in Nat
  BY SmallerWithout
<1> QED BY <1>2, <1>3 DEF SumsAnyhow

\* A set that is listed once by the members of a finite set is as large as that set.
LEMMA ListedOnce ==
  ASSUME NEW S, IsFiniteSet(S), NEW T, NEW f \in [S -> T],
         \A x, y \in S : f[x] = f[y] => x = y, \A t \in T : \E x \in S : f[x] = t
  PROVE  IsFiniteSet(T) /\ Cardinality(T) = Cardinality(S)
<1>1. f \in Bijection(S, T)
  BY DEF Bijection, Injection, Surjection, IsInjective
<1>2. ExistsBijection(S, T)
  BY <1>1 DEF ExistsBijection
<1> QED BY <1>2, FS_Bijection

-----------------------------------------------------------------------------
(* Powers of two and binary digits.                                         *)

\* The powers of two count the subsets of an interval.
LEMMA PowersOfTwo ==
  /\ 2^0 = 1
  /\ \A n \in Nat : 2^n \in Nat \ {0} /\ 2^(n + 1) = 2 * 2^n
<1>1. \A n \in Nat : /\ IsFiniteSet(1..n) /\ Cardinality(1..n) = n
                     /\ IsFiniteSet(SUBSET (1..n)) /\ Cardinality(SUBSET (1..n)) = 2^n
  <2> TAKE n \in Nat
  <2>1. IsFiniteSet(1..n) /\ Cardinality(1..n) = n
    <3>1. 1 \in Int /\ n \in Int /\ (IF 1 > n THEN 0 ELSE n - 1 + 1) = n
      OBVIOUS
    <3> QED BY <3>1, FS_Interval
  <2> QED BY <2>1, FS_SUBSET
<1>2. 2^0 = 1
  <2>1. 1..0 = {} /\ SUBSET (1..0) = {{}}
    OBVIOUS
  <2>2. Cardinality({{}}) = 1 /\ 0 \in Nat
    BY FS_Singleton
  <2> QED BY <1>1, <2>1, <2>2
<1>3. ASSUME NEW n \in Nat PROVE 2^(n + 1) = 2 * 2^n
  <2> DEFINE A == SUBSET (1..n)
             B == {s \cup {n + 1} : s \in A}
             f == [s \in A |-> s \cup {n + 1}]
  <2>1. n + 1 \in Nat /\ n + 1 \notin 1..n /\ 1..(n + 1) = (1..n) \cup {n + 1}
    OBVIOUS
  <2>2. f \in [A -> B] /\ \A s \in A : f[s] = s \cup {n + 1}
    OBVIOUS
  <2>3. \A s, t \in A : f[s] = f[t] => s = t
    <3>1. ASSUME NEW s \in A PROVE s = f[s] \ {n + 1}
      BY <2>1, <2>2
    <3> HIDE DEF A, f
    <3> QED BY <3>1
  <2>4. \A t \in B : \E s \in A : f[s] = t
    OBVIOUS
  <2>5. SUBSET (1..(n + 1)) = A \cup B
    <3>1. ASSUME NEW s \in SUBSET (1..(n + 1)) PROVE s \in A \cup B
      <4>1. CASE n + 1 \in s
        <5>1. s \ {n + 1} \in A /\ s = (s \ {n + 1}) \cup {n + 1}
          BY <2>1, <4>1
        <5> QED BY <5>1
      <4>2. CASE n + 1 \notin s
        BY <2>1, <4>2
      <4> QED BY <4>1, <4>2
    <3>2. \A s \in A \cup B : s \in SUBSET (1..(n + 1))
      BY <2>1
    <3> QED BY <3>1, <3>2
  <2>6. A \cap B = {}
    BY <2>1
  <2>7. IsFiniteSet(A) /\ Cardinality(A) = 2^n /\ Cardinality(SUBSET (1..(n + 1))) = 2^(n + 1)
    BY <1>1, <2>1
  <2> HIDE DEF A, B, f
  <2>8. IsFiniteSet(B) /\ Cardinality(B) = Cardinality(A)
    <3>1. f \in Bijection(A, B)
      BY <2>2, <2>3, <2>4 DEF Bijection, Injection, Surjection, IsInjective
    <3>2. ExistsBijection(A, B)
      BY <3>1 DEF ExistsBijection
    <3> QED BY <2>7, <3>2, FS_Bijection
  <2>9. Cardinality(A \cup B) = Cardinality(A) + Cardinality(B) - 0
    <3>1. Cardinality(A \cup B) = Cardinality(A) + Cardinality(B) - Cardinality(A \cap B)
      BY <2>7, <2>8, FS_Union
    <3>2. Cardinality(A \cap B) = 0
      BY <2>6, FS_EmptySet
    <3> QED BY <3>1, <3>2
  <2>10. Cardinality(A) \in Nat
    BY <2>7, FS_CardinalityType
  <2>11. 2^(n + 1) = Cardinality(A) + Cardinality(A) - 0
    BY <2>5, <2>7, <2>8, <2>9
  <2> QED BY <2>7, <2>10, <2>11
<1>4. \A n \in Nat : 2^n \in Nat
  BY <1>1, FS_CardinalityType
<1>5. \A n \in Nat : 2^n # 0
  <2> TAKE n \in Nat
  <2>1. {} \in SUBSET (1..n)
    OBVIOUS
  <2> QED BY <1>1, <2>1, FS_EmptySet
<1> QED BY <1>2, <1>3, <1>4, <1>5

\* A quotient of naturals is one.
LEMMA Quotient == \A x \in Nat : \A c \in Nat \ {0} : x \div c \in Nat
OBVIOUS

\* The i-th binary digit.
Digit(mask, i) == (mask \div 2^(i - 1)) % 2

\* The first digit, and the others, which are those of the half.
LEMMA DigitOfHalf ==
  ASSUME NEW mask \in Nat
  PROVE  /\ Digit(mask, 1) = mask % 2
         /\ \A i \in Nat \ {0} : Digit(mask, i + 1) = Digit(mask \div 2, i)
<1>1. Digit(mask, 1) = mask % 2
  <2>1. 2^(1 - 1) = 1
    BY PowersOfTwo
  <2>2. mask \div 1 = mask
    OBVIOUS
  <2> QED BY <2>1, <2>2 DEF Digit
<1>2. ASSUME NEW i \in Nat \ {0} PROVE Digit(mask, i + 1) = Digit(mask \div 2, i)
  <2>1. PICK c \in Nat \ {0} : c = 2^(i - 1) /\ 2^((i + 1) - 1) = 2 * c
    <3>1. i - 1 \in Nat /\ (i - 1) + 1 = (i + 1) - 1
      OBVIOUS
    <3> QED BY <3>1, PowersOfTwo
  <2>2. (mask \div 2) \div c = mask \div (2 * c)
    OBVIOUS
  <2> QED BY <2>1, <2>2 DEF Digit
<1> QED BY <1>1, <1>2

\* A number below 2^n is known by its n digits.
LEMMA DigitsIdentify ==
  ASSUME NEW n \in Nat
  PROVE  \A x, y \in 0..(2^n - 1) : (\A i \in 1..n : Digit(x, i) = Digit(y, i)) => x = y
<1> DEFINE Same(m) == \A x, y \in 0..(2^m - 1) :
                        (\A i \in 1..m : Digit(x, i) = Digit(y, i)) => x = y
           T == {m \in 0..n : Same(m)}
<1>1. 0 \in T
  <2>1. 0..(2^0 - 1) = {0}
    BY PowersOfTwo
  <2> QED BY <2>1
<1>2. ASSUME NEW m \in 1..n, m - 1 \in T PROVE m \in T
  <2>1. m - 1 \in Nat /\ (m - 1) + 1 = m /\ m \in 0..n
    OBVIOUS
  <2>2. PICK c \in Nat \ {0} : c = 2^(m - 1) /\ 2^m = 2 * c
    BY <2>1, PowersOfTwo
  <2>3. ASSUME NEW x \in 0..(2^m - 1), NEW y \in 0..(2^m - 1),
               \A i \in 1..m : Digit(x, i) = Digit(y, i)
        PROVE  x = y
    <3>1. x \in Nat /\ y \in Nat /\ x <= 2 * c - 1 /\ y <= 2 * c - 1
      BY <2>2
    <3>2. x % 2 = y % 2
      <4>1. 1 \in 1..m
        OBVIOUS
      <4> QED BY <2>3, <3>1, <4>1, DigitOfHalf
    <3>3. x \div 2 \in 0..(2^(m - 1) - 1) /\ y \div 2 \in 0..(2^(m - 1) - 1)
      BY <2>2, <3>1
    <3>4. ASSUME NEW i \in 1..(m - 1) PROVE Digit(x \div 2, i) = Digit(y \div 2, i)
      <4>1. i \in Nat \ {0} /\ i + 1 \in 1..m
        OBVIOUS
      <4>2. Digit(x, i + 1) = Digit(y, i + 1)
        BY <2>3, <4>1
      <4> QED BY <3>1, <4>1, <4>2, DigitOfHalf
    <3>5. Same(m - 1)
      BY <1>2
    <3>6. x \div 2 = y \div 2
      BY <3>3, <3>4, <3>5
    <3> QED BY <3>1, <3>2, <3>6
  <2> QED BY <2>1, <2>3
<1> HIDE DEF T
<1>3. n \in T
  <2>1. \A m \in 0..n : m \in T
    BY <1>1, <1>2, EveryPlace
  <2> QED BY <2>1
<1> QED BY <1>3 DEF T
=============================================================================
