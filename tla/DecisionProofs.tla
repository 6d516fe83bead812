--------------------------- MODULE DecisionProofs ---------------------------
(***************************************************************************)
(* The decisions of the controller, for every configuration Config.Validate *)
(* accepts: the capacity lookup, the predictive policy with its window, and *)
(* the safety engine with its floor.                                        *)
(***************************************************************************)
EXTENDS Policy, Safety, NumberFacts, SequenceTheorems

(* The capacity lookup.                                                    *)

\* A validated table grows in both columns (Config.Validate).
LEMMA TableGrows ==
  ASSUME NEW lookup, NEW min, NEW max, IsCapacityLookup(lookup, min, max)
  PROVE  /\ DOMAIN lookup \subseteq Nat
         /\ \A i \in DOMAIN lookup : lookup[i].replicas \in Nat \ {0} /\ lookup[i].rps \in Nat
         /\ \A i, j \in DOMAIN lookup :
              i < j => lookup[i].replicas < lookup[j].replicas /\ lookup[i].rps < lookup[j].rps
<1>1. lookup \in Seq([replicas : Nat \ {0}, rps : Nat])
  BY DEF IsCapacityLookup
<1>2. DOMAIN lookup = 1..Len(lookup) /\ Len(lookup) \in Nat
  BY <1>1
<1>3. \A i \in DOMAIN lookup : lookup[i] \in [replicas : Nat \ {0}, rps : Nat]
  BY <1>1, <1>2, ElementOfSeq
<1>4. \A i, j \in DOMAIN lookup :
        i < j => lookup[i].replicas < lookup[j].replicas /\ lookup[i].rps < lookup[j].rps
  BY DEF IsCapacityLookup
<1> QED BY <1>2, <1>3, <1>4

\* A lookup that succeeds returns the smallest listed count whose capacity
\* holds the demand (requiredReplicas, RawReplicas).
THEOREM LookupIsLeast ==
  ASSUME NEW lookup, NEW min, NEW max, IsCapacityLookup(lookup, min, max),
         NEW demand \in Int, RequiredReplicas(lookup, demand) # NoReplicas
  PROVE  \E i \in DOMAIN lookup :
           /\ RequiredReplicas(lookup, demand) = lookup[i].replicas
           /\ demand <= lookup[i].rps + Tolerance
           /\ \A j \in DOMAIN lookup : j < i => demand > lookup[j].rps + Tolerance
<1> DEFINE F == Fitting(lookup, demand)
<1>1. F # {} /\ ~ (demand < 0)
  BY DEF RequiredReplicas
<1>2. F \subseteq Nat
  BY TableGrows DEF Fitting
<1>3. Min(F) \in F /\ \A y \in F : Min(F) <= y
  BY <1>1, <1>2, MinNat
<1>4. Min(F) \in DOMAIN lookup
  BY <1>3 DEF Fitting
<1> WITNESS Min(F) \in DOMAIN lookup
<1>5. RequiredReplicas(lookup, demand) = lookup[Min(F)].replicas
  BY <1>1 DEF RequiredReplicas
<1>6. demand <= lookup[Min(F)].rps + Tolerance
  BY <1>3 DEF Fitting
<1>7. ASSUME NEW j \in DOMAIN lookup, j < Min(F)
      PROVE  demand > lookup[j].rps + Tolerance
  <2>1. j \in Nat /\ Min(F) \in Nat /\ lookup[j].rps \in Nat
    BY <1>2, <1>3, TableGrows
  <2>2. ~ (j \in F)
    BY <1>3, <1>7, <2>1
  <2> QED BY <2>1, <2>2, ToleranceAssumption DEF Fitting
<1> QED BY <1>5, <1>6, <1>7

\* So it is one of the table's positive counts.
LEMMA LookupIsListed ==
  ASSUME NEW lookup, NEW min, NEW max, IsCapacityLookup(lookup, min, max),
         NEW demand \in Int, RequiredReplicas(lookup, demand) # NoReplicas
  PROVE  /\ RequiredReplicas(lookup, demand) \in ListedReplicas(lookup)
         /\ RequiredReplicas(lookup, demand) \in Nat \ {0}
BY LookupIsLeast, TableGrows DEF ListedReplicas

\* The two ways the code decides whether the Ready replicas suffice - the
\* capacity of the Ready count, and the count the demand requires - agree
\* (Evaluate compares capacities, its floor compares counts).
THEOREM OverloadIsTooFewReplicas ==
  ASSUME NEW lookup, NEW min, NEW max, IsCapacityLookup(lookup, min, max),
         NEW demand \in Int, RequiredReplicas(lookup, demand) # NoReplicas,
         NEW ready \in ListedReplicas(lookup)
  PROVE  Overloaded(lookup, demand, ready) <=> RequiredReplicas(lookup, demand) > ready
<1>1. PICK i \in DOMAIN lookup :
           /\ RequiredReplicas(lookup, demand) = lookup[i].replicas
           /\ demand <= lookup[i].rps + Tolerance
           /\ \A j \in DOMAIN lookup : j < i => demand > lookup[j].rps + Tolerance
  BY LookupIsLeast
<1> DEFINE k == CHOOSE j \in DOMAIN lookup : lookup[j].replicas = ready
<1>2. k \in DOMAIN lookup /\ lookup[k].replicas = ready
  BY DEF ListedReplicas
<1>3. i \in Nat /\ k \in Nat /\ lookup[i].replicas \in Nat /\ lookup[k].replicas \in Nat
      /\ lookup[i].rps \in Nat /\ lookup[k].rps \in Nat /\ Tolerance \in Nat
  BY <1>2, TableGrows, ToleranceAssumption
<1>4. CapacityOf(lookup, ready) = lookup[k].rps
  BY DEF CapacityOf
<1>5. CASE k < i
  <2>1. lookup[k].replicas < lookup[i].replicas
    BY <1>2, <1>5, TableGrows
  <2>2. demand > lookup[k].rps + Tolerance
    BY <1>1, <1>2, <1>5
  <2> QED BY <1>1, <1>2, <1>3, <1>4, <2>1, <2>2 DEF Overloaded
<1>6. CASE ~ (k < i)
  <2>1. lookup[i].replicas <= lookup[k].replicas /\ lookup[i].rps <= lookup[k].rps
    BY <1>2, <1>3, <1>6, TableGrows
  <2> QED BY <1>1, <1>2, <1>3, <1>4, <2>1 DEF Overloaded
<1> QED BY <1>5, <1>6
-----------------------------------------------------------------------------
(* The predictive policy.                                                  *)

\* What Config.Validate says of the numbers the proofs need.
LEMMA BoundsAreInt ==
  /\ MinReplicas \in Nat \ {0} /\ MaxReplicas \in Nat /\ MinReplicas <= MaxReplicas
  /\ InitialReplicas \in Replicas
  /\ MaxScaleDownStep \in Nat \ {0} /\ MaxScaleUpStep \in Nat
  /\ SafetyFactor \in Nat \ {0}
  /\ IsCapacityLookup(CapacityLookup, MinReplicas, MaxReplicas)
BY PolicyConfigAssumption DEF Replicas

\* A rate inside the validated capacity leads to a legal replica count.
LEMMA BoundedIsLegal ==
  ASSUME NEW w \in Workloads, RawReplicas(w) # NoReplicas
  PROVE  Bounded(RawReplicas(w)) \in Replicas
<1>1. w * SafetyFactor \in Int
  BY PolicyInputAssumption, BoundsAreInt
<1>2. RawReplicas(w) \in Nat \ {0}
  BY <1>1, BoundsAreInt, LookupIsListed DEF RawReplicas
<1> QED BY <1>2, BoundsAreInt DEF Bounded, Replicas

\* The stabilized count is legal and covers the whole window.
LEMMA StabilizedCoversWindow ==
  ASSUME NEW h \in Seq(Replicas), h # << >>
  PROVE  /\ Stabilized(h) \in {h[Len(h)]} \cup WindowOf(h, WindowSamples)
         /\ Stabilized(h) \in Replicas
         /\ h[Len(h)] <= Stabilized(h)
         /\ \A r \in WindowOf(h, WindowSamples) : r <= Stabilized(h)
<1> DEFINE T == {h[Len(h)]} \cup WindowOf(h, WindowSamples)
<1>1. Len(h) \in Nat /\ Len(h) # 0 /\ DOMAIN h = 1..Len(h)
  BY EmptySeq
<1>2. \A i \in DOMAIN h : h[i] \in Replicas
  BY <1>1, ElementOfSeq
<1>3. T \subseteq Replicas /\ T # {}
  BY <1>1, <1>2 DEF WindowOf
<1>4. T \subseteq Nat /\ \A y \in T : y <= MaxReplicas
  BY <1>3, BoundsAreInt DEF Replicas
<1>5. Max(T) \in T /\ \A y \in T : y <= Max(T)
  BY <1>3, <1>4, BoundsAreInt, MaxNat
<1> QED BY <1>3, <1>5 DEF Stabilized

\* One move stays legal; a move down stops at the stabilized count and at the
\* step limit, and without an up limit the stabilized count is reached.
LEMMA StepIsBounded ==
  ASSUME NEW p \in Replicas, NEW s \in Replicas
  PROVE  /\ Step(p, s) \in Replicas
         /\ MaxScaleUpStep = 0 => s <= Step(p, s)
         /\ Step(p, s) < p => s <= Step(p, s) /\ p - Step(p, s) <= MaxScaleDownStep
BY BoundsAreInt DEF Step, Replicas

\* What one accepted rate does, in terms of the state before it.
LEMMA DecideEffect ==
  ASSUME PolicyTypeOK, NEW w \in Workloads, Decide(w)
  PROVE  /\ history' \in Seq(Replicas) /\ history' # << >>
         /\ Len(history') = Len(history) + 1
         /\ history'[Len(history')] = Bounded(RawReplicas(w))
         /\ Stabilized(history') \in {history'[Len(history')]} \cup WindowOf(history', WindowSamples)
         /\ Stabilized(history') \in Replicas
         /\ command' = Step(command, Stabilized(history'))
         /\ \A r \in WindowOf(history', WindowSamples) : r <= Stabilized(history')
         /\ decision' = DecisionOf(Bounded(RawReplicas(w)), Stabilized(history'), command)
         /\ Bounded(RawReplicas(w)) \in Replicas
<1>1. history \in Seq(Replicas) /\ Bounded(RawReplicas(w)) \in Replicas
  BY BoundedIsLegal DEF PolicyTypeOK, Decide
<1>2. history' \in Seq(Replicas) /\ history' # << >> /\ Len(history') = Len(history) + 1
      /\ history'[Len(history')] = Bounded(RawReplicas(w))
  BY <1>1, AppendProperties DEF Decide
<1>3. command' = Step(command, Stabilized(history'))
  BY DEF Decide, DecisionOf
<1> QED BY <1>1, <1>2, <1>3, StabilizedCoversWindow DEF Decide
-----------------------------------------------------------------------------
\* The type invariant holds at the start, and every call keeps it.
LEMMA PolicyTypeInit == PolicyInit => PolicyTypeOK
BY BoundsAreInt, EmptySeq DEF PolicyInit, PolicyTypeOK, Replicas

\* Every call of Decide, accepted or refused, keeps it.
LEMMA PolicyTypeStep == PolicyTypeOK /\ [PolicyNext]_policyVars => PolicyTypeOK'
<1> SUFFICES ASSUME PolicyTypeOK, [PolicyNext]_policyVars PROVE PolicyTypeOK'
  OBVIOUS
<1>1. ASSUME NEW w \in Workloads, Decide(w) PROVE PolicyTypeOK'
  <2>1. command \in Replicas /\ seq \in Nat /\ seq = Len(history)
    BY DEF PolicyTypeOK
  <2> DEFINE b == Bounded(RawReplicas(w))
             s == Stabilized(history')
  <2>2. b \in Replicas /\ s \in Replicas /\ command' = Step(command, s)
        /\ decision' = DecisionOf(b, s, command) /\ history' \in Seq(Replicas)
        /\ Len(history') = Len(history) + 1
    BY <1>1, DecideEffect
  <2>3. command' \in Replicas
    BY <2>1, <2>2, StepIsBounded
  <2>4. DecisionOf(b, s, command) \in Decisions
    <3> HIDE DEF b, s
    <3>1. Step(command, s) \in Replicas
      BY <2>2, <2>3
    <3>2. DecisionAction(command, Step(command, s)) \in {"none", "scale_up", "scale_down"}
      BY DEF DecisionAction
    <3>3. Held(b, command, Step(command, s)) \in BOOLEAN
      BY DEF Held
    <3> QED BY <2>1, <2>2, <3>1, <3>2, <3>3 DEF DecisionOf, Decisions
  <2>5. seq' = seq + 1
    BY <1>1 DEF Decide
  <2> QED BY <2>1, <2>2, <2>3, <2>4, <2>5 DEF PolicyTypeOK
<1>2. ASSUME NEW w \in Workloads, DecideError(w) PROVE PolicyTypeOK'
  BY <1>2 DEF DecideError, PolicyTypeOK
<1>3. CASE UNCHANGED policyVars
  BY <1>3 DEF policyVars, PolicyTypeOK
<1> QED BY <1>1, <1>2, <1>3 DEF PolicyNext

\* Every command, and every count it is computed from, is a legal replica
\* count, for every configuration and every forecast trace.
THEOREM PolicyTypeCorrect == PolicySpec => []PolicyTypeOK
BY PolicyTypeInit, PolicyTypeStep, PTL DEF PolicySpec
-----------------------------------------------------------------------------
\* The window is covered at the start, and every call keeps it covered.
LEMMA CoversInit == PolicyInit => CoversRecentDemand
BY DEF PolicyInit, CoversRecentDemand, WindowOf

\* Every call keeps the window covered: Decide looks at the window it leaves behind.
LEMMA CoversStep ==
  PolicyTypeOK /\ CoversRecentDemand /\ [PolicyNext]_policyVars => CoversRecentDemand'
<1> SUFFICES ASSUME PolicyTypeOK, CoversRecentDemand, [PolicyNext]_policyVars
             PROVE  CoversRecentDemand'
  OBVIOUS
<1>1. ASSUME NEW w \in Workloads, Decide(w), MaxScaleUpStep = 0,
             NEW r \in WindowOf(history', WindowSamples)
      PROVE  r <= command'
  <2> DEFINE s == Stabilized(history')
  <2>1. command \in Replicas /\ s \in Replicas /\ command' = Step(command, s) /\ r <= s
    BY <1>1, DecideEffect DEF PolicyTypeOK
  <2>2. history' \in Seq(Replicas)
    BY <1>1, DecideEffect
  <2>3. r \in Replicas
    BY <1>1, <2>2, ElementOfSeq DEF WindowOf
  <2> HIDE DEF s
  <2>4. s <= Step(command, s) /\ Step(command, s) \in Replicas
    BY <1>1, <2>1, StepIsBounded
  <2> QED BY <2>1, <2>3, <2>4, BoundsAreInt DEF Replicas
<1>2. ASSUME UNCHANGED <<history, command>> PROVE CoversRecentDemand'
  BY <1>2 DEF CoversRecentDemand, WindowOf
<1>3. CASE UNCHANGED policyVars
  BY <1>2, <1>3 DEF policyVars
<1>4. ASSUME NEW w \in Workloads, DecideError(w) PROVE CoversRecentDemand'
  BY <1>2, <1>4 DEF DecideError
<1>5. ASSUME NEW w \in Workloads, Decide(w) PROVE CoversRecentDemand'
  BY <1>1, <1>5 DEF CoversRecentDemand
<1> QED BY <1>3, <1>4, <1>5 DEF PolicyNext

\* Without a scale-up limit the command always covers the demand of the whole
\* trailing window.
THEOREM PolicyCoversRecentDemand == PolicySpec => []CoversRecentDemand
<1>1. PolicyInit => PolicyTypeOK /\ CoversRecentDemand
  BY PolicyTypeInit, CoversInit
<1>2. PolicyTypeOK /\ CoversRecentDemand /\ [PolicyNext]_policyVars
        => (PolicyTypeOK /\ CoversRecentDemand)'
  BY PolicyTypeStep, CoversStep
<1> QED BY <1>1, <1>2, PTL DEF PolicySpec

\* A command is lowered only when the whole window asked for less, by one step
\* at most, and never below what the window asked for.
THEOREM PolicyScaleDownIsEarned == PolicySpec => ScaleDownIsEarned
<1> DEFINE Earned == command' < command =>
                       /\ \A r \in WindowOf(history', WindowSamples) : r <= command'
                       /\ command - command' <= MaxScaleDownStep
<1>1. PolicyTypeOK /\ [PolicyNext]_policyVars => [Earned]_policyVars
  <2> SUFFICES ASSUME PolicyTypeOK, PolicyNext, command' < command PROVE Earned
    OBVIOUS
  <2>1. command \in Replicas /\ command \in Int
    BY BoundsAreInt DEF PolicyTypeOK, Replicas
  <2>2. PICK w \in Workloads : Decide(w)
    BY <2>1 DEF PolicyNext, DecideError
  <2> DEFINE s == Stabilized(history')
  <2>3. s \in Replicas /\ command' = Step(command, s) /\ history' \in Seq(Replicas)
        /\ \A r \in WindowOf(history', WindowSamples) : r <= s
    BY <2>2, DecideEffect
  <2>4. \A r \in WindowOf(history', WindowSamples) : r \in Replicas
    BY <2>3, ElementOfSeq DEF WindowOf
  <2> HIDE DEF s
  <2>5. s <= command' /\ command - command' <= MaxScaleDownStep /\ command' \in Replicas
    BY <2>1, <2>3, StepIsBounded
  <2> QED BY <2>3, <2>4, <2>5, BoundsAreInt DEF Replicas
<1> QED BY <1>1, PolicyTypeCorrect, PTL DEF PolicySpec, ScaleDownIsEarned

\* A hold is reported only when an older sample of the window keeps the
\* command up.
THEOREM PolicyHeldByTheWindow == PolicySpec => []HeldByTheWindow
<1>1. PolicyInit => HeldByTheWindow
  BY DEF PolicyInit, HeldByTheWindow
<1>2. PolicyTypeOK /\ HeldByTheWindow /\ [PolicyNext]_policyVars => HeldByTheWindow'
  <2> SUFFICES ASSUME PolicyTypeOK, HeldByTheWindow, [PolicyNext]_policyVars
               PROVE  HeldByTheWindow'
    OBVIOUS
  <2>1. ASSUME NEW w \in Workloads, Decide(w) PROVE HeldByTheWindow'
    <3> DEFINE b == Bounded(RawReplicas(w))
               s == Stabilized(history')
    <3>1. b \in Replicas /\ s \in Replicas /\ command \in Replicas
          /\ s \in {b} \cup WindowOf(history', WindowSamples)
          /\ decision' = DecisionOf(b, s, command)
      BY <2>1, DecideEffect DEF PolicyTypeOK
    <3> HIDE DEF b, s
    <3>2. ASSUME decision'.held
          PROVE  s >= command /\ s > b
      <4>1. b < command /\ Step(command, s) >= command
        BY <3>1, <3>2 DEF DecisionOf, Held
      <4> QED BY <3>1, <4>1, BoundsAreInt DEF Step, Replicas
    <3>3. ASSUME decision'.held
          PROVE  s \in WindowOf(history', WindowSamples)
      BY <3>1, <3>2, <3>3, BoundsAreInt DEF Replicas
    <3>4. decision'.prior = command /\ decision'.bounded = b
      BY <3>1 DEF DecisionOf
    <3> QED BY <3>2, <3>3, <3>4 DEF HeldByTheWindow
  <2>2. ASSUME NEW w \in Workloads, DecideError(w) PROVE HeldByTheWindow'
    BY <2>2 DEF DecideError, HeldByTheWindow
  <2>3. CASE UNCHANGED policyVars
    BY <2>3 DEF policyVars, HeldByTheWindow, WindowOf
  <2> QED BY <2>1, <2>2, <2>3 DEF PolicyNext
<1> QED BY <1>1, <1>2, PolicyTypeCorrect, PTL DEF PolicySpec
-----------------------------------------------------------------------------
(* A constant demand is met.                                               *)

\* The samples a window keeps beside the newest, and the distance to walk.
Lag == Max({WindowSamples, 1}) - 1
Spread == MaxReplicas - MinReplicas

\* What the window and the step limits are, in numbers.
LEMMA SettleNumbers ==
  /\ WindowSamples \in Nat /\ Lag \in Nat /\ Spread \in Nat
  /\ Lag = IF WindowSamples >= 1 THEN WindowSamples - 1 ELSE 0
  /\ SlowestStep \in Nat \ {0} /\ SlowestStep <= MaxScaleDownStep
  /\ MaxScaleUpStep # 0 => SlowestStep <= MaxScaleUpStep
<1>1. WindowSamples \in Nat
  BY PolicyConfigAssumption DEF WindowSamples
<1>2. Lag = IF WindowSamples >= 1 THEN WindowSamples - 1 ELSE 0
  BY <1>1, MaxOfTwo DEF Lag
<1>3. SlowestStep = IF MaxScaleUpStep = 0 THEN MaxScaleDownStep
                    ELSE IF MaxScaleUpStep <= MaxScaleDownStep
                         THEN MaxScaleUpStep ELSE MaxScaleDownStep
  BY BoundsAreInt, MinOfTwo DEF SlowestStep
<1>4. Lag \in Nat /\ Spread \in Nat
  BY <1>1, <1>2, BoundsAreInt DEF Spread
<1>5. /\ SlowestStep \in Nat \ {0} /\ SlowestStep <= MaxScaleDownStep
      /\ MaxScaleUpStep # 0 => SlowestStep <= MaxScaleUpStep
  BY <1>3, BoundsAreInt
<1> QED BY <1>1, <1>2, <1>4, <1>5

\* Enough steps of the slowest kind walk the whole distance.
LEMMA StepsSuffice ==
  ASSUME NEW m \in Nat, m >= (Spread + SlowestStep - 1) \div SlowestStep
  PROVE  m * SlowestStep >= Spread
<1> DEFINE q == (Spread + SlowestStep - 1) \div SlowestStep
<1>1. Spread \in Nat /\ SlowestStep \in Nat \ {0}
  BY SettleNumbers
<1>2. q \in Nat /\ q * SlowestStep >= Spread
  BY <1>1
<1>3. m * SlowestStep >= q * SlowestStep
  <2>1. PICK d \in Nat : m = q + d
    <3>1. m - q \in Nat /\ m = q + (m - q)
      BY <1>2
    <3> QED BY <3>1
  <2>2. m * SlowestStep = q * SlowestStep + d * SlowestStep
    BY <1>1, <1>2, <2>1
  <2>3. d * SlowestStep >= 0
    BY <1>1, <2>1
  <2> QED BY <1>1, <1>2, <2>2, <2>3
<1> QED BY <1>1, <1>2, <1>3

\* The last k samples of a history ask for b.
EndsWith(h, k, b) ==
  k \in 1..Len(h) /\ \A i \in (Len(h) - k + 1)..Len(h) : h[i] = b

\* The command is b, or what is left to walk shrank by n slowest steps.
Settling(c, b, n) ==
  c = b \/ (c - b + n * SlowestStep <= Spread /\ b - c + n * SlowestStep <= Spread)

SettleInvariant ==
  \A b \in Replicas, k \in Nat :
    EndsWith(history, k, b) /\ k > Lag => Settling(command, b, k - Lag)

\* Once the window has forgotten everything else, it stabilizes at the demand.
LEMMA WindowForgets ==
  ASSUME NEW h \in Seq(Replicas), NEW b \in Replicas, NEW k \in Nat,
         EndsWith(h, k, b), k > Lag
  PROVE  Stabilized(h) = b
<1>1. Len(h) \in Nat /\ Len(h) # 0 /\ DOMAIN h = 1..Len(h) /\ k \in 1..Len(h) /\ h # << >>
  BY EmptySeq DEF EndsWith
<1>2. \A i \in DOMAIN h : i > Len(h) - WindowSamples => h[i] = b
  BY <1>1, SettleNumbers DEF EndsWith
<1>3. WindowOf(h, WindowSamples) \subseteq {b}
  BY <1>2 DEF WindowOf
<1>4. h[Len(h)] = b
  BY <1>1 DEF EndsWith
<1>5. Stabilized(h) \in {h[Len(h)]} \cup WindowOf(h, WindowSamples)
  BY <1>1, StabilizedCoversWindow
<1> QED BY <1>3, <1>4, <1>5

\* A move towards b walks a slowest step, or arrives.
LEMMA StepSettles ==
  ASSUME NEW c \in Replicas, NEW b \in Replicas
  PROVE  /\ Settling(Step(c, b), b, 1)
         /\ \A n \in Nat : Settling(c, b, n) => Settling(Step(c, b), b, n + 1)
<1>1. /\ c \in Int /\ b \in Int /\ c - b <= Spread /\ b - c <= Spread
      /\ Spread \in Nat /\ SlowestStep \in Nat \ {0}
  BY BoundsAreInt, SettleNumbers DEF Replicas, Spread
<1>2. \/ Step(c, b) = b
      \/ /\ c > b /\ Step(c, b) = c - MaxScaleDownStep /\ Step(c, b) >= b
      \/ /\ c < b /\ MaxScaleUpStep # 0 /\ Step(c, b) = c + MaxScaleUpStep /\ Step(c, b) <= b
  BY <1>1, BoundsAreInt DEF Step
<1>3. \/ Step(c, b) = b
      \/ /\ Step(c, b) \in Int /\ Step(c, b) >= b /\ Step(c, b) <= c - SlowestStep
      \/ /\ Step(c, b) \in Int /\ Step(c, b) <= b /\ Step(c, b) >= c + SlowestStep
  BY <1>1, <1>2, BoundsAreInt, SettleNumbers
<1>4. Settling(Step(c, b), b, 1)
  BY <1>1, <1>3 DEF Settling
<1>5. ASSUME NEW n \in Nat, Settling(c, b, n) PROVE Settling(Step(c, b), b, n + 1)
  <2>1. PICK x \in Int : x = n * SlowestStep
    BY <1>1
  <2>2. (n + 1) * SlowestStep = x + SlowestStep
    BY <1>1, <2>1
  <2>3. c = b \/ (c - b + x <= Spread /\ b - c + x <= Spread)
    BY <1>5, <2>1 DEF Settling
  <2>4. x >= 0
    BY <1>1, <2>1
  <2>5. \/ Step(c, b) = b
        \/ /\ Step(c, b) - b + (x + SlowestStep) <= Spread
           /\ b - Step(c, b) + (x + SlowestStep) <= Spread
    BY <1>1, <1>3, <2>1, <2>3, <2>4
  <2> QED BY <2>2, <2>5 DEF Settling
<1> QED BY <1>4, <1>5

\* Every call of Decide on a repeated demand walks one more step.
LEMMA DecideSettles ==
  ASSUME PolicyTypeOK, SettleInvariant, NEW w \in Workloads, Decide(w)
  PROVE  SettleInvariant'
<1> SUFFICES ASSUME NEW b \in Replicas, NEW k \in Nat, EndsWith(history', k, b), k > Lag
             PROVE  Settling(command', b, k - Lag)
  BY DEF SettleInvariant
<1>1. /\ history \in Seq(Replicas) /\ command \in Replicas /\ history' \in Seq(Replicas)
      /\ Len(history') = Len(history) + 1 /\ command' = Step(command, Stabilized(history'))
  BY DecideEffect DEF PolicyTypeOK
<1>2. command' = Step(command, b)
  BY <1>1, WindowForgets
<1>3. Lag \in Nat
  BY SettleNumbers
<1>4. CASE k = Lag + 1
  <2>1. k - Lag = 1
    BY <1>3, <1>4
  <2> QED BY <1>1, <1>2, <2>1, StepSettles
<1>5. CASE k # Lag + 1
  <2>1. k - 1 \in Nat /\ k - 1 > Lag /\ (k - 1) - Lag \in Nat /\ k - Lag = ((k - 1) - Lag) + 1
    BY <1>3, <1>5
  <2>2. EndsWith(history, k - 1, b)
    <3>1. Len(history) \in Nat /\ k - 1 \in 1..Len(history)
      BY <1>1, <1>3, <2>1, LenProperties DEF EndsWith
    <3>2. \A i \in 1..Len(history) : history'[i] = history[i]
      <4>1. PICK r : history' = Append(history, r) /\ r \in Replicas
        BY BoundedIsLegal DEF Decide
      <4> QED BY <1>1, <4>1, AppendProperties
    <3>3. \A i \in (Len(history) - (k - 1) + 1)..Len(history) :
            i \in 1..Len(history) /\ i \in (Len(history') - k + 1)..Len(history')
      BY <1>1, <3>1
    <3> QED BY <3>1, <3>2, <3>3 DEF EndsWith
  <2>3. Settling(command, b, (k - 1) - Lag)
    BY <2>1, <2>2 DEF SettleInvariant
  <2>4. Settling(Step(command, b), b, ((k - 1) - Lag) + 1)
    BY <1>1, <2>1, <2>3, StepSettles
  <2> QED BY <1>2, <2>1, <2>4
<1> QED BY <1>4, <1>5

\* At the end of the walk the command is the demand.
LEMMA SettledIsMet == PolicyTypeOK /\ SettleInvariant => SettlesOnConstantDemand
<1> SUFFICES ASSUME PolicyTypeOK, SettleInvariant, NEW b \in Replicas,
                    Len(history) >= SettleSamples, history # << >>,
                    WindowOf(history, SettleSamples) \cup {history[Len(history)]} = {b}
             PROVE  command = b
  BY DEF SettlesOnConstantDemand
<1> DEFINE q == (Spread + SlowestStep - 1) \div SlowestStep
<1>1. /\ command \in Replicas /\ history \in Seq(Replicas)
      /\ Lag \in Nat /\ Spread \in Nat /\ SlowestStep \in Nat \ {0}
  BY SettleNumbers DEF PolicyTypeOK
<1>2. Len(history) \in Nat /\ DOMAIN history = 1..Len(history)
  BY <1>1, LenProperties
<1>3. q \in Nat /\ SettleSamples = Lag + q
  <2>1. q \in Nat
    BY <1>1
  <2>2. SettleSamples = Lag + q
    BY Zenon DEF SettleSamples, Lag, Spread
  <2> QED BY <2>1, <2>2
<1>4. CASE Spread = 0
  BY <1>1, <1>4, BoundsAreInt DEF Spread, Replicas
<1>5. CASE Spread # 0
  <2>1. q >= 1
    BY <1>1, <1>5
  <2>2. SettleSamples \in Nat /\ SettleSamples \in 1..Len(history) /\ SettleSamples > Lag
        /\ SettleSamples - Lag = q
    BY <1>1, <1>2, <1>3, <2>1
  <2>3. ASSUME NEW i \in (Len(history) - SettleSamples + 1)..Len(history)
        PROVE  history[i] = b
    <3>1. i \in DOMAIN history /\ i > Len(history) - SettleSamples
      BY <1>2, <2>2
    <3>2. history[i] \in WindowOf(history, SettleSamples)
      BY <3>1 DEF WindowOf
    <3> QED BY <3>2
  <2>4. Settling(command, b, q)
    BY <2>2, <2>3 DEF SettleInvariant, EndsWith
  <2>5. q * SlowestStep >= Spread
    BY <1>3, StepsSuffice
  <2>6. command \in Int /\ b \in Int
    BY <1>1, BoundsAreInt DEF Replicas
  <2> QED BY <1>1, <1>3, <2>4, <2>5, <2>6 DEF Settling
<1> QED BY <1>4, <1>5

\* For every configuration, with and without step limits, a demand that stays
\* constant is met exactly as soon as the window has forgotten everything else
\* and the largest distance has been walked in steps.
THEOREM PolicySettles == PolicySpec => []SettlesOnConstantDemand
<1>1. PolicyInit => SettleInvariant
  BY DEF PolicyInit, SettleInvariant, EndsWith
<1>2. PolicyTypeOK /\ SettleInvariant /\ [PolicyNext]_policyVars => SettleInvariant'
  <2> SUFFICES ASSUME PolicyTypeOK, SettleInvariant, [PolicyNext]_policyVars
               PROVE  SettleInvariant'
    OBVIOUS
  <2>1. ASSUME NEW w \in Workloads, DecideError(w) PROVE SettleInvariant'
    BY <2>1 DEF DecideError, SettleInvariant
  <2>2. CASE UNCHANGED policyVars
    BY <2>2 DEF policyVars, SettleInvariant
  <2> QED BY <2>1, <2>2, DecideSettles DEF PolicyNext
<1> QED BY <1>1, <1>2, SettledIsMet, PolicyTypeInit, PolicyTypeStep, PTL DEF PolicySpec
-----------------------------------------------------------------------------
(* The safety engine.                                                      *)

\* What Config.Validate says of the numbers the proofs need.
LEMMA SafetyNumbers ==
  /\ SafetyMin \in Nat \ {0} /\ SafetyMax \in Nat
  /\ HoldWindows \in Nat /\ PersistenceWindows \in Nat
  /\ IsCapacityLookup(SafetyLookup, SafetyMin, SafetyMax)
BY SafetyConfigAssumption DEF HoldWindows, PersistenceWindows

\* An accepted observation: its requirement is listed and positive, the Ready
\* count is listed, and overload means that more is required than is Ready.
LEMMA EvaluableFacts ==
  ASSUME NEW demand \in Demands, NEW ready \in ReadyCounts, NEW predictive,
         Evaluable(demand, ready, predictive)
  PROVE  /\ Required(demand) \in ListedReplicas(SafetyLookup)
         /\ Required(demand) \in Nat \ {0}
         /\ ready \in ListedReplicas(SafetyLookup) /\ ready \in Nat
         /\ Overloaded(SafetyLookup, demand, ready) \in BOOLEAN
         /\ Overloaded(SafetyLookup, demand, ready) <=> Required(demand) > ready
<1>1. demand \in Int /\ ready \in Nat
  BY SafetyInputAssumption
<1>2. ready \in ListedReplicas(SafetyLookup) /\ RequiredReplicas(SafetyLookup, demand) # NoReplicas
  BY DEF Evaluable, Required
<1>3. Overloaded(SafetyLookup, demand, ready) \in BOOLEAN
  BY DEF Overloaded
<1> QED BY <1>1, <1>2, <1>3, SafetyNumbers, LookupIsListed, OverloadIsTooFewReplicas DEF Required

\* What an accepted observation does to the floor and the hold: one of the four
\* branches, in numbers.
LEMMA EvaluateEffect ==
  ASSUME SafetyTypeOK, NEW demand \in Demands, NEW ready \in ReadyCounts, NEW predictive,
         Evaluate(demand, ready, predictive)
  PROVE  /\ holdWindows' \in 0..HoldWindows /\ active' \in BOOLEAN
         /\ floor' \in Nat /\ floor' >= SafetyMin
         /\ ~active' => floor' = SafetyMin /\ holdWindows' = 0
         /\ Triggered(demand, ready) => active' /\ floor' >= Required(demand)
         /\ ~Triggered(demand, ready) => floor' <= floor /\ (active' => active)
<1>1. /\ holdWindows \in 0..HoldWindows /\ floor \in Nat /\ floor >= SafetyMin
      /\ active \in BOOLEAN /\ (~active => floor = SafetyMin /\ holdWindows = 0)
  BY DEF SafetyTypeOK
<1>2. Required(demand) \in Nat
  BY EvaluableFacts DEF Evaluate
<1>3. CASE Triggered(demand, ready) /\ Intervene(Required(demand))
  <2>1. floor' = IF floor >= Required(demand) THEN floor ELSE Required(demand)
    BY <1>1, <1>2, <1>3, MaxOfTwo DEF Intervene
  <2>2. holdWindows' = HoldWindows /\ active' = TRUE
    BY <1>3 DEF Intervene
  <2>3. floor' \in Nat /\ floor' >= SafetyMin /\ floor' >= Required(demand)
    BY <1>1, <1>2, <2>1, SafetyNumbers
  <2>4. HoldWindows \in 0..HoldWindows
    BY SafetyNumbers
  <2>5. Triggered(demand, ready)
    BY <1>3
  <2> QED BY <2>2, <2>3, <2>4, <2>5, Zenon
<1>4. CASE ~Triggered(demand, ready) /\ active /\ Extend
  BY <1>1, <1>4, SafetyNumbers DEF Extend
<1>5. CASE ~Triggered(demand, ready) /\ active /\ CountDown
  <2>1. holdWindows' = IF 0 >= holdWindows - 1 THEN 0 ELSE holdWindows - 1
    BY <1>1, <1>5, SafetyNumbers, MaxOfTwo DEF CountDown
  <2>2. holdWindows' \in 0..HoldWindows
    BY <1>1, <2>1, SafetyNumbers
  <2>3. CASE holdWindows' = 0
    <3>1. floor' = SafetyMin /\ active' = FALSE
      BY <1>5, <2>3 DEF CountDown
    <3>2. floor' \in Nat /\ floor' >= SafetyMin /\ floor' <= floor
      BY <1>1, <3>1, SafetyNumbers
    <3> QED BY <1>5, <2>2, <2>3, <3>1, <3>2, Zenon
  <2>4. CASE holdWindows' # 0
    BY <1>1, <1>5, <2>2, <2>4, SafetyNumbers DEF CountDown
  <2> QED BY <2>3, <2>4
<1>6. CASE ~Triggered(demand, ready) /\ ~active /\ UNCHANGED <<holdWindows, floor, active>>
  BY <1>1, <1>6
<1> QED BY <1>3, <1>4, <1>5, <1>6 DEF Evaluate

\* The record an accepted observation returns.
LEMMA EvaluationIsTyped ==
  ASSUME SafetyTypeOK, NEW demand \in Demands, NEW ready \in ReadyCounts, NEW predictive,
         Evaluate(demand, ready, predictive)
  PROVE  /\ evaluation' \in Evaluations
         /\ evaluation'.overload <=> evaluation'.required > evaluation'.ready
         /\ evaluation'.event \in {"intervention_started", "intervention_raised"}
              => evaluation'.floor > evaluation'.ready
<1> DEFINE overload == Overloaded(SafetyLookup, demand, ready)
           required == Required(demand)
           event == EventOf(required)
<1>1. /\ required \in ListedReplicas(SafetyLookup) /\ required \in Nat
      /\ ready \in ListedReplicas(SafetyLookup) /\ ready \in Nat
      /\ overload \in BOOLEAN /\ (overload <=> required > ready)
  BY EvaluableFacts DEF Evaluate
<1>2. event \in Events
  BY DEF EventOf, Events
<1>3. /\ evaluation'.overload = overload /\ evaluation'.required = required
      /\ evaluation'.ready = ready /\ evaluation'.event = event
      /\ evaluation'.floor = IF active' THEN floor' ELSE SafetyMin
      /\ evaluation' = [returned |-> TRUE, overload |-> overload, ready |-> ready,
                        required |-> required, event |-> event,
                        floor |-> IF active' THEN floor' ELSE SafetyMin]
  BY DEF Evaluate
<1>4. (IF active' THEN floor' ELSE SafetyMin) \in Nat \ {0}
  BY EvaluateEffect, SafetyNumbers
<1>5. evaluation' \in Evaluations
  <2> HIDE DEF overload, required, event
  <2> QED BY <1>1, <1>2, <1>3, <1>4 DEF Evaluations
<1>6. ASSUME event \in {"intervention_started", "intervention_raised"}
      PROVE  active' /\ floor' >= required /\ overload
  <2>1. (~active /\ active') \/ (~(active /\ ~active') /\ floor' > floor)
    BY <1>6 DEF EventOf
  <2>2. floor \in Nat /\ floor' \in Nat
    BY EvaluateEffect DEF SafetyTypeOK
  <2>3. Triggered(demand, ready)
    BY <2>1, <2>2, EvaluateEffect
  <2> QED BY <2>3, EvaluateEffect DEF Triggered
<1>7. floor' \in Nat
  BY EvaluateEffect
<1> HIDE DEF overload, required, event
<1> QED BY <1>1, <1>3, <1>5, <1>6, <1>7
-----------------------------------------------------------------------------
\* The two invariants together hold at the start, and every call keeps them.
SafetyInvariant == SafetyTypeOK /\ OverloadMeansTooFewReady

\* A new engine satisfies them.
LEMMA SafetyInvariantInit == SafetyInit => SafetyInvariant
<1> SUFFICES ASSUME SafetyInit PROVE SafetyTypeOK /\ OverloadMeansTooFewReady
  BY DEF SafetyInvariant
<1>1. windows \in Seq(WindowFacts) /\ sequence = Len(windows)
  BY EmptySeq DEF SafetyInit
<1>2. OverloadMeansTooFewReady
  BY DEF SafetyInit, OverloadMeansTooFewReady
<1>3. /\ overloadWindows \in Nat /\ overloadWindows <= sequence /\ sequence \in Nat
      /\ holdWindows \in 0..HoldWindows /\ floor \in Nat /\ floor >= SafetyMin
  BY SafetyNumbers DEF SafetyInit
<1>4. active \in BOOLEAN /\ (~active => floor = SafetyMin /\ holdWindows = 0)
      /\ evaluation \in Evaluations \cup {NoEvaluation}
  BY DEF SafetyInit
<1>5. SafetyTypeOK
  BY <1>1, <1>3, <1>4 DEF SafetyTypeOK
<1> QED BY <1>2, <1>5

\* Every call keeps them, whatever the predictive command.
LEMMA EvaluateKeepsInvariant ==
  ASSUME SafetyInvariant, NEW demand \in Demands, NEW ready \in ReadyCounts, NEW predictive,
         Evaluate(demand, ready, predictive)
  PROVE  SafetyInvariant'
<1>1. SafetyTypeOK
  BY DEF SafetyInvariant
<1>2. overloadWindows' \in Nat /\ overloadWindows' <= sequence' /\ sequence' \in Nat
  BY <1>1 DEF SafetyTypeOK, Evaluate, OverloadRun
<1>3. windows' \in Seq(WindowFacts) /\ sequence' = Len(windows')
  <2> DEFINE needed == Required(demand) > predictive
             fact == [overload |-> Overloaded(SafetyLookup, demand, ready),
                      needed |-> needed, required |-> Required(demand)]
  <2>1. fact \in WindowFacts
    BY EvaluableFacts DEF Evaluate, WindowFacts
  <2>2. windows' = Append(windows, fact)
    BY DEF Evaluate
  <2> HIDE DEF fact
  <2>3. windows \in Seq(WindowFacts) /\ sequence = Len(windows) /\ sequence' = sequence + 1
    BY <1>1 DEF SafetyTypeOK, Evaluate
  <2> QED BY <2>1, <2>2, <2>3, AppendProperties
<1>4. SafetyTypeOK'
  BY <1>1, <1>2, <1>3, EvaluateEffect, EvaluationIsTyped DEF SafetyTypeOK
<1>5. OverloadMeansTooFewReady'
  BY <1>1, EvaluationIsTyped DEF OverloadMeansTooFewReady
<1> QED BY <1>4, <1>5 DEF SafetyInvariant

\* A refused call keeps them: the engine is untouched.
LEMMA EvaluateErrorKeepsInvariant ==
  ASSUME SafetyInvariant, NEW demand, NEW ready, NEW predictive,
         EvaluateError(demand, ready, predictive)
  PROVE  SafetyInvariant'
BY DEF EvaluateError, engineVars, SafetyInvariant, SafetyTypeOK, OverloadMeansTooFewReady

\* So does every step of another component.
LEMMA SafetyInvariantUnchanged ==
  ASSUME SafetyInvariant, UNCHANGED safetyVars
  PROVE  SafetyInvariant'
BY DEF safetyVars, engineVars, SafetyInvariant, SafetyTypeOK, OverloadMeansTooFewReady

\* So does every step of the engine's specification.
LEMMA SafetyInvariantStep == SafetyInvariant /\ [SafetyNext]_safetyVars => SafetyInvariant'
BY EvaluateKeepsInvariant, EvaluateErrorKeepsInvariant, SafetyInvariantUnchanged DEF SafetyNext

\* The safety engine's counters, floor and records stay in range: an inactive
\* engine has no floor, and the hold never exceeds the release hold.
THEOREM SafetyTypeCorrect == SafetySpec => []SafetyTypeOK
<1>1. SafetyInvariant => SafetyTypeOK
  BY DEF SafetyInvariant
<1> QED BY <1>1, SafetyInvariantInit, SafetyInvariantStep, PTL DEF SafetySpec

\* A window is overloaded exactly when it needs more replicas than are Ready,
\* so every intervention asks for more than is Ready.
THEOREM SafetyOverloadMeansTooFewReady == SafetySpec => []OverloadMeansTooFewReady
<1>1. SafetyInvariant => OverloadMeansTooFewReady
  BY DEF SafetyInvariant
<1> QED BY <1>1, SafetyInvariantInit, SafetyInvariantStep, PTL DEF SafetySpec
-----------------------------------------------------------------------------
(* The promise of the safety engine, on the whole history of its windows.   *)

\* A number of a set that no other exceeds is its maximum.
LEMMA MaxIs ==
  ASSUME NEW T, T \subseteq Int, NEW x \in T, \A y \in T : y <= x
  PROVE  Max(T) = x
<1>1. \A y \in T : x >= y
  OBVIOUS
<1>2. \A y \in T : Max(T) >= y /\ Max(T) \in T
  BY <1>1 DEF Max
<1>3. Max(T) \in Int /\ Max(T) >= x /\ x >= Max(T)
  BY <1>1, <1>2
<1> QED BY <1>3

\* The promise takes the same maximum.
LEMMA PromiseMax == \A T : Promise!Max(T) = Max(T)
BY DEF Promise!Max, Max

\* The length of an intervention's end, and of an overload that starts one.
LEMMA PromiseNumbers ==
  /\ PersistenceWindows \in Nat \ {0}
  /\ Promise!QuietRun = IF HoldWindows = 0 THEN 1 ELSE HoldWindows
  /\ Promise!QuietRun \in Nat \ {0}
<1>1. PersistenceWindows \in Nat \ {0}
  <2>1. /\ ObservationSecs \in Nat \ {0} /\ PersistenceSecs \in Nat
        /\ PersistenceSecs >= ObservationSecs
    BY SafetyConfigAssumption
  <2>2. PersistenceSecs = (ObservationSecs * PersistenceWindows)
                              + (PersistenceSecs % ObservationSecs)
        /\ PersistenceSecs % ObservationSecs < ObservationSecs
    BY <2>1 DEF PersistenceWindows
  <2>3. ObservationSecs * 0 = 0
    BY <2>1
  <2>4. PersistenceWindows # 0
    BY <2>1, <2>2, <2>3
  <2> QED BY <2>4, SafetyNumbers
<1>2. Promise!QuietRun = IF 1 >= HoldWindows THEN 1 ELSE HoldWindows
  BY SafetyNumbers, MaxOfTwo, PromiseMax DEF Promise!QuietRun
<1>3. HoldWindows \in Nat
  BY SafetyNumbers
<1>4. CASE HoldWindows = 0
  BY <1>1, <1>2, <1>4
<1>5. CASE HoldWindows # 0
  BY <1>1, <1>2, <1>3, <1>5
<1> QED BY <1>4, <1>5

\* A window completes the persistence, or ends the interventions begun by
\* window i, when the run of windows it closes says so.
LEMMA InTriggers ==
  ASSUME NEW w, NEW k \in Nat
  PROVE  k \in Promise!Triggers(w) <=>
           /\ k \in DOMAIN w /\ k >= PersistenceWindows
           /\ \A j \in (k - PersistenceWindows + 1)..k : w[j].overload
BY PromiseNumbers DEF Promise!Triggers

LEMMA InReleases ==
  ASSUME NEW w, NEW i \in Nat, NEW k \in Nat
  PROVE  k \in Promise!Releases(w, i) <=>
           /\ k \in DOMAIN w /\ k >= i + Promise!QuietRun
           /\ \A j \in (k - Promise!QuietRun + 1)..k : Promise!Quiet(w, j)
BY PromiseNumbers DEF Promise!Releases

\* One more window changes nothing about the windows before it.
LEMMA HistoryGrows ==
  ASSUME NEW w \in Seq(WindowFacts), NEW x \in WindowFacts,
         NEW n, n = Len(w), NEW v, v = Append(w, x)
  PROVE  /\ n \in Nat /\ DOMAIN w = 1..n
         /\ v \in Seq(WindowFacts) /\ Len(v) = n + 1 /\ DOMAIN v = 1..(n + 1)
         /\ (\A i \in 1..n : v[i] = w[i]) /\ v[n + 1] = x
         /\ \A i \in 1..n : i \in Promise!Triggers(v) <=> i \in Promise!Triggers(w)
         /\ \A i \in 1..n : Promise!Quiet(v, i) <=> Promise!Quiet(w, i)
         /\ \A i \in 1..n : i \in Promise!Standing(v) <=>
              i \in Promise!Standing(w) /\ n + 1 \notin Promise!Releases(v, i)
         /\ n + 1 \in Promise!Standing(v) <=> n + 1 \in Promise!Triggers(v)
<1>1. n \in Nat /\ DOMAIN w = 1..n
  BY LenProperties
<1>2. /\ v \in Seq(WindowFacts) /\ Len(v) = n + 1
      /\ (\A i \in 1..n : v[i] = w[i]) /\ v[n + 1] = x
  BY AppendProperties
<1>3. DOMAIN v = 1..(n + 1)
  BY <1>2, LenProperties
<1>4. ASSUME NEW i \in 1..n PROVE i \in Promise!Triggers(v) <=> i \in Promise!Triggers(w)
  <2>1. ASSUME i >= PersistenceWindows, NEW j \in (i - PersistenceWindows + 1)..i
        PROVE  v[j] = w[j]
    BY <1>1, <1>2, <2>1, PromiseNumbers
  <2>2. i \in DOMAIN w /\ i \in DOMAIN v
    BY <1>1, <1>3
  <2> QED BY <2>1, <2>2 DEF Promise!Triggers
<1>5. ASSUME NEW i \in 1..n PROVE Promise!Quiet(v, i) <=> Promise!Quiet(w, i)
  BY <1>2, <1>4 DEF Promise!Quiet
<1>6. ASSUME NEW i \in 1..n, NEW k \in 1..n
      PROVE  k \in Promise!Releases(v, i) <=> k \in Promise!Releases(w, i)
  <2>1. ASSUME k >= i + Promise!QuietRun, NEW j \in (k - Promise!QuietRun + 1)..k
        PROVE  Promise!Quiet(v, j) <=> Promise!Quiet(w, j)
    <3>1. j \in 1..n
      BY <1>1, <2>1, PromiseNumbers
    <3> QED BY <1>5, <3>1
  <2>2. k \in DOMAIN w /\ k \in DOMAIN v
    BY <1>1, <1>3
  <2> QED BY <2>1, <2>2 DEF Promise!Releases
<1>7. \A k \in 1..(n + 1) : k \in 1..n \/ k = n + 1
  BY <1>1
<1>8. ASSUME NEW i \in 1..n
      PROVE  i \in Promise!Standing(v) <=>
               i \in Promise!Standing(w) /\ n + 1 \notin Promise!Releases(v, i)
  <2>1. Promise!Releases(v, i) = {} <=>
          Promise!Releases(w, i) = {} /\ n + 1 \notin Promise!Releases(v, i)
    <3>1. Promise!Releases(v, i) \subseteq 1..(n + 1) /\ Promise!Releases(w, i) \subseteq 1..n
      BY <1>1, <1>3 DEF Promise!Releases
    <3>2. 1..n \subseteq 1..(n + 1)
      BY <1>1
    <3> QED BY <1>6, <1>7, <3>1, <3>2
  <2> QED BY <1>4, <2>1 DEF Promise!Standing
<1>9. n + 1 \in Promise!Standing(v) <=> n + 1 \in Promise!Triggers(v)
  <2>1. \A k \in 1..(n + 1) : ~(k >= n + 1 + Promise!QuietRun)
    BY <1>1, PromiseNumbers
  <2>2. Promise!Releases(v, n + 1) = {}
    BY <1>3, <2>1 DEF Promise!Releases
  <2> QED BY <2>2 DEF Promise!Standing
<1> QED BY <1>1, <1>2, <1>3, <1>4, <1>5, <1>8, <1>9

\* c overloaded windows end the history, and no more.
OverloadedAtEnd(w, c) ==
  /\ c \in 0..Len(w)
  /\ \A j \in (Len(w) - c + 1)..Len(w) : w[j].overload
  /\ c < Len(w) => ~w[Len(w) - c].overload

\* q quiet windows end the history, and no more: not enough to end an intervention.
QuietAtEnd(w, q) ==
  /\ q \in Nat /\ q < Len(w) /\ q < Promise!QuietRun
  /\ \A j \in (Len(w) - q + 1)..Len(w) : Promise!Quiet(w, j)
  /\ ~Promise!Quiet(w, Len(w) - q)

\* f is the largest requirement of the triggers that stand, or the minimum.
LargestStanding(w, f) ==
  /\ f = SafetyMin \/ \E i \in Promise!Standing(w) : w[i].required = f
  /\ \A i \in Promise!Standing(w) : w[i].required <= f

\* Counting overloaded windows tells when a window completes the persistence.
LEMMA TriggerIsCounted ==
  ASSUME NEW w \in Seq(WindowFacts), NEW x \in WindowFacts,
         NEW n, n = Len(w), NEW v, v = Append(w, x),
         NEW c, OverloadedAtEnd(w, c), NEW d, d = IF x.overload THEN c + 1 ELSE 0
  PROVE  /\ OverloadedAtEnd(v, d)
         /\ n + 1 \in Promise!Triggers(v) <=> x.overload /\ d >= PersistenceWindows
<1>1. /\ n \in Nat /\ Len(v) = n + 1 /\ DOMAIN v = 1..(n + 1)
      /\ (\A i \in 1..n : v[i] = w[i]) /\ v[n + 1] = x
  BY HistoryGrows
<1>2. /\ c \in 0..n /\ (\A j \in (n - c + 1)..n : w[j].overload)
      /\ (c < n => ~w[n - c].overload)
  BY DEF OverloadedAtEnd
<1>3. c \in Nat /\ d \in Nat /\ PersistenceWindows \in Nat \ {0}
  BY <1>1, <1>2, PromiseNumbers
<1>6. n + 1 \in Promise!Triggers(v) <=>
        /\ n + 1 \in DOMAIN v /\ n + 1 >= PersistenceWindows
        /\ \A j \in ((n + 1) - PersistenceWindows + 1)..(n + 1) : v[j].overload
  <2>1. n + 1 \in Nat
    BY <1>1
  <2> QED BY <2>1, InTriggers, Zenon
<1>4. CASE ~x.overload
  <2>1. OverloadedAtEnd(v, d)
    BY <1>1, <1>3, <1>4 DEF OverloadedAtEnd
  <2>2. n + 1 \in Promise!Triggers(v) => n + 1 \in ((n + 1) - PersistenceWindows + 1)..(n + 1)
    BY <1>1, <1>3
  <2>3. n + 1 \notin Promise!Triggers(v)
    <3> SUFFICES ASSUME n + 1 \in Promise!Triggers(v) PROVE FALSE
      OBVIOUS
    <3>1. v[n + 1].overload
      BY <1>6, <2>2, Zenon
    <3> QED BY <1>1, <1>4, <3>1
  <2> QED BY <1>4, <2>1, <2>3
<1>5. CASE x.overload
  <2>1. d = c + 1
    BY <1>5
  <2>2. ASSUME NEW j \in ((n + 1) - d + 1)..(n + 1) PROVE v[j].overload
    <3>1. CASE j = n + 1
      BY <1>1, <1>5, <3>1
    <3>2. CASE j # n + 1
      <4>1. j \in (n - c + 1)..n /\ j \in 1..n
        BY <1>1, <1>2, <1>3, <2>1, <3>2
      <4> QED BY <1>1, <1>2, <4>1
    <3> QED BY <3>1, <3>2
  <2>3. ASSUME d < n + 1 PROVE ~v[(n + 1) - d].overload
    <3>1. c < n /\ (n + 1) - d = n - c /\ n - c \in 1..n
      BY <1>1, <1>2, <1>3, <2>1, <2>3
    <3> QED BY <1>1, <1>2, <3>1
  <2>4. d \in 0..(n + 1)
    BY <1>1, <1>2, <2>1
  <2>5. OverloadedAtEnd(v, d)
    BY <1>1, <2>2, <2>3, <2>4 DEF OverloadedAtEnd
  <2>6. ASSUME d >= PersistenceWindows PROVE n + 1 \in Promise!Triggers(v)
    <3>1. n + 1 >= PersistenceWindows /\ n + 1 \in 1..(n + 1)
      BY <1>1, <1>3, <2>4, <2>6
    <3>2. \A j \in ((n + 1) - PersistenceWindows + 1)..(n + 1) : j \in ((n + 1) - d + 1)..(n + 1)
      BY <1>1, <1>3, <2>6
    <3>3. n + 1 \in DOMAIN v
      BY <1>1, <3>1
    <3> QED BY <1>6, <2>2, <3>1, <3>2, <3>3, Zenon
  <2>7. ASSUME n + 1 \in Promise!Triggers(v), d < PersistenceWindows PROVE FALSE
    <3>1. /\ n + 1 >= PersistenceWindows
          /\ \A j \in ((n + 1) - PersistenceWindows + 1)..(n + 1) : v[j].overload
      BY <1>6, <2>7, Zenon
    <3>2. d < n + 1 /\ (n + 1) - d \in ((n + 1) - PersistenceWindows + 1)..(n + 1)
      BY <1>1, <1>3, <2>7, <3>1
    <3> QED BY <2>3, <3>1, <3>2
  <2> QED BY <1>3, <1>5, <2>5, <2>6, <2>7
<1> QED BY <1>4, <1>5

\* A window that is not quiet ends no intervention, and starts a count of quiet ones.
LEMMA BusyWindow ==
  ASSUME NEW w \in Seq(WindowFacts), NEW x \in WindowFacts,
         NEW n, n = Len(w), NEW v, v = Append(w, x), ~Promise!Quiet(v, n + 1)
  PROVE  /\ QuietAtEnd(v, 0)
         /\ \A i \in 1..n : i \in Promise!Standing(v) <=> i \in Promise!Standing(w)
<1>1. n \in Nat /\ Len(v) = n + 1 /\ Promise!QuietRun \in Nat \ {0}
  BY HistoryGrows, PromiseNumbers
<1>2. QuietAtEnd(v, 0)
  <2>1. 0 \in Nat /\ 0 < Len(v) /\ 0 < Promise!QuietRun /\ Len(v) - 0 = n + 1
    BY <1>1
  <2>2. \A j \in (Len(v) - 0 + 1)..Len(v) : FALSE
    BY <1>1
  <2> QED BY <2>1, <2>2 DEF QuietAtEnd
<1>3. ASSUME NEW i \in 1..n PROVE n + 1 \notin Promise!Releases(v, i)
  <2>1. n + 1 \in ((n + 1) - Promise!QuietRun + 1)..(n + 1)
    BY <1>1
  <2> QED BY <1>1, <2>1, InReleases
<1> QED BY <1>2, <1>3, HistoryGrows

\* A quiet window ends every intervention when it completes the quiet run, and
\* none before that.
LEMMA QuietWindow ==
  ASSUME NEW w \in Seq(WindowFacts), NEW x \in WindowFacts,
         NEW n, n = Len(w), NEW v, v = Append(w, x), Promise!Quiet(v, n + 1),
         NEW q, QuietAtEnd(w, q)
  PROVE  /\ q + 1 < Promise!QuietRun =>
              QuietAtEnd(v, q + 1) /\ Promise!Standing(v) = Promise!Standing(w)
         /\ q + 1 >= Promise!QuietRun => Promise!Standing(v) = {}
<1>1. /\ n \in Nat /\ Len(v) = n + 1 /\ Promise!QuietRun \in Nat \ {0}
      /\ DOMAIN v = 1..(n + 1) /\ DOMAIN w = 1..n
  BY HistoryGrows, PromiseNumbers
<1>2. /\ q \in Nat /\ q < n /\ q < Promise!QuietRun
      /\ (\A j \in (n - q + 1)..n : Promise!Quiet(w, j)) /\ ~Promise!Quiet(w, n - q)
  BY DEF QuietAtEnd
<1>3. \A i \in 1..n : Promise!Quiet(v, i) <=> Promise!Quiet(w, i)
  BY HistoryGrows
<1>4. n - q \in 1..n /\ ~Promise!Quiet(v, n - q)
  BY <1>1, <1>2, <1>3
<1>5. ASSUME NEW j \in (n - q + 1)..(n + 1) PROVE Promise!Quiet(v, j)
  <2>1. j = n + 1 \/ (j \in (n - q + 1)..n /\ j \in 1..n)
    BY <1>1, <1>2
  <2> QED BY <1>2, <1>3, <2>1
<1>6. n + 1 \notin Promise!Standing(v)
  BY DEF Promise!Standing, Promise!Quiet
<1>7. Promise!Standing(v) \subseteq 1..(n + 1) /\ Promise!Standing(w) \subseteq 1..n
  BY <1>1 DEF Promise!Standing, Promise!Triggers
<1>8. \A i \in Promise!Standing(v) : i \in 1..n
  BY <1>1, <1>6, <1>7
<1>9. ASSUME q + 1 < Promise!QuietRun
      PROVE  QuietAtEnd(v, q + 1) /\ Promise!Standing(v) = Promise!Standing(w)
  <2>1. /\ q + 1 \in Nat /\ q + 1 < Len(v) /\ Len(v) - (q + 1) = n - q
        /\ Len(v) - (q + 1) + 1 = n - q + 1
    BY <1>1, <1>2
  <2>2. QuietAtEnd(v, q + 1)
    BY <1>1, <1>4, <1>5, <1>9, <2>1 DEF QuietAtEnd
  <2>3. n - q \in ((n + 1) - Promise!QuietRun + 1)..(n + 1)
    BY <1>1, <1>2, <1>9
  <2>4. ASSUME NEW i \in 1..n PROVE n + 1 \notin Promise!Releases(v, i)
    BY <1>1, <1>4, <2>3, InReleases
  <2>5. \A i \in 1..n : i \in Promise!Standing(v) <=> i \in Promise!Standing(w)
    BY <2>4, HistoryGrows
  <2> QED BY <1>7, <1>8, <2>2, <2>5
<1>10. ASSUME q + 1 >= Promise!QuietRun, NEW i \in Promise!Standing(v) PROVE FALSE
  <2>1. i \in 1..n /\ i \in Promise!Standing(w) /\ n + 1 \notin Promise!Releases(v, i)
    BY <1>8, <1>10, HistoryGrows
  <2>2. ~Promise!Quiet(w, i)
    BY <2>1 DEF Promise!Standing, Promise!Quiet
  <2>3. q + 1 = Promise!QuietRun /\ ~(i \in (n - q + 1)..n)
    BY <1>1, <1>2, <1>10, <2>2
  <2>4. n + 1 >= i + Promise!QuietRun
    <3>1. i \in Int /\ i <= n /\ n - q + 1 \in Int
      BY <1>1, <1>2, <2>1
    <3>2. i \in (n - q + 1)..n <=> n - q + 1 <= i
      BY <1>1, <3>1
    <3>3. i < n - q + 1
      BY <2>3, <3>1, <3>2
    <3> QED BY <1>1, <1>2, <2>3, <3>1, <3>3
  <2>5. (n + 1) - Promise!QuietRun + 1 = n - q + 1 /\ n + 1 \in DOMAIN v
    <3>1. Promise!QuietRun = q + 1 /\ q \in Nat
      BY <1>2, <2>3
    <3>2. n \in Nat /\ DOMAIN v = 1..(n + 1)
      BY <1>1
    <3>3. n + 1 \in 1..(n + 1)
      BY <3>2
    <3> QED BY <3>1, <3>2, <3>3
  <2>6. n + 1 \in Nat /\ i \in Nat
    BY <1>1, <2>1
  <2>7. \A j \in ((n + 1) - Promise!QuietRun + 1)..(n + 1) : Promise!Quiet(v, j)
    <3> TAKE j \in ((n + 1) - Promise!QuietRun + 1)..(n + 1)
    <3>1. j \in (n - q + 1)..(n + 1)
      BY <2>5, Zenon
    <3> QED BY <1>5, <3>1, Zenon
  <2>8. n + 1 \in Promise!Releases(v, i)
    BY <2>4, <2>5, <2>6, <2>7, InReleases, Zenon
  <2> QED BY <2>1, <2>8
<1> QED BY <1>9, <1>10

\* What a standing intervention requires is a number.
LEMMA StandingIsTyped ==
  ASSUME NEW w \in Seq(WindowFacts)
  PROVE  \A i \in Promise!Standing(w) : i \in 1..Len(w) /\ w[i].required \in Int
<1>1. ListedReplicas(SafetyLookup) \subseteq Int
  BY SafetyNumbers, TableGrows DEF ListedReplicas
<1>2. \A i \in Promise!Standing(w) : i \in 1..Len(w)
  BY LenProperties DEF Promise!Standing, Promise!Triggers
<1>3. \A i \in 1..Len(w) : w[i] \in WindowFacts
  BY ElementOfSeq
<1> QED BY <1>1, <1>2, <1>3 DEF WindowFacts

\* The promised floor is the largest standing requirement.
LEMMA PromisedFloorIs ==
  ASSUME NEW w \in Seq(WindowFacts), NEW f \in Int, f >= SafetyMin, LargestStanding(w, f)
  PROVE  f = Promise!PromisedFloor(w)
<1> DEFINE T == {SafetyMin} \cup {w[i].required : i \in Promise!Standing(w)}
<1>1. T \subseteq Int
  <2>1. SafetyMin \in Int
    BY SafetyNumbers
  <2> QED BY <2>1, StandingIsTyped
<1>2. f \in T /\ \A y \in T : y <= f
  BY DEF LargestStanding
<1>3. Max(T) = f
  <2> HIDE DEF T
  <2> QED BY <1>1, <1>2, MaxIs
<1>4. Promise!PromisedFloor(w) = Max(T)
  BY PromiseMax DEF Promise!PromisedFloor
<1> QED BY <1>3, <1>4

\* The quiet windows the hold has counted down.
QuietSoFar == IF HoldWindows = 0 THEN 0 ELSE HoldWindows - holdWindows

\* The engine's counters say the same as its history: the run of overloaded
\* windows, the interventions that stand, the largest requirement, the quiet run.
PromiseInvariant ==
  /\ OverloadedAtEnd(windows, overloadWindows)
  /\ active <=> Promise!Standing(windows) # {}
  /\ LargestStanding(windows, floor)
  /\ active => QuietAtEnd(windows, QuietSoFar)

\* A new engine has seen nothing and promises nothing.
LEMMA PromiseInit == SafetyInit => PromiseInvariant /\ Promise!Init
<1> SUFFICES ASSUME SafetyInit PROVE PromiseInvariant /\ Promise!Init
  OBVIOUS
<1>1. windows = << >> /\ Len(windows) = 0 /\ DOMAIN windows = {}
  BY DEF SafetyInit
<1>2. Promise!Standing(windows) = {}
  BY <1>1 DEF Promise!Standing, Promise!Triggers
<1>3. OverloadedAtEnd(windows, overloadWindows)
  BY <1>1 DEF SafetyInit, OverloadedAtEnd
<1> QED BY <1>2, <1>3 DEF SafetyInit, PromiseInvariant, LargestStanding, Promise!Init

\* Every accepted observation moves the floor as promised.
LEMMA EvaluateKeepsPromise ==
  ASSUME SafetyInvariant, PromiseInvariant,
         NEW demand \in Demands, NEW ready \in ReadyCounts, NEW predictive,
         Evaluate(demand, ready, predictive)
  PROVE  PromiseInvariant' /\ Promise!Next
<1>1. PICK x : x = [overload |-> Overloaded(SafetyLookup, demand, ready),
                    needed |-> Required(demand) > predictive, required |-> Required(demand)]
  OBVIOUS
<1>2. /\ windows' = Append(windows, x) /\ x \in WindowFacts /\ windows \in Seq(WindowFacts)
      /\ x.required = Required(demand) /\ x.required \in Nat
      /\ x.needed = (Required(demand) > predictive)
      /\ x.overload = Overloaded(SafetyLookup, demand, ready)
  <2>1. /\ x.required = Required(demand) /\ x.needed = (Required(demand) > predictive)
        /\ x.overload = Overloaded(SafetyLookup, demand, ready)
    BY <1>1
  <2>2. x \in WindowFacts /\ Required(demand) \in Nat
    BY <1>1, EvaluableFacts DEF Evaluate, WindowFacts
  <2>3. windows' = Append(windows, x)
    BY <1>1 DEF Evaluate
  <2> QED BY <2>1, <2>2, <2>3 DEF SafetyInvariant, SafetyTypeOK
<1>3. PICK n, v : n = Len(windows) /\ v = windows'
  OBVIOUS
<1>4. /\ n \in Nat /\ DOMAIN windows = 1..n /\ DOMAIN v = 1..(n + 1)
      /\ v \in Seq(WindowFacts) /\ Len(v) = n + 1
      /\ (\A i \in 1..n : v[i] = windows[i]) /\ v[n + 1] = x
      /\ n + 1 \in Promise!Standing(v) <=> n + 1 \in Promise!Triggers(v)
  <2>1. n = Len(windows) /\ v = Append(windows, x)
    BY <1>2, <1>3
  <2>2. n + 1 \in Promise!Standing(v) <=> n + 1 \in Promise!Triggers(v)
    BY <1>2, <2>1, HistoryGrows, Zenon
  <2>3. n \in Nat /\ DOMAIN windows = 1..n /\ v \in Seq(WindowFacts) /\ Len(v) = n + 1
    BY <1>2, <2>1, HistoryGrows
  <2>4. DOMAIN v = 1..(n + 1)
    BY <1>2, <2>1, HistoryGrows
  <2>5. (\A i \in 1..n : v[i] = windows[i]) /\ v[n + 1] = x
    BY <1>2, <2>1, HistoryGrows
  <2> QED BY <2>2, <2>3, <2>4, <2>5, Zenon
<1>5. /\ holdWindows \in 0..HoldWindows /\ floor \in Nat /\ floor >= SafetyMin
      /\ active \in BOOLEAN /\ (~active => floor = SafetyMin /\ holdWindows = 0)
      /\ HoldWindows \in Nat /\ SafetyMin \in Nat
  BY SafetyNumbers DEF SafetyInvariant, SafetyTypeOK
<1>6. /\ active <=> Promise!Standing(windows) # {}
      /\ LargestStanding(windows, floor) /\ (active => QuietAtEnd(windows, QuietSoFar))
  BY DEF PromiseInvariant
<1>7. /\ OverloadedAtEnd(v, overloadWindows')
      /\ n + 1 \in Promise!Triggers(v) <=> Triggered(demand, ready)
  <2>1. overloadWindows' = IF x.overload THEN overloadWindows + 1 ELSE 0
    BY <1>2 DEF Evaluate, OverloadRun
  <2>2. Triggered(demand, ready) <=> x.overload /\ overloadWindows' >= PersistenceWindows
    BY <1>2 DEF Evaluate, Triggered
  <2>3. OverloadedAtEnd(windows, overloadWindows)
    BY DEF PromiseInvariant
  <2> QED BY <1>2, <1>3, <2>1, <2>2, <2>3, TriggerIsCounted
<1>8. /\ Promise!Standing(v) \subseteq 1..(n + 1)
      /\ Promise!Standing(windows) \subseteq 1..n
  BY <1>4 DEF Promise!Standing, Promise!Triggers
<1>9. \A i \in 1..(n + 1) : i \in 1..n \/ i = n + 1
  BY <1>4
<1>10. Promise!Quiet(v, n + 1) <=> ~(Required(demand) > predictive) /\ ~Triggered(demand, ready)
  BY <1>2, <1>4, <1>7 DEF Promise!Quiet
<1>11. floor' \in Nat /\ floor' >= SafetyMin
  BY EvaluateEffect DEF SafetyInvariant
<1>12. SUFFICES /\ active' \in BOOLEAN
                /\ active' <=> Promise!Standing(v) # {}
                /\ LargestStanding(v, floor')
                /\ active' => QuietAtEnd(v, QuietSoFar')
  <2>1. active' = (Promise!Standing(v) # {})
    BY <1>12
  <2>2. floor' = Promise!PromisedFloor(v)
    BY <1>4, <1>11, <1>12, PromisedFloorIs
  <2>3. Promise!Observe(x)
    BY <1>2, <1>3, <2>1, <2>2 DEF Promise!Observe
  <2>4. Promise!Next
    BY <1>2, <2>3 DEF Promise!Next
  <2> QED BY <1>3, <1>7, <1>12, <2>4 DEF PromiseInvariant
<1>13. ASSUME Promise!Standing(v) = Promise!Standing(windows) PROVE LargestStanding(v, floor)
  BY <1>4, <1>6, <1>8, <1>13 DEF LargestStanding
<1>14. CASE Triggered(demand, ready)
  <2>1. /\ floor' = IF floor >= x.required THEN floor ELSE x.required
        /\ holdWindows' = HoldWindows /\ active' = TRUE
    BY <1>2, <1>5, <1>14, MaxOfTwo DEF Evaluate, Intervene
  <2>2. QuietSoFar' = 0
    BY <1>5, <2>1 DEF QuietSoFar
  <2>3. /\ QuietAtEnd(v, 0)
        /\ \A i \in 1..n : i \in Promise!Standing(v) <=> i \in Promise!Standing(windows)
    BY <1>2, <1>3, <1>10, <1>14, BusyWindow
  <2>4. n + 1 \in Promise!Standing(v)
    BY <1>4, <1>7, <1>14
  <2>5. ASSUME NEW i \in Promise!Standing(v) PROVE v[i].required <= floor'
    <3>1. CASE i = n + 1
      BY <1>2, <1>4, <1>5, <2>1, <3>1
    <3>2. CASE i # n + 1
      <4>1. i \in 1..n /\ i \in Promise!Standing(windows)
        BY <1>4, <1>8, <2>3, <3>2
      <4>2. v[i].required <= floor /\ v[i].required \in Int
        BY <1>2, <1>4, <1>6, <4>1, StandingIsTyped DEF LargestStanding
      <4> QED BY <1>2, <1>5, <2>1, <4>2
    <3> QED BY <3>1, <3>2
  <2>6. floor' = SafetyMin \/ \E i \in Promise!Standing(v) : v[i].required = floor'
    <3>1. CASE floor >= x.required
      <4>1. CASE floor = SafetyMin
        BY <2>1, <3>1, <4>1
      <4>2. CASE floor # SafetyMin
        <5>1. PICK i \in Promise!Standing(windows) : windows[i].required = floor
          BY <1>6, <4>2 DEF LargestStanding
        <5>2. i \in Promise!Standing(v) /\ v[i].required = floor
          BY <1>4, <1>8, <2>3, <5>1
        <5> QED BY <2>1, <3>1, <5>2
      <4> QED BY <4>1, <4>2
    <3>2. CASE ~(floor >= x.required)
      BY <1>4, <2>1, <2>4, <3>2
    <3> QED BY <3>1, <3>2
  <2> QED BY <2>1, <2>2, <2>3, <2>4, <2>5, <2>6 DEF LargestStanding
<1>15. CASE ~Triggered(demand, ready) /\ active /\ Required(demand) > predictive
  <2>1. floor' = floor /\ holdWindows' = HoldWindows /\ active' = TRUE
    BY <1>15 DEF Evaluate, Extend
  <2>2. QuietSoFar' = 0
    BY <1>5, <2>1 DEF QuietSoFar
  <2>3. /\ QuietAtEnd(v, 0)
        /\ \A i \in 1..n : i \in Promise!Standing(v) <=> i \in Promise!Standing(windows)
    BY <1>2, <1>3, <1>10, <1>15, BusyWindow
  <2>4. n + 1 \notin Promise!Standing(v)
    BY <1>4, <1>7, <1>15
  <2>5. Promise!Standing(v) = Promise!Standing(windows)
    BY <1>8, <1>9, <2>3, <2>4
  <2> QED BY <1>6, <1>13, <1>15, <2>1, <2>2, <2>3, <2>5
<1>16. CASE ~Triggered(demand, ready) /\ active /\ ~(Required(demand) > predictive)
  <2>1. /\ QuietAtEnd(windows, QuietSoFar) /\ QuietSoFar \in Nat
        /\ QuietSoFar < Promise!QuietRun
    BY <1>6, <1>16 DEF QuietAtEnd
  <2>2. /\ QuietSoFar + 1 < Promise!QuietRun =>
             QuietAtEnd(v, QuietSoFar + 1) /\ Promise!Standing(v) = Promise!Standing(windows)
        /\ QuietSoFar + 1 >= Promise!QuietRun => Promise!Standing(v) = {}
    <3> HIDE DEF QuietSoFar
    <3> QED BY <1>2, <1>3, <1>10, <1>16, <2>1, QuietWindow
  <2>3. holdWindows' = IF 0 >= holdWindows - 1 THEN 0 ELSE holdWindows - 1
    <3>1. holdWindows' = Max({0, holdWindows - 1})
      BY <1>16 DEF Evaluate, CountDown
    <3> QED BY <1>5, <3>1, MaxOfTwo
  <2>4. IF holdWindows' = 0 THEN floor' = SafetyMin /\ active' = FALSE
                            ELSE floor' = floor /\ active' = active
    BY <1>16 DEF Evaluate, CountDown
  <2>5. Promise!QuietRun = IF HoldWindows = 0 THEN 1 ELSE HoldWindows
    BY PromiseNumbers
  <2>6. CASE holdWindows' = 0
    <3>1. QuietSoFar + 1 >= Promise!QuietRun
      BY <1>5, <2>1, <2>3, <2>5, <2>6 DEF QuietSoFar
    <3> QED BY <2>2, <2>4, <2>6, <3>1 DEF LargestStanding
  <2>7. CASE holdWindows' # 0
    <3>1. QuietSoFar + 1 < Promise!QuietRun /\ QuietSoFar' = QuietSoFar + 1
      BY <1>5, <2>1, <2>3, <2>5, <2>7 DEF QuietSoFar
    <3> QED BY <1>6, <1>13, <1>16, <2>2, <2>4, <2>7, <3>1
  <2> QED BY <2>6, <2>7
<1>17. CASE ~Triggered(demand, ready) /\ ~active
  <2>1. floor' = floor /\ active' = active
    BY <1>17 DEF Evaluate
  <2>2. \A i \in 1..n : i \in Promise!Standing(v) => i \in Promise!Standing(windows)
    BY <1>2, <1>3, HistoryGrows
  <2>3. n + 1 \notin Promise!Standing(v) /\ Promise!Standing(windows) = {}
    BY <1>4, <1>6, <1>7, <1>17
  <2>4. Promise!Standing(v) = Promise!Standing(windows)
    BY <1>8, <1>9, <2>2, <2>3
  <2> QED BY <1>5, <1>6, <1>13, <1>17, <2>1, <2>4
<1> QED BY <1>14, <1>15, <1>16, <1>17

\* A refused call moves nothing the promise sees.
LEMMA PromiseUnmoved ==
  ASSUME PromiseInvariant, UNCHANGED <<engineVars, windows>>
  PROVE  PromiseInvariant' /\ UNCHANGED <<windows, floor, active>>
BY DEF engineVars, PromiseInvariant, QuietSoFar

\* The engine's counters implement the promise made on the history of windows,
\* for every persistence, hold and table: an intervention starts after exactly
\* the persistence, keeps the largest requirement, and ends after exactly the hold.
THEOREM SafetyKeepsPromise == SafetySpec => KeepsPromise
<1>1. SafetyInit => SafetyInvariant /\ PromiseInvariant /\ Promise!Init
  BY SafetyInvariantInit, PromiseInit
<1>2. SafetyInvariant /\ PromiseInvariant /\ [SafetyNext]_safetyVars
        => PromiseInvariant' /\ [Promise!Next]_<<windows, floor, active>>
  <2> SUFFICES ASSUME SafetyInvariant, PromiseInvariant, [SafetyNext]_safetyVars
               PROVE  PromiseInvariant' /\ [Promise!Next]_<<windows, floor, active>>
    OBVIOUS
  <2>1. ASSUME NEW demand \in Demands, NEW ready \in ReadyCounts, NEW predictive,
               Evaluate(demand, ready, predictive)
        PROVE  PromiseInvariant' /\ Promise!Next
    BY <2>1, EvaluateKeepsPromise
  <2>2. ASSUME NEW demand, NEW ready, NEW predictive, EvaluateError(demand, ready, predictive)
        PROVE  PromiseInvariant' /\ UNCHANGED <<windows, floor, active>>
    BY <2>2, PromiseUnmoved DEF EvaluateError
  <2>3. CASE UNCHANGED safetyVars
    BY <2>3, PromiseUnmoved DEF safetyVars
  <2> QED BY <2>1, <2>2, <2>3 DEF SafetyNext
<1> QED BY <1>1, <1>2, SafetyInvariantStep, PTL DEF SafetySpec, KeepsPromise, Promise!Spec
=============================================================================
