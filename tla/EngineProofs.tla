---------------------------- MODULE EngineProofs ----------------------------
(***************************************************************************)
(* The controller's engines and the Python reimplementations a run is repla *)
(* with: equivalent for every configuration the controller accepts and on   *)
(* every sequence of rates and of observations.                             *)
(***************************************************************************)
EXTENDS Engines, DecisionProofs

(* The Python policy engine.                                               *)

\* The window is a whole number of samples.
LEMMA WindowSamplesNat == WindowSamples \in Nat
BY PolicyConfigAssumption DEF WindowSamples

\* The Python engine takes every configuration the controller takes: no run can
\* be executed whose decisions could not be recomputed (PolicyConfig.validate).
THEOREM ConfigIsAccepted == RefAcceptsConfig
<1>1. \A i, j \in DOMAIN CapacityLookup :
        i < j => /\ CapacityLookup[i].replicas <= CapacityLookup[j].replicas
                 /\ CapacityLookup[i].rps <= CapacityLookup[j].rps
  <2>1. /\ \A i \in DOMAIN CapacityLookup :
             CapacityLookup[i].replicas \in Nat \ {0} /\ CapacityLookup[i].rps \in Nat
        /\ \A i, j \in DOMAIN CapacityLookup :
             i < j => /\ CapacityLookup[i].replicas < CapacityLookup[j].replicas
                      /\ CapacityLookup[i].rps < CapacityLookup[j].rps
    BY PolicyConfigAssumption, TableGrows
  <2> QED BY <2>1
<1>2. /\ CapacityLookup[1].replicas <= MinReplicas
      /\ MaxReplicas <= CapacityLookup[Len(CapacityLookup)].replicas
  BY PolicyConfigAssumption DEF IsCapacityLookup
<1> QED BY <1>1, <1>2, PolicyConfigAssumption DEF RefAcceptsConfig

\* Both bound a count alike.
LEMMA SameBound ==
  ASSUME NEW raw \in Int
  PROVE  RefBounded(raw) = Bounded(raw)
<1>1. Max({MinReplicas, raw}) = IF MinReplicas >= raw THEN MinReplicas ELSE raw
  BY BoundsAreInt, MaxOfTwo
<1> DEFINE m == Max({MinReplicas, raw})
<1>2. m \in Int
  BY <1>1, BoundsAreInt
<1> HIDE DEF m
<1>3. Min({MaxReplicas, m}) = IF MaxReplicas <= m THEN MaxReplicas ELSE m
  BY <1>2, BoundsAreInt, MinOfTwo
<1> QED BY <1>1, <1>2, <1>3, BoundsAreInt DEF RefBounded, Bounded, m

\* Both take the same step: an up limit of 0 in Go is the None of Python.
LEMMA SameStep ==
  ASSUME NEW p \in Replicas, NEW s \in Replicas
  PROVE  RefMove(p, s) = Step(p, s)
<1>1. p \in Nat /\ s \in Nat /\ p + MaxScaleUpStep \in Int /\ p - MaxScaleDownStep \in Int
  BY BoundsAreInt DEF Replicas
<1>2. Min({s, p + MaxScaleUpStep}) = IF s <= p + MaxScaleUpStep THEN s ELSE p + MaxScaleUpStep
  BY <1>1, MinOfTwo
<1>3. Max({s, p - MaxScaleDownStep}) =
        IF s >= p - MaxScaleDownStep THEN s ELSE p - MaxScaleDownStep
  BY <1>1, MaxOfTwo
<1> QED BY <1>1, <1>2, <1>3, BoundsAreInt DEF RefMove, RefUpTo, Step

\* Both take the maximum over the same window, although Go adds the newest
\* sample to the window and Python relies on the slice to hold it.
LEMMA SameWindow ==
  ASSUME NEW h \in Seq(Replicas), h # << >>
  PROVE  RefStabilized(h) = Stabilized(h)
<1>1. Len(h) \in Nat /\ Len(h) # 0 /\ DOMAIN h = 1..Len(h)
  BY EmptySeq
<1>2. CASE WindowSamples > 0
  <2>1. Len(h) > Len(h) - WindowSamples
    BY <1>1, <1>2, WindowSamplesNat
  <2>2. h[Len(h)] \in WindowOf(h, WindowSamples)
    BY <1>1, <2>1 DEF WindowOf
  <2>3. {h[Len(h)]} \cup WindowOf(h, WindowSamples) = WindowOf(h, WindowSamples)
    BY <2>2
  <2> QED BY <1>2, <2>3 DEF RefStabilized, Stabilized
<1>3. CASE ~ (WindowSamples > 0)
  <2>1. WindowSamples = 0
    BY <1>3, WindowSamplesNat
  <2>2. WindowOf(h, WindowSamples) = {}
    BY <1>1, <2>1 DEF WindowOf
  <2>3. {h[Len(h)]} \cup WindowOf(h, WindowSamples) = {h[Len(h)]}
    BY <2>2
  <2>4. h[Len(h)] \in Nat
    BY <1>1, ElementOfSeq, BoundsAreInt DEF Replicas
  <2>5. Max({h[Len(h)]}) = h[Len(h)]
    BY <2>4, MaxOfTwo
  <2> QED BY <1>3, <2>3, <2>5 DEF RefStabilized, Stabilized
<1> QED BY <1>2, <1>3

\* The lookups are written independently and compare with the same slack.
LEMMA SameRaw ==
  ASSUME NEW w \in Workloads
  PROVE  RefRaw(w) = RawReplicas(w)
<1>1. w \in Int /\ SafetyFactor \in Nat \ {0}
  BY PolicyInputAssumption, PolicyConfigAssumption
<1>2. w < 0 <=> w * SafetyFactor < 0
  BY <1>1
<1> QED BY <1>2 DEF RefRaw, RawReplicas, RequiredReplicas, Fitting

\* The engines start alike.
LEMMA LockstepStart == LockstepInit => PolicyTypeOK /\ EnginesAgree
<1> SUFFICES ASSUME LockstepInit PROVE PolicyTypeOK /\ EnginesAgree
  OBVIOUS
<1>1. PolicyTypeOK
  BY PolicyTypeInit DEF LockstepInit
<1> QED BY <1>1 DEF LockstepInit, PolicyInit, RefInit, EnginesAgree

\* From equal states the two engines take the same step.
LEMMA LockstepStep ==
  PolicyTypeOK /\ EnginesAgree /\ [LockstepNext]_<<policyVars, refVars>>
    => (PolicyTypeOK /\ EnginesAgree)'
<1> SUFFICES ASSUME PolicyTypeOK, EnginesAgree, [LockstepNext]_<<policyVars, refVars>>
             PROVE  PolicyTypeOK' /\ EnginesAgree'
  OBVIOUS
<1>1. ASSUME NEW w \in Workloads, Decide(w), RefDecide(w)
      PROVE  EnginesAgree'
  <2> DEFINE b == Bounded(RawReplicas(w))
             s == Stabilized(history')
  <2>1. command \in Replicas /\ b \in Replicas /\ s \in Replicas
        /\ history' \in Seq(Replicas) /\ history' # << >>
        /\ decision' = DecisionOf(b, s, command) /\ command' = Step(command, s)
    BY <1>1, DecideEffect DEF PolicyTypeOK
  <2>2. RawReplicas(w) \in Int
    BY <1>1, LookupIsListed, BoundsAreInt, PolicyInputAssumption DEF RawReplicas, Decide
  <2>3. RefBounded(RawReplicas(w)) = b
    BY <2>2, SameBound
  <2>4. boundedHistory' = history' /\ commanded = command /\ decisionIndex' = seq'
    BY <1>1, <2>3, SameRaw DEF RefDecide, Decide, EnginesAgree
  <2>5. RefStabilized(history') = s
    BY <2>1, SameWindow
  <2>6. RefMove(command, s) = Step(command, s)
    BY <2>1, SameStep
  <2> DEFINE m == Step(command, s)
  <2>7. /\ commanded' = m
        /\ refDecision' =
             [returned |-> TRUE, bounded |-> b, stabilized |-> s, prior |-> command,
              commanded |-> m,
              action |-> IF m > command THEN "scale_up"
                         ELSE IF m < command THEN "scale_down" ELSE "none",
              held |-> b < command /\ m >= command]
    <3>1. Append(boundedHistory, RefBounded(RawReplicas(w))) = history'
      BY <2>3, <2>4, <1>1 DEF Decide, EnginesAgree
    <3> HIDE DEF b, s
    <3> QED BY <1>1, <2>3, <2>4, <2>5, <2>6, <3>1, SameRaw DEF RefDecide
  <2>8. refDecision' = decision'
    <3> HIDE DEF b, s
    <3> QED BY <2>1, <2>7 DEF DecisionOf, DecisionAction, Held
  <2> QED BY <2>1, <2>4, <2>7, <2>8 DEF EnginesAgree
<1>2. ASSUME NEW w \in Workloads, DecideError(w), RefDecideError(w)
      PROVE  EnginesAgree'
  BY <1>2 DEF DecideError, RefDecideError, EnginesAgree
<1>3. ASSUME NEW w \in Workloads PROVE ~ (Decide(w) /\ RefDecideError(w))
  BY SameRaw DEF Decide, RefDecideError
<1>4. ASSUME NEW w \in Workloads PROVE ~ (DecideError(w) /\ RefDecide(w))
  BY SameRaw DEF DecideError, RefDecide
<1>5. ASSUME UNCHANGED <<policyVars, refVars>> PROVE EnginesAgree'
  BY <1>5 DEF policyVars, refVars, EnginesAgree
<1>6. EnginesAgree'
  BY <1>1, <1>2, <1>3, <1>4, <1>5 DEF LockstepNext
<1>7. [PolicyNext]_policyVars
  BY DEF LockstepNext, PolicyNext
<1> QED BY <1>6, <1>7, PolicyTypeStep

\* For every configuration and every sequence of rates, the engine in the
\* controller and the one the forecasts were built with decide alike.
THEOREM EnginesAlwaysAgree == LockstepSpec => []EnginesAgree
BY LockstepStart, LockstepStep, PTL DEF LockstepSpec
-----------------------------------------------------------------------------
(* The policy replays of the study and of the run validation.  The argument *)
(* needs the promise of the window: the command covers it, so a stabilized  *)
(* count above the command can only be the newest sample.                   *)

\* What a queue keeps of a history.
Tracks(q, h, n) ==
  /\ q \in Seq(Replicas)
  /\ Len(q) = IF Len(h) < n THEN Len(h) ELSE n
  /\ \A i \in 1..Len(q) : q[i] = h[Len(h) - Len(q) + i]

\* The inductive invariant: every replay that goes on has the controller's
\* command and the end of its history.
ReplayTracks ==
  MaxScaleUpStep = 0 =>
    /\ \A r \in Replayers \ raised :
         /\ Tracks(samples[r], history, MaxLen(r))
         /\ replayed[r] = command
    /\ "mutations" \notin raised => row = decision

\* A replay's queue is as long as the controller's window, but never empty in
\* the study.
LEMMA MaxLenIsWindow ==
  /\ MaxLen("mutations") = IF WindowSamples = 0 THEN 1 ELSE WindowSamples
  /\ MaxLen("validator") = WindowSamples
  /\ \A r \in Replayers : MaxLen(r) \in Nat
<1>1. Max({1, WindowSamples}) = IF 1 >= WindowSamples THEN 1 ELSE WindowSamples
  BY WindowSamplesNat, MaxOfTwo
<1> QED BY <1>1, WindowSamplesNat DEF MaxLen, Replayers

\* Remembering a sample keeps the queue at the end of the history.
LEMMA RememberKeepsTrack ==
  ASSUME NEW h \in Seq(Replicas), NEW q, NEW n \in Nat, NEW b \in Replicas,
         Tracks(q, h, n)
  PROVE  Tracks(Remember(q, b, n), Append(h, b), n)
<1> DEFINE g == Append(h, b)
           a == Append(q, b)
<1>1. q \in Seq(Replicas) /\ Len(q) \in Nat /\ Len(h) \in Nat
  BY DEF Tracks
<1>2. g \in Seq(Replicas) /\ Len(g) = Len(h) + 1 /\ g[Len(g)] = b
      /\ \A i \in 1..Len(h) : g[i] = h[i]
  BY AppendProperties
<1>3. a \in Seq(Replicas) /\ Len(a) = Len(q) + 1 /\ a[Len(a)] = b
      /\ \A i \in 1..Len(q) : a[i] = q[i]
  BY <1>1, AppendProperties
<1>4. \A i \in 1..Len(a) : a[i] = g[Len(g) - Len(a) + i]
  <2> SUFFICES ASSUME NEW i \in 1..Len(a) PROVE a[i] = g[Len(g) - Len(a) + i]
    OBVIOUS
  <2> HIDE DEF a, g
  <2>1. CASE i = Len(q) + 1
    BY <1>1, <1>2, <1>3, <2>1
  <2>2. CASE i \in 1..Len(q)
    <3>1. a[i] = h[Len(h) - Len(q) + i]
      BY <1>3, <2>2 DEF Tracks
    <3>2. Len(h) - Len(q) + i \in 1..Len(h)
      BY <1>1, <2>2 DEF Tracks
    <3>3. Len(g) - Len(a) + i = Len(h) - Len(q) + i
      BY <1>1, <1>2, <1>3
    <3> QED BY <1>2, <3>1, <3>2, <3>3
  <2> QED BY <1>1, <1>3, <2>1, <2>2
<1>5. CASE Len(q) < n
  <2>1. Len(a) = IF Len(g) < n THEN Len(g) ELSE n
    BY <1>1, <1>2, <1>3, <1>5 DEF Tracks
  <2>2. Remember(q, b, n) = a
    BY <1>5 DEF Remember
  <2> QED BY <1>3, <1>4, <2>1, <2>2 DEF Tracks
<1>6. CASE ~ (Len(q) < n)
  <2> HIDE DEF a, g
  <2>1. Len(q) = n /\ n <= Len(h) /\ a # << >>
    BY <1>1, <1>3, <1>6 DEF Tracks
  <2>2. Tail(a) \in Seq(Replicas) /\ Len(Tail(a)) = n
        /\ \A i \in 1..n : Tail(a)[i] = a[i + 1]
    BY <1>1, <1>3, <2>1, HeadTailProperties
  <2>3. Len(Tail(a)) = IF Len(g) < n THEN Len(g) ELSE n
    BY <1>1, <1>2, <2>1, <2>2
  <2>4. ASSUME NEW i \in 1..n PROVE Tail(a)[i] = g[Len(g) - n + i]
    <3>1. i + 1 \in 1..Len(a)
      BY <1>3, <2>1
    <3>2. a[i + 1] = g[Len(g) - Len(a) + (i + 1)]
      BY <1>4, <3>1
    <3>3. Len(g) - Len(a) + (i + 1) = Len(g) - n + i
      BY <1>1, <1>2, <1>3, <2>1
    <3> QED BY <2>2, <3>2, <3>3
  <2>5. Remember(q, b, n) = Tail(a)
    BY <1>6 DEF Remember, a
  <2>6. Tracks(Tail(a), g, n)
    BY <2>2, <2>3, <2>4 DEF Tracks
  <2> QED BY <2>5, <2>6 DEF g
<1> QED BY <1>5, <1>6

\* An index of the queue is an index of the history's end, and back.
LEMMA EndIndex ==
  ASSUME NEW lh \in Nat, NEW lq \in Nat, lq <= lh, NEW ws \in Nat
  PROVE  /\ \A i \in 1..lq : lq <= ws =>
              lh - lq + i \in 1..lh /\ lh - lq + i > lh - ws
         /\ \A j \in 1..lh : j > lh - ws /\ (ws <= lq \/ lq = lh) =>
              j - (lh - lq) \in 1..lq /\ lh - lq + (j - (lh - lq)) = j
OBVIOUS

\* A queue that is not empty has the controller's stabilized count.
LEMMA StableIsStabilized ==
  ASSUME NEW h \in Seq(Replicas), h # << >>, NEW r \in Replayers,
         NEW q, Tracks(q, h, MaxLen(r)), q # << >>
  PROVE  Stable(q) = Stabilized(h)
<1>1. q \in Seq(Replicas) /\ Len(q) \in Nat \ {0} /\ DOMAIN q = 1..Len(q)
      /\ Len(h) \in Nat \ {0} /\ DOMAIN h = 1..Len(h)
      /\ Len(q) <= Len(h) /\ Len(q) <= MaxLen(r) /\ MaxLen(r) \in Nat
  <2>1. q \in Seq(Replicas)
    BY DEF Tracks
  <2> QED BY <2>1, MaxLenIsWindow, EmptySeq DEF Tracks
<1>a. MaxLen(r) = WindowSamples \/ (WindowSamples = 0 /\ MaxLen(r) = 1)
  BY MaxLenIsWindow DEF Replayers
<1>b. Len(q) = Len(h) \/ Len(q) = MaxLen(r)
  BY DEF Tracks
<1>c. /\ Len(q) \in Nat \ {0} /\ Len(h) \in Nat \ {0} /\ MaxLen(r) \in Nat
      /\ WindowSamples \in Nat /\ Len(q) <= Len(h) /\ Len(q) <= MaxLen(r)
  BY <1>1, WindowSamplesNat
<1>d. DOMAIN h = 1..Len(h) /\ DOMAIN q = 1..Len(q)
  BY <1>1
<1> DEFINE S == {q[i] : i \in DOMAIN q}
           T == {h[Len(h)]} \cup WindowOf(h, WindowSamples)
<1>2. \A x \in S : x \in T
  <2> SUFFICES ASSUME NEW i \in 1..Len(q) PROVE q[i] \in T
    BY <1>1
  <2>1. q[i] = h[Len(h) - Len(q) + i]
    BY DEF Tracks
  <2>2. CASE i = Len(q)
    BY <1>1, <2>1, <2>2
  <2>3. CASE i # Len(q)
    <3>1. MaxLen(r) = WindowSamples
      BY <1>a, <1>c, <2>3
    <3>2. Len(h) - Len(q) + i \in DOMAIN h /\ Len(h) - Len(q) + i > Len(h) - WindowSamples
      BY <1>c, <1>d, <3>1, EndIndex
    <3> QED BY <2>1, <3>2 DEF WindowOf
  <2> QED BY <2>2, <2>3
<1>3. \A x \in T : x \in S
  <2>1. h[Len(h)] \in S
    BY <1>1 DEF Tracks
  <2>2. ASSUME NEW j \in DOMAIN h, j > Len(h) - WindowSamples PROVE h[j] \in S
    <3> DEFINE i == j - (Len(h) - Len(q))
    <3>1. WindowSamples \in Nat /\ (WindowSamples <= Len(q) \/ Len(q) = Len(h))
      BY <1>a, <1>b, <1>c
    <3>a. j \in 1..Len(h) /\ j > Len(h) - WindowSamples
      BY <1>d, <2>2
    <3>b. \A k \in 1..Len(h) :
            k > Len(h) - WindowSamples /\ (WindowSamples <= Len(q) \/ Len(q) = Len(h)) =>
              k - (Len(h) - Len(q)) \in 1..Len(q)
              /\ Len(h) - Len(q) + (k - (Len(h) - Len(q))) = k
      BY <1>c, EndIndex
    <3>2. i \in 1..Len(q) /\ Len(h) - Len(q) + i = j
      BY <3>1, <3>a, <3>b, Zenon
    <3> HIDE DEF i
    <3>3. q[i] = h[j]
      BY <3>2 DEF Tracks
    <3> QED BY <1>1, <3>2, <3>3
  <2> QED BY <2>1, <2>2 DEF WindowOf
<1>4. S = T
  BY <1>2, <1>3
<1> QED BY <1>4 DEF Stable, Stabilized

\* The heart of the matter: when the command covers the window, the newest
\* sample decides about a rise exactly when the stabilized count does.
LEMMA SameRow ==
  ASSUME MaxScaleUpStep = 0, NEW p \in Replicas, NEW b \in Replicas, NEW s \in Replicas,
         b <= s, s = b \/ s <= p
  PROVE  ReplayMove(p, b, s) = Step(p, s) /\ ReplayRow(p, b, s) = DecisionOf(b, s, p)
<1>1. p \in Nat /\ b \in Nat /\ s \in Nat /\ p - MaxScaleDownStep \in Int /\ MaxScaleDownStep \in Nat \ {0}
  BY BoundsAreInt DEF Replicas
<1>2. Max({s, p - MaxScaleDownStep}) =
        IF s >= p - MaxScaleDownStep THEN s ELSE p - MaxScaleDownStep
  BY <1>1, MaxOfTwo
<1>3. ReplayMove(p, b, s) = Step(p, s)
  BY <1>1, <1>2 DEF ReplayMove, Step
<1>4. (IF b > p THEN "scale_up" ELSE IF s < p THEN "scale_down" ELSE "none")
        = DecisionAction(p, Step(p, s))
  BY <1>1 DEF DecisionAction, Step
<1>5. Step(p, s) >= p <=> ~(s < p)
  BY <1>1 DEF Step
<1>6. (~(b > p) /\ ~(s < p) /\ b < p) = Held(b, p, Step(p, s))
  <2> DEFINE holds == ~(b > p) /\ ~(s < p) /\ b < p
  <2>1. b < p => ~(b > p)
    BY <1>1
  <2>2. holds <=> (b < p /\ Step(p, s) >= p)
    BY <1>5, <2>1
  <2>3. holds \in BOOLEAN /\ (b < p /\ Step(p, s) >= p) \in BOOLEAN
    OBVIOUS
  <2> HIDE DEF holds
  <2>4. holds = (b < p /\ Step(p, s) >= p)
    BY <2>2, <2>3, Zenon
  <2> QED BY <2>4 DEF Held, holds
<1> QED BY <1>3, <1>4, <1>6, Zenon DEF ReplayRow, DecisionOf
-----------------------------------------------------------------------------
\* What a forecast may carry, the replays look up as the engines do.
LEMMA ReplaysLookUpAlike ==
  ASSUME NEW w \in ForecastRates
  PROVE  w \in Workloads /\ ReplayRaw(w) = RawReplicas(w)
<1>1. w \in Workloads /\ w \in Int /\ w >= 0 /\ SafetyFactor \in Nat
  BY PolicyInputAssumption, PolicyConfigAssumption DEF ForecastRates
<1>2. ~(w * SafetyFactor < 0)
  BY <1>1
<1> QED BY <1>1, <1>2 DEF ReplayRaw, RawReplicas, RequiredReplicas, Fitting

\* An accepted rate: every replay that goes on does what the controller does.
LEMMA ReplayDecideTracks ==
  ASSUME PolicyTypeOK, CoversRecentDemand, ReplayTracks, NEW w \in ForecastRates,
         Decide(w), ReplayDecide(w)
  PROVE  ReplayTracks'
<1> SUFFICES ASSUME MaxScaleUpStep = 0
             PROVE  /\ \A r \in Replayers \ raised' :
                         /\ Tracks(samples'[r], history', MaxLen(r))
                         /\ replayed'[r] = command'
                    /\ "mutations" \notin raised' => row' = decision'
  BY DEF ReplayTracks, Tracks
<1> DEFINE b == Bounded(RawReplicas(w))
           s == Stabilized(history')
<1>1. /\ b \in Replicas /\ s \in Replicas /\ command \in Replicas
      /\ history \in Seq(Replicas) /\ history' \in Seq(Replicas) /\ history' # << >>
      /\ history' = Append(history, b) /\ history'[Len(history')] = b
      /\ Len(history') = Len(history) + 1
      /\ s \in {b} \cup WindowOf(history', WindowSamples)
      /\ command' = Step(command, s) /\ decision' = DecisionOf(b, s, command)
  BY DecideEffect, ReplaysLookUpAlike DEF PolicyTypeOK, Decide
<1>2. b <= s
  BY <1>1, StabilizedCoversWindow
<1>3. s = b \/ s <= command
  <2> SUFFICES ASSUME s \in WindowOf(history', WindowSamples), s # b PROVE s <= command
    BY <1>1
  <2>1. PICK i \in DOMAIN history' : i > Len(history') - WindowSamples /\ s = history'[i]
    BY DEF WindowOf
  <2>2. Len(history) \in Nat /\ DOMAIN history = 1..Len(history)
        /\ DOMAIN history' = 1..Len(history') /\ i # Len(history')
    BY <1>1, <2>1
  <2>3. i \in DOMAIN history /\ i > Len(history) - WindowSamples /\ history'[i] = history[i]
    BY <1>1, <2>1, <2>2, WindowSamplesNat, AppendProperties
  <2>4. s \in WindowOf(history, WindowSamples)
    BY <2>1, <2>3 DEF WindowOf
  <2> QED BY <2>4 DEF CoversRecentDemand
<1>4. RefBounded(ReplayRaw(w)) = b
  <2>1. w \in Workloads /\ ReplayRaw(w) = RawReplicas(w)
    BY ReplaysLookUpAlike
  <2>2. RawReplicas(w) \in Int
    BY <2>1, LookupIsListed, BoundsAreInt, PolicyInputAssumption DEF RawReplicas, Decide
  <2> QED BY <2>1, <2>2, SameBound
<1> HIDE DEF b, s
<1>5. /\ samples' = [r \in Replayers |-> Remember(samples[r], b, MaxLen(r))]
      /\ raised' = raised \cup {r \in Replayers : samples'[r] = << >>}
      /\ replayed' = [r \in Replayers |->
           IF r \in raised' THEN replayed[r]
           ELSE ReplayMove(replayed[r], b, Stable(samples'[r]))]
      /\ row' = IF "mutations" \in raised' THEN row
                ELSE ReplayRow(replayed["mutations"], b, Stable(samples'["mutations"]))
  BY <1>4 DEF ReplayDecide
<1>6. ReplayMove(command, b, s) = command' /\ ReplayRow(command, b, s) = decision'
  BY <1>1, <1>2, <1>3, SameRow
<1>7. ASSUME NEW r \in Replayers, r \notin raised'
      PROVE  /\ Tracks(samples'[r], history', MaxLen(r))
             /\ replayed[r] = command /\ Stable(samples'[r]) = s
  <2>1. r \notin raised /\ samples'[r] # << >>
    BY <1>5, <1>7
  <2>2. Tracks(samples[r], history, MaxLen(r)) /\ replayed[r] = command
    BY <1>7, <2>1 DEF ReplayTracks
  <2>3. Tracks(samples'[r], history', MaxLen(r))
    BY <1>1, <1>5, <2>2, MaxLenIsWindow, RememberKeepsTrack
  <2>4. Stable(samples'[r]) = s
    BY <1>1, <2>1, <2>3, StableIsStabilized DEF s
  <2> QED BY <2>2, <2>3, <2>4
<1>8. ASSUME NEW r \in Replayers, r \notin raised' PROVE replayed'[r] = command'
  BY <1>5, <1>6, <1>7, <1>8
<1>9. "mutations" \notin raised' => row' = decision'
  BY <1>5, <1>6, <1>7 DEF Replayers
<1> QED BY <1>7, <1>8, <1>9

\* The replays start alike, and every step keeps them together.
LEMMA ReplayTracksInit == ReplayedInit => ReplayTracks
BY MaxLenIsWindow, EmptySeq DEF ReplayedInit, LockstepInit, PolicyInit, ReplayInit,
   ReplayTracks, Tracks, Replicas

\* Every decision or error keeps the replays on track.
LEMMA ReplayTracksStep ==
  PolicyTypeOK /\ CoversRecentDemand /\ ReplayTracks
    /\ [ReplayedNext]_<<policyVars, refVars, replayVars>> => ReplayTracks'
<1> SUFFICES ASSUME PolicyTypeOK, CoversRecentDemand, ReplayTracks,
                    [ReplayedNext]_<<policyVars, refVars, replayVars>>
             PROVE  ReplayTracks'
  OBVIOUS
<1>1. ASSUME NEW w \in ForecastRates, Decide(w), ReplayDecide(w) PROVE ReplayTracks'
  BY <1>1, ReplayDecideTracks
<1>2. ASSUME NEW w \in ForecastRates, ReplayError(w) PROVE ReplayTracks'
  BY <1>2 DEF ReplayError, ReplayTracks, Replayers
<1>3. ASSUME NEW w \in ForecastRates PROVE ~ (DecideError(w) /\ ReplayDecide(w))
  BY ReplaysLookUpAlike DEF DecideError, ReplayDecide
<1>4. CASE UNCHANGED <<policyVars, refVars, replayVars>>
  <2>1. UNCHANGED <<samples, replayed, raised, row, history, command, decision>>
    BY <1>4 DEF policyVars, replayVars
  <2>2. ASSUME NEW r \in Replayers, Tracks(samples[r], history, MaxLen(r))
        PROVE  Tracks(samples[r], history, MaxLen(r))'
    BY <2>1, <2>2 DEF Tracks, MaxLen
  <2> QED BY <2>1, <2>2 DEF ReplayTracks
<1> QED BY <1>1, <1>2, <1>3, <1>4 DEF ReplayedNext

\* Whatever the forecast, a configuration without a scale-up limit is replayed
\* as the controller ran it, by the study and by the validation of the run.
THEOREM ReplaysAlwaysAgree == ReplayedSpec => []ReplaysAgree
<1> DEFINE Inv == PolicyTypeOK /\ CoversRecentDemand /\ ReplayTracks
<1>1. ReplayedInit => Inv
  BY PolicyTypeInit, CoversInit, ReplayTracksInit DEF ReplayedInit, LockstepInit
<1>2. Inv /\ [ReplayedNext]_<<policyVars, refVars, replayVars>> => Inv'
  <2>1. [ReplayedNext]_<<policyVars, refVars, replayVars>> => [PolicyNext]_policyVars
    BY DEF ReplayedNext, PolicyNext, ForecastRates
  <2> QED BY <2>1, PolicyTypeStep, CoversStep, ReplayTracksStep
<1>3. Inv => ReplaysAgree
  BY DEF ReplayTracks, ReplaysAgree
<1> QED BY <1>1, <1>2, <1>3, PTL DEF ReplayedSpec
-----------------------------------------------------------------------------
(* The safety replay.                                                      *)

\* The reference takes every safety policy the controller takes, although it
\* compares neighbours in the capacity table and the controller all pairs of
\* points (SafetyConfig.validate).
THEOREM PolicyIsAccepted == RefAcceptsPolicy
<1> DEFINE prior(i) == IF i = 1 THEN [replicas |-> 0, rps |-> -1] ELSE SafetyLookup[i - 1]
<1>1. /\ \A i \in DOMAIN SafetyLookup :
           SafetyLookup[i].replicas \in Nat \ {0} /\ SafetyLookup[i].rps \in Nat
      /\ \A i, j \in DOMAIN SafetyLookup :
           i < j => /\ SafetyLookup[i].replicas < SafetyLookup[j].replicas
                    /\ SafetyLookup[i].rps < SafetyLookup[j].rps
  BY SafetyConfigAssumption, TableGrows
<1>2. SafetyLookup \in Seq([replicas : Nat \ {0}, rps : Nat])
  BY SafetyConfigAssumption DEF IsCapacityLookup
<1>3. DOMAIN SafetyLookup = 1..Len(SafetyLookup) /\ Len(SafetyLookup) \in Nat
  BY <1>2
<1>4. ASSUME NEW i \in DOMAIN SafetyLookup
      PROVE  /\ SafetyLookup[i].replicas > prior(i).replicas
             /\ SafetyLookup[i].rps > prior(i).rps
  <2>1. CASE i = 1
    BY <1>1, <2>1
  <2>2. CASE i # 1
    <3>1. i - 1 \in DOMAIN SafetyLookup /\ i - 1 < i
      BY <1>3, <2>2
    <3> QED BY <1>1, <2>2, <3>1
  <2> QED BY <2>1, <2>2
<1>5. /\ SafetyLookup # << >> /\ SafetyLookup[1].replicas <= SafetyMin
      /\ SafetyMax <= SafetyLookup[Len(SafetyLookup)].replicas
  BY SafetyConfigAssumption DEF IsCapacityLookup
<1> QED BY <1>4, <1>5, SafetyConfigAssumption DEF RefAcceptsPolicy

\* Both accept the same observations and see the same overload and trigger.
LEMMA SameView ==
  ASSUME SafetyTypeOK, ReplayAgrees,
         NEW demand \in Demands, NEW ready \in ReadyCounts, NEW predictive
  PROVE  /\ RefEvaluable(demand, ready, predictive) <=> Evaluable(demand, ready, predictive)
         /\ RefRequired(demand) = Required(demand)
         /\ RefIsOverload(demand, ready) <=> Overloaded(SafetyLookup, demand, ready)
         /\ RefTriggers(demand, ready) <=> Triggered(demand, ready)
<1>2. RefIsOverload(demand, ready) <=> Overloaded(SafetyLookup, demand, ready)
  BY DEF RefIsOverload, Overloaded
<1>3. refOverload = overloadWindows
  BY DEF ReplayAgrees, engineVars
<1>4. RefTriggers(demand, ready) <=> Triggered(demand, ready)
  BY <1>2, <1>3 DEF RefTriggers, Triggered, OverloadRun, PersistenceWindows
<1>5. RefRequired(demand) = Required(demand)
  BY DEF RefRequired, Required, RequiredReplicas, Fitting
<1> QED BY <1>2, <1>4, <1>5 DEF RefEvaluable, Evaluable

\* The state after an accepted observation is the same in both.
LEMMA SameState ==
  ASSUME SafetyTypeOK, ReplayAgrees,
         NEW demand \in Demands, NEW ready \in ReadyCounts, NEW predictive,
         Evaluate(demand, ready, predictive), RefEvaluate(demand, ready, predictive)
  PROVE  /\ engineVars' = <<refOverload, refHold, refFloor, refActive, refSequence>>'
         /\ record'.event = EventOf(Required(demand))
<1> DEFINE required == Required(demand)
           trigger == Triggered(demand, ready)
           needed == required > predictive
<1>1. /\ refHold = holdWindows /\ refFloor = floor /\ refActive = active
      /\ refOverload = overloadWindows /\ refSequence = sequence
  BY DEF ReplayAgrees, engineVars
<1>2. /\ RefRequired(demand) = required /\ (RefTriggers(demand, ready) <=> trigger)
      /\ (RefIsOverload(demand, ready) <=> Overloaded(SafetyLookup, demand, ready))
  BY SameView
<1>3. /\ holdWindows \in Nat /\ floor \in Nat /\ floor >= SafetyMin /\ active \in BOOLEAN
      /\ required \in Nat /\ HoldWindows \in Nat /\ SafetyMin \in Nat
  BY SafetyNumbers, EvaluableFacts DEF SafetyTypeOK, Evaluate
<1>4. refOverload' = overloadWindows' /\ refSequence' = sequence'
  BY <1>1, <1>2 DEF Evaluate, RefEvaluate, OverloadRun
<1>5. Max({floor, required}) = IF floor >= required THEN floor ELSE required
  BY <1>3, MaxOfTwo
<1>6. Max({0, holdWindows - 1}) = IF 0 >= holdWindows - 1 THEN 0 ELSE holdWindows - 1
  BY <1>3, MaxOfTwo
<1> DEFINE hold == IF trigger \/ (active /\ needed) THEN HoldWindows
                   ELSE IF active /\ holdWindows > 0 THEN holdWindows - 1 ELSE holdWindows
           release == ~trigger /\ active /\ ~needed /\ hold = 0
           higher == IF trigger THEN Max({floor, required}) ELSE floor
<1>7. /\ refHold' = hold
      /\ refFloor' = IF release THEN SafetyMin ELSE higher
      /\ refActive' = (trigger \/ (active /\ ~release))
      /\ record'.event =
           IF trigger THEN IF ~active THEN "intervention_started"
                           ELSE IF higher > floor THEN "intervention_raised" ELSE "none"
           ELSE IF release THEN "intervention_released" ELSE "none"
  BY <1>1, <1>2 DEF RefEvaluate, HoldWindows
<1>8. \/ trigger /\ Intervene(required)
      \/ ~trigger /\ active /\ needed /\ Extend
      \/ ~trigger /\ active /\ ~needed /\ CountDown
      \/ ~trigger /\ ~active /\ UNCHANGED <<holdWindows, floor, active>>
  BY DEF Evaluate
<1> HIDE DEF required, trigger, needed
<1>9. CASE trigger /\ Intervene(required)
  <2>1. holdWindows' = HoldWindows /\ active' = TRUE /\ floor' = Max({floor, required})
    BY <1>9 DEF Intervene
  <2>2. refHold' = HoldWindows /\ refActive' = TRUE /\ refFloor' = Max({floor, required})
    BY <1>7, <1>9
  <2>3. record'.event = EventOf(required)
    BY <1>3, <1>5, <1>7, <1>9, <2>1 DEF EventOf
  <2> QED BY <1>4, <2>1, <2>2, <2>3 DEF engineVars, required
<1>10. CASE ~trigger /\ active /\ needed /\ Extend
  <2>1. holdWindows' = HoldWindows /\ active' = active /\ floor' = floor
    BY <1>10 DEF Extend
  <2>2. refHold' = HoldWindows /\ refActive' = TRUE /\ refFloor' = floor
        /\ record'.event = "none"
    BY <1>7, <1>10
  <2>3. EventOf(required) = "none" /\ active = TRUE
    BY <1>3, <1>10, <2>1 DEF EventOf
  <2> QED BY <1>4, <2>1, <2>2, <2>3 DEF engineVars, required
<1>11. CASE ~trigger /\ active /\ ~needed /\ CountDown
  <2>1. holdWindows' = hold
    BY <1>3, <1>6, <1>11 DEF CountDown
  <2>2. CASE hold = 0
    <3>1. active' = FALSE /\ floor' = SafetyMin
      BY <1>11, <2>1, <2>2 DEF CountDown
    <3>2. refActive' = FALSE /\ refFloor' = SafetyMin
          /\ record'.event = "intervention_released"
      BY <1>7, <1>11, <2>2
    <3>3. EventOf(required) = "intervention_released"
      BY <1>11, <3>1 DEF EventOf
    <3> QED BY <1>4, <1>7, <2>1, <3>1, <3>2, <3>3 DEF engineVars, required
  <2>3. CASE hold # 0
    <3>1. active' = active /\ floor' = floor
      BY <1>11, <2>1, <2>3 DEF CountDown
    <3>2. refActive' = TRUE /\ refFloor' = floor /\ record'.event = "none"
      BY <1>7, <1>11, <2>3
    <3>3. EventOf(required) = "none" /\ active = TRUE
      BY <1>3, <1>11, <3>1 DEF EventOf
    <3> QED BY <1>4, <1>7, <2>1, <3>1, <3>2, <3>3 DEF engineVars, required
  <2> QED BY <2>2, <2>3
<1>12. CASE ~trigger /\ ~active /\ UNCHANGED <<holdWindows, floor, active>>
  <2>1. refHold' = holdWindows /\ refActive' = FALSE /\ refFloor' = floor
        /\ record'.event = "none"
    BY <1>7, <1>12
  <2>2. EventOf(required) = "none" /\ active = FALSE
    BY <1>3, <1>12 DEF EventOf
  <2> QED BY <1>4, <1>12, <2>1, <2>2 DEF engineVars, required
<1> QED BY <1>8, <1>9, <1>10, <1>11, <1>12

\* And so is the record returned.
LEMMA SameRecord ==
  ASSUME SafetyTypeOK, ReplayAgrees,
         NEW demand \in Demands, NEW ready \in ReadyCounts, NEW predictive,
         Evaluate(demand, ready, predictive), RefEvaluate(demand, ready, predictive)
  PROVE  evaluation' = record'
<1> DEFINE event == EventOf(Required(demand))
           overload == Overloaded(SafetyLookup, demand, ready)
<1>1. refFloor' = floor' /\ refActive' = active' /\ record'.event = event
  BY SameState DEF engineVars
<1>2. /\ RefRequired(demand) = Required(demand)
      /\ RefIsOverload(demand, ready) <=> overload
  BY SameView
<1>3. RefIsOverload(demand, ready) = overload
  BY <1>2 DEF RefIsOverload, Overloaded
<1>4. evaluation' = [returned |-> TRUE, overload |-> overload, ready |-> ready,
                     required |-> Required(demand), event |-> event,
                     floor |-> IF active' THEN floor' ELSE SafetyMin]
  BY DEF Evaluate
<1>5. record' = [returned |-> TRUE, overload |-> RefIsOverload(demand, ready), ready |-> ready,
                 required |-> RefRequired(demand), event |-> record'.event,
                 floor |-> IF refActive' THEN refFloor' ELSE SafetyMin]
  BY DEF RefEvaluate
<1> HIDE DEF event, overload
<1> QED BY <1>1, <1>2, <1>3, <1>4, <1>5
-----------------------------------------------------------------------------
\* The engines start alike.
LEMMA ReplayStart == SafetyLockstepInit => SafetyInit /\ ReplayAgrees
BY DEF SafetyLockstepInit, SafetyInit, RefSafetyInit, ReplayAgrees, engineVars, NoEvaluation, NoRecord

\* From equal states they take the same step.
LEMMA ReplayStep ==
  SafetyInvariant /\ ReplayAgrees /\ [SafetyLockstepNext]_<<safetyVars, refSafetyVars>>
    => (SafetyInvariant /\ ReplayAgrees)'
<1> SUFFICES ASSUME SafetyInvariant, ReplayAgrees, [SafetyLockstepNext]_<<safetyVars, refSafetyVars>>
             PROVE  SafetyInvariant' /\ ReplayAgrees'
  OBVIOUS
<1>1. SafetyTypeOK
  BY DEF SafetyInvariant
<1>2. ASSUME NEW demand \in Demands, NEW ready \in ReadyCounts, NEW predictive,
             Evaluate(demand, ready, predictive) \/ EvaluateError(demand, ready, predictive),
             \/ RefEvaluate(demand, ready, predictive)
             \/ RefEvaluateError(demand, ready, predictive)
      PROVE  ReplayAgrees'
  <2>1. RefEvaluable(demand, ready, predictive) <=> Evaluable(demand, ready, predictive)
    BY <1>1, SameView
  <2>2. CASE Evaluable(demand, ready, predictive)
    <3>1. Evaluate(demand, ready, predictive) /\ RefEvaluate(demand, ready, predictive)
      BY <1>2, <2>1, <2>2 DEF EvaluateError, RefEvaluateError
    <3> QED BY <1>1, <3>1, SameState, SameRecord DEF ReplayAgrees
  <2>3. CASE ~Evaluable(demand, ready, predictive)
    <3>1. EvaluateError(demand, ready, predictive) /\ RefEvaluateError(demand, ready, predictive)
      BY <1>2, <2>1, <2>3 DEF Evaluate, RefEvaluate
    <3> QED BY <3>1
            DEF EvaluateError, RefEvaluateError, ReplayAgrees, engineVars, NoEvaluation, NoRecord
  <2> QED BY <2>2, <2>3
<1>3. ASSUME UNCHANGED <<safetyVars, refSafetyVars>> PROVE ReplayAgrees'
  BY <1>3 DEF safetyVars, engineVars, refSafetyVars, ReplayAgrees
<1>4. ReplayAgrees'
  BY <1>2, <1>3 DEF SafetyLockstepNext
<1>5. [SafetyNext]_safetyVars
  BY DEF SafetyLockstepNext, SafetyNext
<1> QED BY <1>4, <1>5, SafetyInvariantStep

\* For every safety policy and every sequence of observations the controller
\* and the replay return the same records and refuse the same inputs.
THEOREM ReplayAlwaysAgrees == SafetyLockstepSpec => []ReplayAgrees
BY SafetyInvariantInit, ReplayStart, ReplayStep, PTL DEF SafetyLockstepSpec
-----------------------------------------------------------------------------
(* Both policy engines of the composition settle.  What DecisionProofs says *)
(* of a policy engine is said again of the second one, under its limits.    *)

LimitedProofs == INSTANCE DecisionProofs WITH
  MinReplicas <- Limits.min, MaxReplicas <- Limits.max, InitialReplicas <- Limits.initial,
  SafetyFactor <- Limits.factor, StabilizationSecs <- Limits.stabilization,
  DecisionIntervalSecs <- Limits.interval, MaxScaleDownStep <- Limits.down,
  MaxScaleUpStep <- Limits.up, Workloads <- LimitedWorkloads,
  history <- limitedHistory, command <- limitedCommand, seq <- limitedSeq,
  decision <- limitedDecision

\* The second configuration satisfies what the proofs assume of a configuration.
LEMMA LimitsAreValid ==
  /\ LimitedProofs!ToleranceAssumption /\ LimitedProofs!PolicyConfigAssumption
  /\ LimitedProofs!PolicyInputAssumption
  /\ LimitedProofs!SafetyConfigAssumption /\ LimitedProofs!SafetyInputAssumption
<1>1. LimitedProofs!PolicyConfigAssumption
  BY LimitsAssumption DEF LimitedProofs!IsCapacityLookup, IsCapacityLookup
<1>2. LimitedProofs!PolicyInputAssumption
  BY LimitsAssumption, PolicyInputAssumption
<1>3. LimitedProofs!SafetyConfigAssumption
  BY SafetyConfigAssumption DEF LimitedProofs!IsCapacityLookup, IsCapacityLookup
<1>4. LimitedProofs!ToleranceAssumption /\ LimitedProofs!SafetyInputAssumption
  BY ToleranceAssumption, SafetyInputAssumption
<1> QED BY <1>1, <1>2, <1>3, <1>4

\* A start and a step of the composition are one of each policy engine.
LEMMA EnginesStart ==
  EnginesInit => PolicyInit /\ LimitedProofs!PolicyInit
BY DEF EnginesInit, ReplayedInit, LockstepInit, Limited!PolicyInit, LimitedProofs!PolicyInit,
       Limited!NoDecision, LimitedProofs!NoDecision

\* The same of a step: the other engines stand still.
LEMMA EnginesMovePolicy == [EnginesNext]_enginesVars => [PolicyNext]_policyVars
BY DEF EnginesNext, enginesVars, ReplayedNext, PolicyNext, ForecastRates

\* Both names of the second engine mean the same engine.
LEMMA SameLimitedOperators ==
  /\ Limited!NoReplicas = LimitedProofs!NoReplicas
  /\ \A w : Limited!RawReplicas(w) = LimitedProofs!RawReplicas(w)
  /\ \A raw : Limited!Bounded(raw) = LimitedProofs!Bounded(raw)
  /\ \A h : Limited!Stabilized(h) = LimitedProofs!Stabilized(h)
  /\ \A b, s, p : Limited!DecisionOf(b, s, p) = LimitedProofs!DecisionOf(b, s, p)
  /\ Limited!NoDecision = LimitedProofs!NoDecision
  /\ \A h, n : Limited!WindowOf(h, n) = LimitedProofs!WindowOf(h, n)
  /\ Limited!SettleSamples = LimitedProofs!SettleSamples
  /\ Limited!Replicas = LimitedProofs!Replicas
<1>1. Limited!NoReplicas = LimitedProofs!NoReplicas
  BY DEF Limited!NoReplicas, LimitedProofs!NoReplicas
<1>2. \A w : Limited!RawReplicas(w) = LimitedProofs!RawReplicas(w)
  BY <1>1
  DEF Limited!RawReplicas, LimitedProofs!RawReplicas,
       Limited!RequiredReplicas, LimitedProofs!RequiredReplicas,
       Limited!Fitting, LimitedProofs!Fitting,
       Limited!Min, LimitedProofs!Min
<1>3. \A raw : Limited!Bounded(raw) = LimitedProofs!Bounded(raw)
  BY DEF Limited!Bounded, LimitedProofs!Bounded
<1>4. \A h, n : Limited!WindowOf(h, n) = LimitedProofs!WindowOf(h, n)
  BY DEF Limited!WindowOf, LimitedProofs!WindowOf
<1>5. \A h : Limited!Stabilized(h) = LimitedProofs!Stabilized(h)
  BY <1>4
  DEF Limited!Stabilized, LimitedProofs!Stabilized,
       Limited!WindowSamples, LimitedProofs!WindowSamples,
       Limited!Max, LimitedProofs!Max
<1>6. \A b, s, p : Limited!DecisionOf(b, s, p) = LimitedProofs!DecisionOf(b, s, p)
  BY DEF Limited!DecisionOf, LimitedProofs!DecisionOf,
       Limited!Step, LimitedProofs!Step,
       Limited!DecisionAction, LimitedProofs!DecisionAction,
       Limited!Held, LimitedProofs!Held
<1>7. Limited!NoDecision = LimitedProofs!NoDecision
  BY DEF Limited!NoDecision, LimitedProofs!NoDecision
<1>8. Limited!SettleSamples = LimitedProofs!SettleSamples
  BY DEF Limited!SettleSamples, LimitedProofs!SettleSamples,
       Limited!SlowestStep, LimitedProofs!SlowestStep,
       Limited!WindowSamples, LimitedProofs!WindowSamples,
       Limited!Max, LimitedProofs!Max,
       Limited!Min, LimitedProofs!Min
<1>9. Limited!Replicas = LimitedProofs!Replicas
  BY DEF Limited!Replicas, LimitedProofs!Replicas
<1> QED BY <1>1, <1>2, <1>3, <1>4, <1>5, <1>6, <1>7, <1>8, <1>9

\* So a step of the one is a step of the other,
LEMMA SameLimitedStep == Limited!PolicyNext => LimitedProofs!PolicyNext
BY SameLimitedOperators
DEF Limited!PolicyNext, LimitedProofs!PolicyNext,
       Limited!Decide, LimitedProofs!Decide,
       Limited!DecideError, LimitedProofs!DecideError

\* a step of the composition is one of it, or none,
LEMMA EnginesMoveLimited ==
  [EnginesNext]_enginesVars => [LimitedProofs!PolicyNext]_(LimitedProofs!policyVars)
BY SameLimitedStep DEF EnginesNext, enginesVars, limitedVars, LimitedProofs!policyVars

\* and settling means the same.
LEMMA SameLimitedSettling ==
  LimitedProofs!SettlesOnConstantDemand => Limited!SettlesOnConstantDemand
BY SameLimitedOperators
DEF LimitedProofs!SettlesOnConstantDemand, Limited!SettlesOnConstantDemand

\* Each engine settles on a constant demand, with and without step limits.
THEOREM EnginesAlwaysSettle == EnginesSpec => []EnginesSettle
<1>1. EnginesSpec => []SettlesOnConstantDemand
  <2>1. EnginesSpec => PolicySpec
    BY EnginesStart, EnginesMovePolicy, PTL DEF EnginesSpec, PolicySpec
  <2> QED BY <2>1, PolicySettles, PTL
<1>2. EnginesSpec => []LimitedProofs!SettlesOnConstantDemand
  <2>1. EnginesSpec => LimitedProofs!PolicySpec
    BY EnginesStart, EnginesMoveLimited, PTL DEF EnginesSpec, LimitedProofs!PolicySpec
  <2>2. LimitedProofs!PolicySpec => []LimitedProofs!SettlesOnConstantDemand
    BY LimitsAreValid, LimitedProofs!PolicySettles, PTL
  <2> QED BY <2>1, <2>2, PTL
<1>3. SettlesOnConstantDemand /\ LimitedProofs!SettlesOnConstantDemand => EnginesSettle
  BY SameLimitedSettling DEF EnginesSettle
<1> QED BY <1>1, <1>2, <1>3, PTL

\* Whichever engine of the composition runs, it agrees with its Python twin and
\* keeps its promise: everything the components' theorems say holds of the whole.
LEMMA EnginesProjections ==
  /\ EnginesInit => ReplayedInit /\ SafetyLockstepInit
  /\ [EnginesNext]_enginesVars =>
       /\ [ReplayedNext]_<<policyVars, refVars, replayVars>>
       /\ [LockstepNext]_<<policyVars, refVars>>
       /\ [SafetyLockstepNext]_<<safetyVars, refSafetyVars>>
       /\ [SafetyNext]_safetyVars
<1>1. EnginesInit => ReplayedInit /\ SafetyLockstepInit
  BY DEF EnginesInit
<1>2. [EnginesNext]_enginesVars =>
        /\ [ReplayedNext]_<<policyVars, refVars, replayVars>>
        /\ [SafetyLockstepNext]_<<safetyVars, refSafetyVars>>
  BY DEF EnginesNext, enginesVars
<1>3. [ReplayedNext]_<<policyVars, refVars, replayVars>> => [LockstepNext]_<<policyVars, refVars>>
  BY DEF ReplayedNext, LockstepNext, ForecastRates
<1>4. [SafetyLockstepNext]_<<safetyVars, refSafetyVars>> => [SafetyNext]_safetyVars
  BY DEF SafetyLockstepNext, SafetyNext
<1> QED BY <1>1, <1>2, <1>3, <1>4

\* The composition of the engines agrees, covers, replays and promises as its parts do.
THEOREM EnginesAgreeTogether ==
  EnginesSpec => /\ [](EnginesAgree /\ ReplaysAgree /\ CoversRecentDemand /\ ReplayAgrees)
                 /\ KeepsPromise
<1>1. EnginesSpec => ReplayedSpec /\ LockstepSpec /\ SafetyLockstepSpec /\ SafetySpec /\ PolicySpec
  BY EnginesProjections, EnginesStart, EnginesMovePolicy, PTL
     DEF EnginesSpec, ReplayedSpec, LockstepSpec, SafetyLockstepSpec, SafetySpec, PolicySpec,
         ReplayedInit, SafetyLockstepInit
<1> QED BY <1>1, EnginesAlwaysAgree, ReplaysAlwaysAgree, PolicyCoversRecentDemand,
           ReplayAlwaysAgrees, SafetyKeepsPromise, PTL
=============================================================================
