------------------------------- MODULE Policy -------------------------------
(***************************************************************************)
(* The predictive replica policy (controller/internal/policy): a forecast  *)
(* rate is turned into a replica count, bounded, held up by the largest    *)
(* count of a trailing stabilization window, and approached in bounded     *)
(* steps.  One step of the engine is one call of Decide.                   *)
(***************************************************************************)
EXTENDS Capacity

CONSTANTS
  CapacityLookup, MinReplicas, MaxReplicas, InitialReplicas,
  SafetyFactor,              \* multiplier of the forecast rate
  StabilizationSecs, DecisionIntervalSecs,
  MaxScaleDownStep, MaxScaleUpStep,
  Workloads,                 \* the rates a forecast row may carry
  MaxDecisions               \* bound: rows of the forecast trace

\* Config.Validate.
ASSUME PolicyConfigAssumption ==
  /\ MinReplicas \in Nat \ {0}
  /\ MaxReplicas \in Nat /\ MinReplicas <= MaxReplicas
  /\ InitialReplicas \in MinReplicas..MaxReplicas
  /\ SafetyFactor \in Nat \ {0}
  /\ DecisionIntervalSecs \in Nat \ {0}
  /\ StabilizationSecs \in Nat
  /\ StabilizationSecs % DecisionIntervalSecs = 0
  /\ MaxScaleDownStep \in Nat \ {0}
  /\ MaxScaleUpStep \in Nat
  /\ IsCapacityLookup(CapacityLookup, MinReplicas, MaxReplicas)

ASSUME PolicyInputAssumption == Workloads \subseteq Int /\ MaxDecisions \in Nat

VARIABLES
  history,    \* every bounded replica count decided so far
  command,    \* the last commanded replica count
  seq,        \* the next decision sequence number
  decision    \* what the last call of Decide returned

policyVars == <<history, command, seq, decision>>

Replicas == MinReplicas..MaxReplicas
WindowSamples == StabilizationSecs \div DecisionIntervalSecs

RawReplicas(workload) == RequiredReplicas(CapacityLookup, workload * SafetyFactor)

Bounded(raw) ==
  IF raw < MinReplicas THEN MinReplicas
  ELSE IF raw > MaxReplicas THEN MaxReplicas ELSE raw

\* The last WindowSamples entries of a history.
WindowOf(h, samples) == {h[i] : i \in {j \in DOMAIN h : j > Len(h) - samples}}

\* The seeded fault: the window loses its oldest sample.
StabilizedMissingOldest(h) == Max({h[Len(h)]} \cup WindowOf(h, WindowSamples - 1))

Stabilized(h) == Max({h[Len(h)]} \cup WindowOf(h, WindowSamples))

\* The seeded fault: a rise beyond the step limit is refused instead of cut.
StepRefusingJumps(previous, stabilized) ==
  IF stabilized > previous
  THEN IF MaxScaleUpStep > 0 /\ stabilized > previous + MaxScaleUpStep
       THEN previous ELSE stabilized
  ELSE IF previous - MaxScaleDownStep < stabilized
       THEN stabilized ELSE previous - MaxScaleDownStep

\* One move from the previous command towards the stabilized count.
Step(previous, stabilized) ==
  IF stabilized > previous
  THEN IF MaxScaleUpStep > 0 /\ stabilized > previous + MaxScaleUpStep
       THEN previous + MaxScaleUpStep ELSE stabilized
  ELSE IF stabilized < previous
  THEN IF previous - MaxScaleDownStep < stabilized
       THEN stabilized ELSE previous - MaxScaleDownStep
  ELSE previous

DecisionAction(prior, final) ==
  IF final > prior THEN "scale_up" ELSE IF final < prior THEN "scale_down" ELSE "none"

Held(bounded, previous, commanded) == bounded < previous /\ commanded >= previous

NoDecision == [returned |-> FALSE]

DecisionOf(bounded, stabilized, previous) ==
  LET commanded == Step(previous, stabilized)
  IN  [returned |-> TRUE, bounded |-> bounded, stabilized |-> stabilized,
       prior |-> previous, commanded |-> commanded,
       action |-> DecisionAction(previous, commanded),
       held |-> Held(bounded, previous, commanded)]

PolicyInit ==
  /\ history = << >>
  /\ command = InitialReplicas
  /\ seq = 0
  /\ decision = NoDecision

\* Decide on a rate inside the validated capacity.
Decide(workload) ==
  /\ seq < MaxDecisions
  /\ RawReplicas(workload) # NoReplicas
  /\ history' = Append(history, Bounded(RawReplicas(workload)))
  /\ decision' = DecisionOf(Bounded(RawReplicas(workload)), Stabilized(history'), command)
  /\ command' = decision'.commanded
  /\ seq' = seq + 1

\* Decide on any other rate: an error, and the engine is untouched.
DecideError(workload) ==
  /\ seq < MaxDecisions
  /\ RawReplicas(workload) = NoReplicas
  /\ decision' = NoDecision
  /\ UNCHANGED <<history, command, seq>>

PolicyNext == \E w \in Workloads : Decide(w) \/ DecideError(w)

PolicySpec == PolicyInit /\ [][PolicyNext]_policyVars
-----------------------------------------------------------------------------
Decisions ==
  [returned : {TRUE}, bounded : Replicas, stabilized : Replicas, prior : Replicas,
   commanded : Replicas, action : {"none", "scale_up", "scale_down"}, held : BOOLEAN]

\* Every command, and every count it is computed from, is a legal replica
\* count, whatever the forecast and the step limits (Decide, Config.Validate).
PolicyTypeOK ==
  /\ history \in Seq(Replicas)
  /\ command \in Replicas
  /\ seq \in Nat /\ seq = Len(history)
  /\ decision \in Decisions \cup {NoDecision}

\* With no scale-up limit the command covers every demand of the trailing
\* window: no scale-down, however many steps it takes, gets ahead of it.
CoversRecentDemand ==
  MaxScaleUpStep = 0 => \A r \in WindowOf(history, WindowSamples) : r <= command

\* A command is lowered only when the whole window asked for less, by at most
\* one step, and never below what the window asked for.
ScaleDownIsEarned ==
  [][command' < command =>
       /\ \A r \in WindowOf(history', WindowSamples) : r <= command'
       /\ command - command' <= MaxScaleDownStep]_policyVars

\* scale_down_held is reported only when an older sample of the window is what
\* keeps the command up.
HeldByTheWindow ==
  decision # NoDecision /\ decision.held =>
    \E r \in WindowOf(history, WindowSamples) : r >= decision.prior /\ r > decision.bounded

SlowestStep == IF MaxScaleUpStep = 0 THEN MaxScaleDownStep
               ELSE Min({MaxScaleUpStep, MaxScaleDownStep})
SettleSamples == Max({WindowSamples, 1}) - 1
                 + (MaxReplicas - MinReplicas + SlowestStep - 1) \div SlowestStep

\* A demand that stays constant long enough is met exactly: once the window has
\* forgotten everything else, the step limits bring the command to it.
SettlesOnConstantDemand ==
  \A b \in Replicas :
    Len(history) >= SettleSamples /\ history # << >>
    /\ (WindowOf(history, SettleSamples) \cup {history[Len(history)]} = {b})
      => command = b
=============================================================================
