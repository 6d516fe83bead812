-------------------------- MODULE PolicyReference --------------------------
(***************************************************************************)
(* The Python policy engine (forecasts/oracle/tools/policy.py), with which *)
(* forecasts and analyses are computed offline, run in lockstep with the   *)
(* controller's engine on the same rates.                                  *)
(***************************************************************************)
EXTENDS Policy

VARIABLES boundedHistory, commanded, decisionIndex, refDecision

refVars == <<boundedHistory, commanded, decisionIndex, refDecision>>

\* PolicyConfig.validate: the table need only not decrease, and the step limits
\* are not looked at.
RefAcceptsConfig ==
  /\ 1 <= MinReplicas /\ MinReplicas <= MaxReplicas
  /\ InitialReplicas \in MinReplicas..MaxReplicas
  /\ SafetyFactor > 0
  /\ DecisionIntervalSecs > 0 /\ StabilizationSecs >= 0
  /\ StabilizationSecs % DecisionIntervalSecs = 0
  /\ \A i, j \in DOMAIN CapacityLookup :
       i < j => /\ CapacityLookup[i].replicas <= CapacityLookup[j].replicas
                /\ CapacityLookup[i].rps <= CapacityLookup[j].rps
  /\ CapacityLookup[1].replicas <= MinReplicas
  /\ MaxReplicas <= CapacityLookup[Len(CapacityLookup)].replicas

\* The seeded fault: a demand just above a capacity, within the slack, does not fit.
RefRawExact(workload) ==
  LET adjusted == workload * SafetyFactor
      fits == {i \in DOMAIN CapacityLookup : adjusted <= CapacityLookup[i].rps}
  IN  IF workload < 0 \/ fits = {} THEN NoReplicas ELSE CapacityLookup[Min(fits)].replicas

\* raw_replicas, with a slack of its own.
RefRaw(workload) ==
  LET adjusted == workload * SafetyFactor
      fits == {i \in DOMAIN CapacityLookup : adjusted <= CapacityLookup[i].rps + Tolerance}
  IN  IF workload < 0 \/ fits = {} THEN NoReplicas ELSE CapacityLookup[Min(fits)].replicas

\* max_scale_up_step, None when the controller's limit is 0.
RefUpTo(previous, stabilized) ==
  IF MaxScaleUpStep = 0 THEN stabilized ELSE Min({stabilized, previous + MaxScaleUpStep})

\* The seeded fault: None read as a limit of zero steps.
RefMoveNoneAsZero(previous, stabilized) ==
  IF stabilized > previous THEN Min({stabilized, previous + MaxScaleUpStep})
  ELSE IF stabilized < previous THEN Max({stabilized, previous - MaxScaleDownStep})
  ELSE previous

RefMove(previous, stabilized) ==
  IF stabilized > previous THEN RefUpTo(previous, stabilized)
  ELSE IF stabilized < previous THEN Max({stabilized, previous - MaxScaleDownStep})
  ELSE previous

\* bounded_history[-window_samples:], the whole history when the window is 0.
RefStabilized(h) ==
  IF WindowSamples > 0 THEN Max(WindowOf(h, WindowSamples)) ELSE h[Len(h)]

RefBounded(raw) == Min({MaxReplicas, Max({MinReplicas, raw})})

RefInit ==
  /\ boundedHistory = << >> /\ commanded = InitialReplicas
  /\ decisionIndex = 0 /\ refDecision = NoDecision

RefDecide(workload) ==
  LET raw == RefRaw(workload)
      h == Append(boundedHistory, RefBounded(raw))
      move == RefMove(commanded, RefStabilized(h))
  IN  /\ raw # NoReplicas
      /\ boundedHistory' = h
      /\ commanded' = move
      /\ decisionIndex' = decisionIndex + 1
      /\ refDecision' =
           [returned |-> TRUE, bounded |-> RefBounded(raw), stabilized |-> RefStabilized(h),
            prior |-> commanded, commanded |-> move,
            action |-> IF move > commanded THEN "scale_up"
                       ELSE IF move < commanded THEN "scale_down" ELSE "none",
            held |-> RefBounded(raw) < commanded /\ move >= commanded]

RefDecideError(workload) ==
  /\ RefRaw(workload) = NoReplicas
  /\ refDecision' = NoDecision
  /\ UNCHANGED <<boundedHistory, commanded, decisionIndex>>

LockstepInit == PolicyInit /\ RefInit

LockstepNext ==
  \E w \in Workloads : /\ Decide(w) \/ DecideError(w)
                       /\ RefDecide(w) \/ RefDecideError(w)

LockstepSpec == LockstepInit /\ [][LockstepNext]_<<policyVars, refVars>>
-----------------------------------------------------------------------------
\* The two engines, written independently in Go and Python, return the same
\* decision for every sequence of rates and end in the same state.
EnginesAgree ==
  /\ decision = refDecision
  /\ <<history, command, seq>> = <<boundedHistory, commanded, decisionIndex>>
=============================================================================
