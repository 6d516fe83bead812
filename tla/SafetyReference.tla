-------------------------- MODULE SafetyReference --------------------------
(***************************************************************************)
(* The Python reference model of the safety engine                         *)
(* (safety_reference.py), against which every accepted run is replayed     *)
(* (validate_safety_run.py), run in lockstep with the controller's engine. *)
(* Its case of a missing observation is left out: a replay has none, since  *)
(* every line of the observation file carries a count.                      *)
(***************************************************************************)
EXTENDS Safety

VARIABLES refOverload, refHold, refFloor, refActive, refSequence, record

refSafetyVars == <<refOverload, refHold, refFloor, refActive, refSequence, record>>

NoRecord == [returned |-> FALSE]

\* SafetyConfig.validate, with the point before the first one at <0, -1>.
RefAcceptsPolicy ==
  LET prior(i) == IF i = 1 THEN [replicas |-> 0, rps |-> -1] ELSE SafetyLookup[i - 1]
  IN  /\ ObservationSecs > 0
      /\ PersistenceSecs >= ObservationSecs /\ PersistenceSecs % ObservationSecs = 0
      /\ ReleaseHoldSecs >= 0 /\ ReleaseHoldSecs % ObservationSecs = 0
      /\ SafetyMin >= 1 /\ SafetyMax >= SafetyMin /\ SafetyLookup # << >>
      /\ \A i \in DOMAIN SafetyLookup :
           /\ SafetyLookup[i].replicas > prior(i).replicas
           /\ SafetyLookup[i].rps > prior(i).rps
      /\ SafetyLookup[1].replicas <= SafetyMin
      /\ SafetyMax <= SafetyLookup[Len(SafetyLookup)].replicas

\* required_replicas, with a slack of its own.
RefRequired(observation) ==
  LET fits == {i \in DOMAIN SafetyLookup : observation <= SafetyLookup[i].rps + Tolerance}
  IN  IF observation < 0 \/ fits = {} THEN NoReplicas ELSE SafetyLookup[Min(fits)].replicas

\* evaluate raises for these, before it touches its state.
RefEvaluable(observation, ready, predictive) ==
  /\ predictive \in SafetyMin..SafetyMax
  /\ ready \in ListedReplicas(SafetyLookup)
  /\ RefRequired(observation) # NoReplicas

RefIsOverload(observation, ready) ==
  observation > CapacityOf(SafetyLookup, ready) + Tolerance

\* The seeded fault: the trigger needs one window more than the persistence.
RefTriggersLate(observation, ready) ==
  RefIsOverload(observation, ready) /\ refOverload >= PersistenceSecs \div ObservationSecs

RefTriggers(observation, ready) ==
  RefIsOverload(observation, ready) /\ refOverload + 1 >= PersistenceSecs \div ObservationSecs

RefEvaluate(observation, ready, predictive) ==
  LET overload == RefIsOverload(observation, ready)
      required == RefRequired(observation)
      needed == required > predictive
      trigger == RefTriggers(observation, ready)
      hold == IF trigger \/ (refActive /\ needed) THEN ReleaseHoldSecs \div ObservationSecs
              ELSE IF refActive /\ refHold > 0 THEN refHold - 1 ELSE refHold
      release == ~trigger /\ refActive /\ ~needed /\ hold = 0
      raised == IF trigger THEN Max({refFloor, required}) ELSE refFloor
      event == IF trigger THEN IF ~refActive THEN "intervention_started"
                               ELSE IF raised > refFloor THEN "intervention_raised" ELSE "none"
               ELSE IF release THEN "intervention_released" ELSE "none"
  IN  /\ RefEvaluable(observation, ready, predictive)
      /\ refOverload' = IF overload THEN refOverload + 1 ELSE 0
      /\ refHold' = hold
      /\ refFloor' = IF release THEN SafetyMin ELSE raised
      /\ refActive' = (trigger \/ (refActive /\ ~release))
      /\ refSequence' = refSequence + 1
      /\ record' = [returned |-> TRUE, overload |-> overload, ready |-> ready,
                    required |-> required, event |-> event,
                    floor |-> IF refActive' THEN refFloor' ELSE SafetyMin]

RefEvaluateError(observation, ready, predictive) ==
  /\ ~RefEvaluable(observation, ready, predictive)
  /\ record' = NoRecord
  /\ UNCHANGED <<refOverload, refHold, refFloor, refActive, refSequence>>

RefSafetyInit ==
  /\ refOverload = 0 /\ refHold = 0
  /\ refFloor = SafetyMin /\ refActive = FALSE
  /\ refSequence = 0 /\ record = NoRecord

SafetyLockstepInit == SafetyInit /\ RefSafetyInit

\* Both engines on the same inputs.
SafetyLockstepNext ==
  /\ sequence < MaxWindows
  /\ \E demand \in Demands, ready \in ReadyCounts, predictive \in (SafetyMin - 1)..SafetyMax :
       /\ Evaluate(demand, ready, predictive) \/ EvaluateError(demand, ready, predictive)
       /\ \/ RefEvaluate(demand, ready, predictive)
          \/ RefEvaluateError(demand, ready, predictive)

SafetyLockstepSpec ==
  SafetyLockstepInit /\ [][SafetyLockstepNext]_<<safetyVars, refSafetyVars>>
-----------------------------------------------------------------------------
\* The controller's engine and the replay reference return the same record for
\* every sequence of inputs, errors included, and end in the same state.
ReplayAgrees ==
  /\ evaluation = record
  /\ engineVars = <<refOverload, refHold, refFloor, refActive, refSequence>>
=============================================================================
