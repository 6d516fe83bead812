---------------------------- MODULE PolicyReplay ----------------------------
(***************************************************************************)
(* The policy replays: the study computes what a forecast would command     *)
(* (Policy.replay of forecasts/mutations/tools/mutation_framework.py), and  *)
(* a run is accepted when its commands are the ones "desired" computes from *)
(* its forecast (experiments/primary/tools/validate_final_run.py).  Both    *)
(* keep a bounded queue instead of the history, compare the newest sample   *)
(* instead of the stabilized count with the command, and know no scale-up   *)
(* limit.  They run in lockstep with the two engines.                       *)
(***************************************************************************)
EXTENDS PolicyReference

VARIABLES
  samples,    \* the queue of each replay
  replayed,   \* the last command of each replay
  raised,     \* the replays that have ended with an exception
  row         \* the last row of the mutations' replay

replayVars == <<samples, replayed, raised, row>>

Replayers == {"mutations", "validator"}

\* deque(maxlen): the validator lacks the max(1, ...).
MaxLen(r) == IF r = "mutations" THEN Max({1, WindowSamples}) ELSE WindowSamples

\* The seeded fault: the queue holds one sample too many.
RememberOneMore(q, bounded, maxlen) ==
  IF Len(q) <= maxlen THEN Append(q, bounded) ELSE Tail(Append(q, bounded))

Remember(q, bounded, maxlen) ==
  IF Len(q) < maxlen THEN Append(q, bounded) ELSE Tail(Append(q, bounded))

Stable(q) == Max({q[i] : i \in DOMAIN q})

ReplayMove(prior, bounded, stable) ==
  IF bounded > prior THEN bounded
  ELSE IF stable < prior THEN Max({stable, prior - MaxScaleDownStep}) ELSE prior

ReplayRow(prior, bounded, stable) ==
  [returned |-> TRUE, bounded |-> bounded, stabilized |-> stable, prior |-> prior,
   commanded |-> ReplayMove(prior, bounded, stable),
   action |-> IF bounded > prior THEN "scale_up"
              ELSE IF stable < prior THEN "scale_down" ELSE "none",
   held |-> ~(bounded > prior) /\ ~(stable < prior) /\ bounded < prior]

ReplayInit ==
  /\ samples = [r \in Replayers |-> << >>]
  /\ replayed = [r \in Replayers |-> InitialReplicas]
  /\ raised = {} /\ row = NoDecision

\* The first count that holds the demand.  The replays do not refuse a negative rate,
\* as the engines do.
ReplayRaw(workload) ==
  LET fits == {i \in DOMAIN CapacityLookup :
                 workload * SafetyFactor <= CapacityLookup[i].rps + Tolerance}
  IN  IF fits = {} THEN NoReplicas ELSE CapacityLookup[Min(fits)].replicas

\* The next row of the forecast; the maximum of an empty queue is an exception.
ReplayDecide(workload) ==
  LET bounded == RefBounded(ReplayRaw(workload))
  IN  /\ ReplayRaw(workload) # NoReplicas
      /\ samples' = [r \in Replayers |-> Remember(samples[r], bounded, MaxLen(r))]
      /\ raised' = raised \cup {r \in Replayers : samples'[r] = << >>}
      /\ replayed' = [r \in Replayers |->
           IF r \in raised' THEN replayed[r]
           ELSE ReplayMove(replayed[r], bounded, Stable(samples'[r]))]
      /\ row' = IF "mutations" \in raised' THEN row
                ELSE ReplayRow(replayed["mutations"], bounded, Stable(samples'["mutations"]))

\* A rate beyond the capacity is an exception, and the end of both replays.
ReplayError(workload) ==
  /\ ReplayRaw(workload) = NoReplicas
  /\ raised' = Replayers
  /\ UNCHANGED <<samples, replayed, row>>

\* The controller does not start on a forecast with a negative rate.
ForecastRates == {w \in Workloads : w >= 0}

ReplayedInit == LockstepInit /\ ReplayInit

ReplayedNext ==
  \E w \in ForecastRates : /\ Decide(w) \/ DecideError(w)
                           /\ RefDecide(w) \/ RefDecideError(w)
                           /\ ReplayDecide(w) \/ ReplayError(w)

ReplayedSpec == ReplayedInit /\ [][ReplayedNext]_<<policyVars, refVars, replayVars>>
-----------------------------------------------------------------------------
\* Without a scale-up limit the shortcuts of the replays are sound: a replay
\* that gets to the end commands what the controller commanded ("policy_replay
\* _exact"), and the study's rows are the controller's decisions.
ReplaysAgree ==
  MaxScaleUpStep = 0 =>
    /\ \A r \in Replayers \ raised : replayed[r] = command
    /\ "mutations" \notin raised => row = decision
=============================================================================
