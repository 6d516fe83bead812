------------------------------ MODULE Engines -------------------------------
(***************************************************************************)
(* The two decision engines of the controller, each in lockstep with the    *)
(* Python reimplementations the study replays a run with.  They share the   *)
(* capacity comparison and its tolerance, and no state: what joins them is  *)
(* the arbiter (Controller).  A second policy engine has the same code and  *)
(* another configuration, with both step limits, a safety factor and a      *)
(* window of several samples.  One of the three runs.                       *)
(***************************************************************************)
EXTENDS PolicyReplay, SafetyReference

CONSTANTS
  Limits,            \* MinReplicas ... MaxScaleUpStep of the second policy engine
  LimitedWorkloads   \* its rates

\* Config.Validate, of the second configuration.
ASSUME LimitsAssumption ==
  /\ Limits.min \in Nat \ {0}
  /\ Limits.max \in Nat /\ Limits.min <= Limits.max
  /\ Limits.initial \in Limits.min..Limits.max
  /\ Limits.factor \in Nat \ {0}
  /\ Limits.interval \in Nat \ {0}
  /\ Limits.stabilization \in Nat /\ Limits.stabilization % Limits.interval = 0
  /\ Limits.down \in Nat \ {0} /\ Limits.up \in Nat
  /\ IsCapacityLookup(CapacityLookup, Limits.min, Limits.max)
  /\ LimitedWorkloads \subseteq Int

VARIABLES
  engine,            \* the one that runs
  limitedHistory, limitedCommand, limitedSeq, limitedDecision

limitedVars == <<limitedHistory, limitedCommand, limitedSeq, limitedDecision>>
enginesVars == <<engine, policyVars, refVars, replayVars, safetyVars, refSafetyVars, limitedVars>>

Limited == INSTANCE Policy WITH
  MinReplicas <- Limits.min, MaxReplicas <- Limits.max, InitialReplicas <- Limits.initial,
  SafetyFactor <- Limits.factor, StabilizationSecs <- Limits.stabilization,
  DecisionIntervalSecs <- Limits.interval, MaxScaleDownStep <- Limits.down,
  MaxScaleUpStep <- Limits.up, Workloads <- LimitedWorkloads,
  history <- limitedHistory, command <- limitedCommand, seq <- limitedSeq,
  decision <- limitedDecision

EnginesInit ==
  /\ engine \in {"policy", "limited", "safety"}
  /\ ReplayedInit /\ SafetyLockstepInit /\ Limited!PolicyInit

EnginesNext ==
  /\ UNCHANGED engine
  /\ \/ engine = "policy" /\ ReplayedNext /\ UNCHANGED <<safetyVars, refSafetyVars, limitedVars>>
     \/ engine = "safety" /\ SafetyLockstepNext
        /\ UNCHANGED <<policyVars, refVars, replayVars, limitedVars>>
     \/ engine = "limited" /\ Limited!PolicyNext
        /\ UNCHANGED <<policyVars, refVars, replayVars, safetyVars, refSafetyVars>>

EnginesSpec == EnginesInit /\ [][EnginesNext]_enginesVars
-----------------------------------------------------------------------------
\* With and without step limits, a demand that stays constant is met exactly as
\* soon as the window has forgotten everything else and the largest distance has
\* been walked in steps (Decide, policy.go:119-144).
EnginesSettle == SettlesOnConstantDemand /\ Limited!SettlesOnConstantDemand
=============================================================================
