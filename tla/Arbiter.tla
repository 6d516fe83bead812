------------------------------ MODULE Arbiter ------------------------------
(***************************************************************************)
(* The command arbiter (controller/internal/arbiter): it combines the       *)
(* predictive command and the safety floor into the final command.  Every   *)
(* method holds the arbiter's mutex from its first line to its last, so     *)
(* each call is one step.                                                   *)
(***************************************************************************)
EXTENDS Integers

\* The bounds of the scaling policy, whose Config.Validate already demands what
\* New checks again.
CONSTANTS MinReplicas, MaxReplicas, InitialReplicas

VARIABLES predictive, safetyFloor, final

arbiterVars == <<predictive, safetyFloor, final>>

InBounds(replicas) == replicas \in MinReplicas..MaxReplicas

Init ==
  /\ predictive = InitialReplicas
  /\ safetyFloor = MinReplicas
  /\ final = InitialReplicas

Arbitrated(p, f) == IF f > p THEN f ELSE p

Update(p, f) ==
  /\ InBounds(p) /\ InBounds(f)
  /\ predictive' = p
  /\ safetyFloor' = f
  /\ final' = Arbitrated(p, f)

UpdatePredictive(p) == Update(p, safetyFloor)
UpdateSafetyFloor(f) == Update(predictive, f)

\* An input outside the bounds is an error that changes nothing.
UpdateError(p, f) ==
  /\ ~(InBounds(p) /\ InBounds(f))
  /\ UNCHANGED arbiterVars

Next ==
  \E replicas \in MinReplicas..MaxReplicas : UpdatePredictive(replicas) \/ UpdateSafetyFloor(replicas)

Spec == Init /\ [][Next]_arbiterVars
-----------------------------------------------------------------------------
\* The final command is the larger of the predictive command and the safety
\* floor, and never leaves the replica bounds (STEP16.md, rule 6).
FinalIsMax ==
  /\ predictive \in MinReplicas..MaxReplicas
  /\ safetyFloor \in MinReplicas..MaxReplicas
  /\ final = IF safetyFloor > predictive THEN safetyFloor ELSE predictive
=============================================================================
