------------------------------- MODULE Safety -------------------------------
(***************************************************************************)
(* The reactive safety engine (controller/internal/safety/safety.go).  Each *)
(* call of Evaluate takes one completed observation window, the Ready       *)
(* replica count and the predictive command, and moves a replica floor.     *)
(* The safety policy is a file of its own, so the engine has its own        *)
(* capacity table and replica bounds.                                       *)
(***************************************************************************)
EXTENDS Capacity

CONSTANTS
  SafetyLookup, SafetyMin, SafetyMax,
  ObservationSecs, PersistenceSecs, ReleaseHoldSecs,
  Demands,          \* observed demands, in the unit of the lookup's rates
  ReadyCounts,      \* what the Deployment may report as Ready
  MaxWindows        \* bound: observation windows of a run

\* Config.Validate.
ASSUME SafetyConfigAssumption ==
  /\ SafetyMin \in Nat \ {0}
  /\ SafetyMax \in Nat /\ SafetyMin <= SafetyMax
  /\ ObservationSecs \in Nat \ {0}
  /\ PersistenceSecs \in Nat /\ PersistenceSecs >= ObservationSecs
  /\ PersistenceSecs % ObservationSecs = 0
  /\ ReleaseHoldSecs \in Nat /\ ReleaseHoldSecs % ObservationSecs = 0
  /\ IsCapacityLookup(SafetyLookup, SafetyMin, SafetyMax)

ASSUME SafetyInputAssumption ==
  Demands \subseteq Nat /\ ReadyCounts \subseteq Nat /\ MaxWindows \in Nat

VARIABLES
  overloadWindows,  \* length of the current run of overloaded windows
  holdWindows,      \* quiet windows left before the floor is released
  floor, active,
  sequence,         \* the next safety sequence number
  evaluation,       \* what the last call of Evaluate returned
  windows           \* history: what every evaluated window looked like

engineVars == <<overloadWindows, holdWindows, floor, active, sequence>>
safetyVars == <<engineVars, evaluation, windows>>

PersistenceWindows == PersistenceSecs \div ObservationSecs
HoldWindows == ReleaseHoldSecs \div ObservationSecs

Required(demand) == RequiredReplicas(SafetyLookup, demand)

\* Everything Evaluate refuses before it touches the engine.
Evaluable(demand, ready, predictive) ==
  /\ predictive \in SafetyMin..SafetyMax
  /\ ready \in ListedReplicas(SafetyLookup)
  /\ Required(demand) # NoReplicas

OverloadRun(demand, ready) ==
  IF Overloaded(SafetyLookup, demand, ready) THEN overloadWindows + 1 ELSE 0

Triggered(demand, ready) ==
  /\ Overloaded(SafetyLookup, demand, ready)
  /\ OverloadRun(demand, ready) >= PersistenceWindows

\* Enough overloaded windows in a row: raise the floor and restart the hold.
Intervene(required) ==
  /\ floor' = Max({floor, required})
  /\ holdWindows' = HoldWindows
  /\ active' = TRUE

\* The seeded fault: the hold is not restarted by a new need.
ExtendWithoutReset == UNCHANGED <<holdWindows, floor, active>>

\* The floor is still needed: restart the hold.
Extend ==
  /\ holdWindows' = HoldWindows
  /\ UNCHANGED <<floor, active>>

\* A quiet window: count it, and release the floor with the last one.
CountDown ==
  /\ holdWindows' = Max({0, holdWindows - 1})
  /\ IF holdWindows' = 0
     THEN floor' = SafetyMin /\ active' = FALSE
     ELSE UNCHANGED <<floor, active>>

EventOf(required) ==
  IF ~active /\ active' THEN "intervention_started"
  ELSE IF active /\ ~active' THEN "intervention_released"
  ELSE IF floor' > floor THEN "intervention_raised" ELSE "none"

NoEvaluation == [returned |-> FALSE]

\* Evaluate, for an observation the engine accepts.
Evaluate(demand, ready, predictive) ==
  LET required == Required(demand)
      needed == required > predictive
      overload == Overloaded(SafetyLookup, demand, ready)
  IN  /\ Evaluable(demand, ready, predictive)
      /\ \/ Triggered(demand, ready) /\ Intervene(required)
         \/ ~Triggered(demand, ready) /\ active /\ needed /\ Extend
         \/ ~Triggered(demand, ready) /\ active /\ ~needed /\ CountDown
         \/ ~Triggered(demand, ready) /\ ~active /\ UNCHANGED <<holdWindows, floor, active>>
      /\ overloadWindows' = OverloadRun(demand, ready)
      /\ sequence' = sequence + 1
      /\ evaluation' =
           [returned |-> TRUE, overload |-> overload, ready |-> ready, required |-> required,
            event |-> EventOf(required),
            floor |-> IF active' THEN floor' ELSE SafetyMin]
      /\ windows' = Append(windows, [overload |-> overload, needed |-> needed,
                                     required |-> required])

\* Evaluate, for anything else: an error, and the engine is untouched.
EvaluateError(demand, ready, predictive) ==
  /\ ~Evaluable(demand, ready, predictive)
  /\ evaluation' = NoEvaluation
  /\ UNCHANGED <<engineVars, windows>>

SafetyInit ==
  /\ overloadWindows = 0 /\ holdWindows = 0
  /\ floor = SafetyMin /\ active = FALSE
  /\ sequence = 0 /\ evaluation = NoEvaluation
  /\ windows = << >>

\* The engine alone, on every input: the predictive command may even be one
\* outside the safety policy's bounds.
SafetyNext ==
  /\ sequence < MaxWindows
  /\ \E demand \in Demands, ready \in ReadyCounts, predictive \in (SafetyMin - 1)..SafetyMax :
       \/ Evaluate(demand, ready, predictive)
       \/ EvaluateError(demand, ready, predictive)

SafetySpec == SafetyInit /\ [][SafetyNext]_safetyVars
-----------------------------------------------------------------------------
Events == {"none", "intervention_started", "intervention_raised", "intervention_released"}
Evaluations ==
  [returned : {TRUE}, overload : BOOLEAN, ready : ListedReplicas(SafetyLookup),
   required : ListedReplicas(SafetyLookup),
   event : Events, floor : Nat \ {0}]
WindowFacts == [overload : BOOLEAN, needed : BOOLEAN, required : ListedReplicas(SafetyLookup)]

\* The counters stay in range, an inactive engine has no floor of its own, and
\* an active one has quiet windows left to count (Evaluate).
SafetyTypeOK ==
  /\ overloadWindows \in Nat /\ overloadWindows <= sequence
  /\ holdWindows \in 0..HoldWindows
  /\ floor \in Nat /\ floor >= SafetyMin
  /\ active \in BOOLEAN
  /\ sequence \in Nat /\ sequence = Len(windows)
  /\ evaluation \in Evaluations \cup {NoEvaluation}
  /\ windows \in Seq(WindowFacts)
  /\ ~active => floor = SafetyMin /\ holdWindows = 0

Promise == INSTANCE SafetyPromise
             WITH FloorMin <- SafetyMin, Windows <- WindowFacts

\* The engine's counters implement the promise on the window history: it
\* intervenes after exactly the persistence, keeps the largest requirement, and
\* releases after exactly the hold.
KeepsPromise == Promise!Spec

\* A window is overloaded exactly when its demand needs more replicas than are
\* Ready: the two lookups and their tolerances never disagree, so a triggered
\* floor always asks for more than is Ready.
OverloadMeansTooFewReady ==
  evaluation # NoEvaluation =>
    /\ evaluation.overload <=> evaluation.required > evaluation.ready
    /\ evaluation.event \in {"intervention_started", "intervention_raised"}
         => evaluation.floor > evaluation.ready
=============================================================================
