-------------------------- MODULE ControllerProofs --------------------------
(***************************************************************************)
(* Proofs about the running controller, for every configuration, trace and  *)
(* run of observations: what each engine does inside it, the type invariant *)
(* with the mutex discipline, and that the two goroutines together are a    *)
(* single scale writer.                                                     *)
(***************************************************************************)
EXTENDS Controller, DecisionProofs

\* What an action leaves alone is spelled out variable by variable everywhere.
USE DEF vars, engines, cluster, client, process, work

-----------------------------------------------------------------------------
(* The policy engine and the arbiter inside the controller.                *)

\* The scale calls leave every engine alone.
LEMMA ScaleStepKeepsEngines ==
  ASSUME NEW a \in Actors, ScaleStep(a)
  PROVE  UNCHANGED engines
BY DEF ScaleStep, GetScale, UpdateScale, ScaleCallFails, UpdateScaleInDoubt, WriteRecord, Answer

\* Every step of the controller is a call of Decide or leaves the policy alone.
LEMMA StepOfPolicy == [Next]_vars => [PolicyNext]_policyVars
<1> SUFFICES ASSUME [Next]_vars PROVE [PolicyNext]_policyVars
  OBVIOUS
<1>1. CASE TickerStep
  <2>1. ASSUME NEW w \in Workloads, TickDecide(w) \/ TickPolicyError(w)
        PROVE  PolicyNext
    BY <2>1 DEF TickDecide, TickPolicyError, PolicyNext
  <2>2. CASE TickArbitrate \/ TickDirect \/ TickerEnds
    BY <2>2 DEF TickArbitrate, TickDirect, TickerEnds
  <2>3. CASE ScaleStep("ticker")
    BY <2>3, ScaleStepKeepsEngines DEF Actors
  <2> QED BY <1>1, <2>1, <2>2, <2>3 DEF TickerStep
<1>2. CASE HandlerStep
  <2>1. CASE SafetyLock \/ ReadyReadRetries \/ ReadyReadGivesUp
    BY <2>1 DEF SafetyLock, ReadyReadRetries, ReadyReadGivesUp, SafetyFails
  <2>2. ASSUME NEW ready \in ReadyCounts, SafetyDecide(ready) \/ SafetyRefuses(ready)
        PROVE  UNCHANGED policyVars
    BY <2>2 DEF SafetyDecide, SafetyRefuses, SafetyFails
  <2>3. CASE ScaleStep("handler")
    BY <2>3, ScaleStepKeepsEngines DEF Actors
  <2> QED BY <1>2, <2>1, <2>2, <2>3 DEF HandlerStep
<1>3. CASE ProcessExit \/ Environment \/ UNCHANGED vars
  BY <1>3 DEF ProcessExit, Environment, Signal, StatusUpdate, PublisherGivesUp, PostObservation
<1> QED BY <1>1, <1>2, <1>3 DEF Next

\* The goroutines do not disturb the policy engine: inside the controller it
\* still is the engine of Policy, which only the ticker calls.
THEOREM ControllerRunsPolicy == Spec => PolicySpec
<1>1. Init => PolicyInit
  BY DEF Init
<1> QED BY <1>1, StepOfPolicy, PTL DEF Spec, PolicySpec

\* Every step of the controller is one update of the arbiter or none.
LEMMA StepOfArbiter == [Next]_vars => [Arb!Next]_(Arb!arbiterVars)
<1> SUFFICES ASSUME [Next]_vars PROVE [Arb!Next]_(Arb!arbiterVars)
  OBVIOUS
<1> USE DEF Arb!arbiterVars
<1>1. CASE TickerStep
  <2>1. ASSUME NEW w \in Workloads, TickDecide(w) \/ TickPolicyError(w)
        PROVE  UNCHANGED Arb!arbiterVars
    BY <2>1 DEF TickDecide, TickPolicyError
  <2>2. CASE TickArbitrate
    BY <2>2 DEF TickArbitrate, Arb!Next, Arb!UpdatePredictive, Arb!Update, Arb!InBounds
  <2>3. CASE TickDirect \/ TickerEnds
    BY <2>3 DEF TickDirect, TickerEnds
  <2>4. CASE ScaleStep("ticker")
    BY <2>4, ScaleStepKeepsEngines DEF Actors
  <2> QED BY <1>1, <2>1, <2>2, <2>3, <2>4 DEF TickerStep
<1>2. CASE HandlerStep
  <2>1. CASE SafetyLock \/ ReadyReadRetries \/ ReadyReadGivesUp
    BY <2>1 DEF SafetyLock, ReadyReadRetries, ReadyReadGivesUp, SafetyFails
  <2>2. ASSUME NEW ready \in ReadyCounts, SafetyDecide(ready)
        PROVE  Arb!Next
    <3>1. Arb!UpdateSafetyFloor(evaluation'.floor)
      BY <2>2 DEF SafetyDecide
    <3> QED BY <3>1 DEF Arb!Next, Arb!UpdateSafetyFloor, Arb!Update, Arb!InBounds
  <2>3. ASSUME NEW ready \in ReadyCounts, SafetyRefuses(ready)
        PROVE  UNCHANGED Arb!arbiterVars
    BY <2>3 DEF SafetyRefuses
  <2>4. CASE ScaleStep("handler")
    BY <2>4, ScaleStepKeepsEngines DEF Actors
  <2> QED BY <1>2, <2>1, <2>2, <2>3, <2>4 DEF HandlerStep
<1>3. CASE ProcessExit \/ Environment \/ UNCHANGED vars
  BY <1>3 DEF ProcessExit, Environment, Signal, StatusUpdate, PublisherGivesUp, PostObservation
<1> QED BY <1>1, <1>2, <1>3 DEF Next

\* However ticks and observations interleave, the arbiter sees one update after
\* the other, each of one of its two inputs.
THEOREM ControllerRunsArbiter == Spec => Arb!Spec
<1>1. Init => Arb!Init
  BY DEF Init
<1> QED BY <1>1, StepOfArbiter, PTL DEF Spec, Arb!Spec

\* A new arbiter has a final command that is the larger of its inputs.
LEMMA FinalIsMaxInit == Arb!Init => FinalIsMax
BY BoundsAreInt, PolicyConfigAssumption DEF Arb!Init, FinalIsMax, Arb!FinalIsMax

\* Every update keeps it so.
LEMMA FinalIsMaxStep == FinalIsMax /\ [Arb!Next]_(Arb!arbiterVars) => FinalIsMax'
BY DEF FinalIsMax, Arb!FinalIsMax, Arb!Next, Arb!UpdatePredictive, Arb!UpdateSafetyFloor,
       Arb!Update, Arb!InBounds, Arb!Arbitrated, Arb!arbiterVars

\* At every moment of the run the final command is the larger of the predictive
\* command and the safety floor, and within the replica bounds.
THEOREM ControllerFinalIsMax == Spec => []FinalIsMax
BY ControllerRunsArbiter, FinalIsMaxInit, FinalIsMaxStep, PTL DEF Arb!Spec
-----------------------------------------------------------------------------
(* The control state: an inductive invariant in named parts.               *)

Places == {"waiting", "decided", "get", "put", "record", "idle", "accepted", "reading"}

\* Each goroutine is at one of its own places.
PlacesOK ==
  /\ pc \in [Actors -> Places]
  /\ pc["ticker"] \in {"waiting", "decided", "get", "put", "record"}
  /\ pc["handler"] \in {"idle", "accepted", "reading", "get", "put", "record"}

\* It has a record exactly while it works on a decision.
JobsOK ==
  /\ job \in [Actors -> Jobs \cup {NoJob}]
  /\ \A a \in Actors : IF Busy(a) THEN job[a] \in Jobs ELSE job[a] = NoJob

\* The decision mutex is held from arbitration to the record; without the
\* safety net nobody takes it, and the handler never runs.
MutexOK ==
  /\ decisionMu \in Actors \cup {"free"}
  /\ decisionMu = "ticker" <=> (SafetyEnabled /\ Busy("ticker"))
  /\ decisionMu = "handler" <=> (Busy("handler") \/ pc["handler"] = "reading")
  /\ ~SafetyEnabled => pc["handler"] = "idle"

\* The request the handler works on is one the publisher sent.
RequestOK ==
  /\ request \in [demand : Nat, attempts : 0..ReadyReadMaxAttempts]
  /\ pc["handler"] \in {"accepted", "reading"} => request.demand \in Demands

\* The publisher has one request under way, and the handler runs only for it
\* or for one the publisher has given up on.
PublisherOK ==
  /\ publisher \in {"idle", "waiting", "stopped"}
  /\ acked \in 0..MaxWindows
  /\ publisher = "idle" => pc["handler"] = "idle"
  /\ publisher = "waiting" => acked < MaxWindows

\* A tick that is not arbitrated yet carries the policy's latest decision.
DecidedOK ==
  pc["ticker"] = "decided" =>
    seq > 0 /\ decision \in Decisions /\ decision.commanded = command

SurroundingsOK ==
  /\ proc \in {"running", "completed", "stopping", "exited"}
  /\ cancelled \in BOOLEAN /\ fresh \in BOOLEAN
  /\ deployment \in Replicas
  /\ faults \subseteq {"scale", "record"}

ControlOK == PlacesOK /\ JobsOK /\ MutexOK /\ RequestOK /\ PublisherOK /\ DecidedOK
             /\ SurroundingsOK

\* With the engines' own invariants it is inductive.
ControllerInvariant == PolicyTypeOK /\ SafetyInvariant /\ FinalIsMax /\ ControlOK

\* The type invariant is one of its consequences.
LEMMA InvariantIsTyped == ControllerInvariant => ControllerTypeOK
BY DEF ControllerInvariant, SafetyInvariant, ControlOK, PlacesOK, JobsOK, MutexOK, RequestOK,
       PublisherOK, DecidedOK, SurroundingsOK, ControllerTypeOK, Busy, Actors

\* A process starts in it.
LEMMA InvariantInit == Init => ControllerInvariant
<1> SUFFICES ASSUME Init PROVE ControllerInvariant
  OBVIOUS
<1>1. PolicyTypeOK /\ SafetyInvariant /\ FinalIsMax
  BY PolicyTypeInit, SafetyInvariantInit, FinalIsMaxInit DEF Init
<1>2. PlacesOK
  BY DEF Init, PlacesOK, Places, Actors
<1>3. JobsOK
  BY DEF Init, JobsOK, Busy, Actors
<1>4. MutexOK /\ PublisherOK /\ DecidedOK
  BY SafetyInputAssumption DEF Init, MutexOK, PublisherOK, DecidedOK, Busy, Actors
<1>5. RequestOK
  BY DEF Init, RequestOK, NoRequest, ReadyReadMaxAttempts
<1>6. SurroundingsOK
  BY BoundsAreInt DEF Init, SurroundingsOK
<1> QED BY <1>1, <1>2, <1>3, <1>4, <1>5, <1>6 DEF ControllerInvariant, ControlOK

\* Apply leaves the goroutine with a record to fill in, and the other alone.
LEMMA ApplyEffect ==
  ASSUME PlacesOK, JobsOK, FinalIsMax',
         NEW a \in Actors, NEW source \in {"predictive", "safety"}, NEW input \in Nat,
         NEW prior \in Replicas, NEW replicas \in Replicas,
         Apply(a, source, input, prior, replicas)
  PROVE  /\ job' \in [Actors -> Jobs \cup {NoJob}]
         /\ job'[a] \in Jobs /\ job'[a].final = replicas /\ job'[a].prior = prior
         /\ pc'[a] = IF replicas = prior THEN "record" ELSE "get"
         /\ pc' \in [Actors -> Places]
         /\ \A b \in Actors \ {a} : job'[b] = job[b] /\ pc'[b] = pc[b]
<1> DEFINE r == [source |-> source, input |-> input, prior |-> prior, final |-> replicas,
                 predictive |-> predictive', floor |-> safetyFloor',
                 result |-> IF replicas = prior THEN "not_required" ELSE "pending"]
<1>1. predictive' \in Replicas /\ safetyFloor' \in Replicas
  BY DEF FinalIsMax, Arb!FinalIsMax, Replicas
<1>2. r \in Jobs /\ r.final = replicas /\ r.prior = prior
  BY <1>1 DEF Jobs, Results
<1>3. job' = [job EXCEPT ![a] = r] /\ pc' = [pc EXCEPT ![a] = IF replicas = prior THEN "record" ELSE "get"]
  BY DEF Apply, Goto
<1> HIDE DEF r
<1> QED BY <1>2, <1>3 DEF PlacesOK, JobsOK, Places
-----------------------------------------------------------------------------
(* One lemma per action, or per group of actions that move little.         *)

USE DEF policyVars

\* The next row is decided: the ticker moves to "decided" with it.
LEMMA TickDecideKeepsControl ==
  ASSUME ControlOK, PolicyTypeOK, PolicyTypeOK', NEW w \in Workloads, TickDecide(w)
  PROVE  ControlOK'
<1> USE DEF ControlOK, PlacesOK
<1>1. pc["ticker"] = "waiting" /\ pc' = [pc EXCEPT !["ticker"] = "decided"]
  BY DEF TickDecide, Goto
<1>2. PlacesOK'
  BY <1>1 DEF Places, Actors
<1>3. pc'["ticker"] = "decided" /\ pc'["handler"] = pc["handler"]
  BY <1>1 DEF Actors
<1>4. Busy("ticker")' = Busy("ticker") /\ Busy("handler")' = Busy("handler")
  BY <1>1, <1>3 DEF Busy
<1>5. JobsOK' /\ MutexOK' /\ RequestOK' /\ PublisherOK' /\ SurroundingsOK'
  BY <1>3, <1>4 DEF TickDecide, JobsOK, MutexOK, RequestOK, PublisherOK, SurroundingsOK, Actors
<1>6. seq' > 0 /\ decision'.commanded = command' /\ decision'.returned
  BY DEF TickDecide, Decide, DecisionOf, PolicyTypeOK
<1>7. DecidedOK'
  BY <1>6 DEF PolicyTypeOK, NoDecision, DecidedOK
<1> QED BY <1>2, <1>5, <1>7

\* The policy refuses the row: the ticker only leaves a record.
LEMMA TickPolicyErrorKeepsControl ==
  ASSUME ControlOK, NEW w \in Workloads, TickPolicyError(w)
  PROVE  ControlOK'
BY DEF TickPolicyError, Fails, ControlOK, PlacesOK, JobsOK, MutexOK, RequestOK, PublisherOK,
       DecidedOK, SurroundingsOK, Busy

\* A decision is arbitrated, or passed on without the safety net: the ticker
\* gets a record, and the mutex if there is anybody to share it with.
LEMMA TickArbitrateKeepsControl ==
  ASSUME ControlOK, PolicyTypeOK, FinalIsMax, FinalIsMax', TickArbitrate \/ TickDirect
  PROVE  ControlOK'
<1> USE DEF ControlOK
<1>1. PICK prior \in Replicas, replicas \in Replicas :
        Apply("ticker", "predictive", seq - 1, prior, replicas)
  <2>1. final \in Replicas /\ final' \in Replicas
    BY DEF FinalIsMax, Arb!FinalIsMax, Replicas
  <2>2. TickDirect => decision \in Decisions
    BY DEF TickDirect, DecidedOK
  <2> QED BY <2>1, <2>2 DEF TickArbitrate, TickDirect, Decisions
<1>2. seq - 1 \in Nat /\ pc["ticker"] = "decided"
  BY DEF TickArbitrate, TickDirect, DecidedOK, PolicyTypeOK
<1>3. /\ job' \in [Actors -> Jobs \cup {NoJob}] /\ job'["ticker"] \in Jobs
      /\ job'["handler"] = job["handler"] /\ pc'["handler"] = pc["handler"]
      /\ pc' \in [Actors -> Places] /\ pc'["ticker"] \in {"get", "record"}
  BY <1>1, <1>2, ApplyEffect DEF Actors
<1>4. PlacesOK'
  BY <1>3 DEF PlacesOK
<1>5. Busy("ticker")' /\ Busy("handler")' = Busy("handler") /\ ~Busy("ticker")
  BY <1>2, <1>3 DEF Busy
<1>6. JobsOK'
  BY <1>3, <1>5 DEF JobsOK, Actors
<1>7. MutexOK'
  <2>1. CASE TickArbitrate
    <3>1. SafetyEnabled /\ decisionMu = "free" /\ decisionMu' = "ticker"
      BY <2>1 DEF TickArbitrate, Lock
    <3> QED BY <1>3, <1>5, <3>1 DEF MutexOK, Actors
  <2>2. CASE TickDirect
    BY <1>3, <1>5, <2>2 DEF TickDirect, MutexOK
  <2> QED BY <2>1, <2>2
<1>8. RequestOK' /\ PublisherOK' /\ DecidedOK' /\ SurroundingsOK'
  BY <1>3 DEF TickArbitrate, TickDirect, RequestOK, PublisherOK, DecidedOK, SurroundingsOK
<1> QED BY <1>4, <1>6, <1>7, <1>8

\* The trace or the process ends, a signal or a status update arrives, or the
\* publisher gives up: no goroutine moves.
LEMMA SurroundingsKeepControl ==
  ASSUME ControlOK,
         TickerEnds \/ ProcessExit \/ Signal \/ StatusUpdate \/ PublisherGivesUp
  PROVE  ControlOK'
<1> USE DEF ControlOK
<1>1. UNCHANGED <<policyVars, work, deployment, acked>>
  BY DEF TickerEnds, ProcessExit, Signal, StatusUpdate, PublisherGivesUp
<1>2. PlacesOK' /\ JobsOK' /\ MutexOK' /\ RequestOK' /\ DecidedOK'
  BY <1>1 DEF PlacesOK, JobsOK, MutexOK, RequestOK, DecidedOK, Busy
<1>3. publisher' \in {publisher, "stopped"}
  BY DEF TickerEnds, ProcessExit, Signal, StatusUpdate, PublisherGivesUp
<1>4. PublisherOK'
  BY <1>1, <1>3 DEF PublisherOK
<1>5. /\ proc' \in {"running", "completed", "stopping", "exited"}
      /\ cancelled' \in BOOLEAN /\ fresh' \in BOOLEAN
  BY DEF TickerEnds, ProcessExit, Signal, StatusUpdate, PublisherGivesUp, SurroundingsOK
<1>6. SurroundingsOK'
  BY <1>1, <1>5 DEF SurroundingsOK
<1> QED BY <1>2, <1>4, <1>6

\* The publisher's next window arrives at an idle handler.
LEMMA PostObservationKeepsControl ==
  ASSUME ControlOK, NEW d \in Demands, PostObservation(d)
  PROVE  ControlOK'
<1> USE DEF ControlOK
<1>1. pc["handler"] = "idle" /\ pc' = [pc EXCEPT !["handler"] = "accepted"]
  BY DEF PostObservation, Goto, PublisherOK
<1>2. pc'["handler"] = "accepted" /\ pc'["ticker"] = pc["ticker"] /\ PlacesOK'
  BY <1>1 DEF PlacesOK, Places, Actors
<1>3. Busy("ticker")' = Busy("ticker") /\ ~Busy("handler")' /\ ~Busy("handler")
  BY <1>1, <1>2 DEF Busy
<1>4. JobsOK' /\ MutexOK' /\ PublisherOK' /\ DecidedOK' /\ SurroundingsOK'
  BY <1>1, <1>2, <1>3 DEF PostObservation, JobsOK, MutexOK, PublisherOK, DecidedOK,
     SurroundingsOK, Actors
<1>5. request' = [demand |-> d, attempts |-> 0]
  BY DEF PostObservation, NoRequest
<1>6. RequestOK'
  BY <1>5, SafetyInputAssumption DEF RequestOK, ReadyReadMaxAttempts
<1> QED BY <1>2, <1>4, <1>6

\* The handler takes the mutex, or reads Ready once more.
LEMMA ReadingKeepsControl ==
  ASSUME ControlOK, SafetyLock \/ ReadyReadRetries
  PROVE  ControlOK'
<1> USE DEF ControlOK
<1>1. /\ pc["handler"] \in {"accepted", "reading"}
      /\ pc' \in [Actors -> Places]
      /\ pc'["handler"] = "reading" /\ pc'["ticker"] = pc["ticker"]
  BY DEF SafetyLock, ReadyReadRetries, Goto, PlacesOK, Places, Actors
<1>2. PlacesOK'
  BY <1>1 DEF PlacesOK
<1>3. Busy("ticker")' = Busy("ticker") /\ ~Busy("handler")' /\ ~Busy("handler")
  BY <1>1 DEF Busy
<1>4. MutexOK'
  <2>1. CASE SafetyLock
    BY <1>1, <1>3, <2>1 DEF SafetyLock, Lock, MutexOK, Actors
  <2>2. CASE ReadyReadRetries
    BY <1>1, <1>3, <2>2 DEF ReadyReadRetries, MutexOK
  <2> QED BY <2>1, <2>2
<1>5. JobsOK' /\ PublisherOK' /\ DecidedOK' /\ SurroundingsOK'
  BY <1>1, <1>3 DEF SafetyLock, ReadyReadRetries, JobsOK, PublisherOK, DecidedOK,
     SurroundingsOK, Actors
<1>6. /\ request'.demand = request.demand
      /\ request' \in [demand : Nat, attempts : 0..ReadyReadMaxAttempts]
  BY DEF SafetyLock, ReadyReadRetries, RequestOK, ReadyReadMaxAttempts
<1>7. RequestOK'
  BY <1>1, <1>6 DEF RequestOK
<1> QED BY <1>2, <1>4, <1>5, <1>7

\* The handler fails before it arbitrates: it releases the mutex.
LEMMA SafetyFailsKeepsControl ==
  ASSUME ControlOK, pc["handler"] = "reading", SafetyFails
  PROVE  ControlOK'
<1> USE DEF ControlOK
<1>1. /\ pc' \in [Actors -> Places]
      /\ pc'["handler"] = "idle" /\ pc'["ticker"] = pc["ticker"]
  BY DEF SafetyFails, Goto, PlacesOK, Places, Actors
<1>2. PlacesOK'
  BY <1>1 DEF PlacesOK
<1>3. Busy("ticker")' = Busy("ticker") /\ ~Busy("handler")' /\ ~Busy("handler")
  BY <1>1 DEF Busy
<1>4. MutexOK'
  BY <1>1, <1>3 DEF SafetyFails, Unlock, MutexOK, Actors
<1>5. JobsOK' /\ PublisherOK' /\ DecidedOK' /\ SurroundingsOK'
  BY <1>1, <1>3 DEF SafetyFails, Fails, JobsOK, PublisherOK, DecidedOK, SurroundingsOK, Actors
<1>6. RequestOK'
  BY <1>1 DEF SafetyFails, NoRequest, RequestOK, ReadyReadMaxAttempts
<1> QED BY <1>2, <1>4, <1>5, <1>6

\* The handler arbitrates its floor under the mutex it already holds.
LEMMA SafetyDecideKeepsControl ==
  ASSUME ControlOK, FinalIsMax, FinalIsMax', NEW ready \in ReadyCounts, SafetyDecide(ready)
  PROVE  ControlOK'
<1> USE DEF ControlOK
<1>1. final \in Replicas /\ final' \in Replicas /\ acked \in Nat
  BY SafetyInputAssumption DEF FinalIsMax, Arb!FinalIsMax, Replicas, PublisherOK
<1>2. Apply("handler", "safety", acked, final, final') /\ pc["handler"] = "reading"
  BY DEF SafetyDecide
<1>3. /\ job' \in [Actors -> Jobs \cup {NoJob}] /\ job'["handler"] \in Jobs
      /\ job'["ticker"] = job["ticker"] /\ pc'["ticker"] = pc["ticker"]
      /\ pc' \in [Actors -> Places] /\ pc'["handler"] \in {"get", "record"}
  BY <1>1, <1>2, ApplyEffect DEF Actors
<1>4. PlacesOK'
  BY <1>3 DEF PlacesOK
<1>5. Busy("handler")' /\ Busy("ticker")' = Busy("ticker")
  BY <1>3 DEF Busy
<1>6. JobsOK'
  BY <1>3, <1>5 DEF JobsOK, Actors
<1>7. MutexOK'
  BY <1>2, <1>3, <1>5 DEF SafetyDecide, MutexOK
<1>8. RequestOK' /\ PublisherOK' /\ DecidedOK' /\ SurroundingsOK'
  BY <1>2, <1>3 DEF SafetyDecide, RequestOK, PublisherOK, DecidedOK, SurroundingsOK
<1> QED BY <1>4, <1>6, <1>7, <1>8

\* A scale call is answered: the record gets its result.
LEMMA AnswerKeepsControl ==
  ASSUME ControlOK, NEW a \in Actors, pc[a] \in {"get", "put"},
         NEW result \in {"success", "error"}, Answer(a, result), deployment' \in Replicas
  PROVE  ControlOK'
<1> USE DEF ControlOK
<1>1. Busy(a) /\ job[a] \in Jobs
  BY DEF Busy, JobsOK
<1> DEFINE r == [job[a] EXCEPT !.result = result]
<1>2. r \in Jobs
  BY <1>1 DEF Jobs, Results
<1>3. job' = [job EXCEPT ![a] = r] /\ pc' = [pc EXCEPT ![a] = "record"]
  BY DEF Answer, Goto
<1>4. PlacesOK' /\ Busy(a)' /\ \A b \in Actors \ {a} : pc'[b] = pc[b]
  BY <1>3 DEF PlacesOK, Places, Actors, Busy
<1>5. \A b \in Actors : Busy(b)' = Busy(b)
  BY <1>1, <1>4 DEF Busy
<1> HIDE DEF r
<1>6. JobsOK'
  BY <1>1, <1>2, <1>3, <1>5 DEF JobsOK
<1>7. (pc'["handler"] # "reading" /\ pc["handler"] # "reading") \/ pc'["handler"] = pc["handler"]
  BY <1>3, <1>4 DEF Actors
<1>8. pc'["handler"] = "idle" <=> pc["handler"] = "idle"
  BY <1>3, <1>4 DEF Actors, PlacesOK
<1>9. MutexOK'
  BY <1>5, <1>7, <1>8 DEF Answer, MutexOK, Actors
<1>10. pc'["handler"] \in {"accepted", "reading"} => pc'["handler"] = pc["handler"]
  BY <1>3, <1>4 DEF Actors, PlacesOK
<1>11. pc'["ticker"] # "decided" \/ pc'["ticker"] = pc["ticker"]
  BY <1>3, <1>4 DEF Actors, PlacesOK
<1>12. RequestOK' /\ PublisherOK' /\ DecidedOK' /\ SurroundingsOK'
  BY <1>8, <1>10, <1>11 DEF Answer, RequestOK, PublisherOK, DecidedOK, SurroundingsOK
<1> QED BY <1>4, <1>6, <1>9, <1>12

\* The calls themselves.
LEMMA ScaleCallsKeepControl ==
  ASSUME ControlOK, NEW a \in Actors,
         GetScale(a) \/ UpdateScale(a) \/ ScaleCallFails(a) \/ UpdateScaleInDoubt(a)
  PROVE  ControlOK'
<1>1. CASE GetScale(a)
  <2> USE DEF ControlOK
  <2>1. pc[a] = "get" /\ pc' = [pc EXCEPT ![a] = "put"]
    BY <1>1 DEF GetScale, Goto
  <2>2. PlacesOK' /\ \A b \in Actors : Busy(b)' = Busy(b)
    BY <2>1 DEF PlacesOK, Places, Actors, Busy
  <2>3. \A b \in Actors, p \in {"idle", "accepted", "reading", "decided"} : pc'[b] = p <=> pc[b] = p
    BY <2>1 DEF PlacesOK
  <2>4. JobsOK' /\ MutexOK'
    BY <1>1, <2>2, <2>3 DEF GetScale, JobsOK, MutexOK, Actors
  <2>5. RequestOK' /\ PublisherOK' /\ DecidedOK' /\ SurroundingsOK'
    BY <1>1, <2>3 DEF GetScale, RequestOK, PublisherOK, DecidedOK, SurroundingsOK, Actors
  <2> QED BY <2>2, <2>4, <2>5
<1>2. CASE UpdateScale(a)
  <2>1. job[a] \in Jobs
    BY <1>2 DEF ControlOK, JobsOK, UpdateScale, Busy
  <2> QED BY <1>2, <2>1, AnswerKeepsControl DEF UpdateScale, Jobs
<1>3. CASE ScaleCallFails(a) \/ UpdateScaleInDoubt(a)
  BY <1>3, AnswerKeepsControl DEF ScaleCallFails, UpdateScaleInDoubt, ControlOK, SurroundingsOK
<1> QED BY <1>1, <1>2, <1>3

\* The record is written or lost: the goroutine returns and the mutex is free.
LEMMA WriteRecordKeepsControl ==
  ASSUME ControlOK, NEW a \in Actors, WriteRecord(a)
  PROVE  ControlOK'
<1> USE DEF ControlOK
<1>1. /\ pc[a] = "record" /\ job' = [job EXCEPT ![a] = NoJob]
      /\ pc' = [pc EXCEPT ![a] = IF a = "ticker" THEN "waiting" ELSE "idle"]
  BY DEF WriteRecord, Goto
<1>2. PlacesOK' /\ ~Busy(a)' /\ Busy(a)
      /\ \A b \in Actors \ {a} : pc'[b] = pc[b] /\ Busy(b)' = Busy(b) /\ job'[b] = job[b]
  BY <1>1 DEF PlacesOK, JobsOK, Places, Actors, Busy
<1>3. JobsOK'
  BY <1>1, <1>2 DEF JobsOK
<1>4. pc'["handler"] = IF a = "handler" THEN "idle" ELSE pc["handler"]
  BY <1>1, <1>2 DEF PlacesOK, Actors
<1>5. MutexOK'
  <2>1. decisionMu' = IF decisionMu = a THEN "free" ELSE decisionMu
    BY DEF WriteRecord, Unlock
  <2>2. CASE a = "ticker"
    BY <1>2, <1>4, <2>1, <2>2 DEF MutexOK, Actors
  <2>3. CASE a = "handler"
    BY <1>2, <1>4, <2>1, <2>3 DEF MutexOK, Actors
  <2> QED BY <2>2, <2>3 DEF Actors
<1>6. RequestOK'
  <2>1. request' = IF a = "handler" THEN NoRequest ELSE request
    BY DEF WriteRecord
  <2> QED BY <1>4, <2>1 DEF RequestOK, NoRequest, ReadyReadMaxAttempts
<1>7. DecidedOK'
  <2>1. pc'["ticker"] = "decided" => pc["ticker"] = "decided"
    BY <1>1 DEF PlacesOK, Actors
  <2> QED BY <2>1 DEF WriteRecord, DecidedOK
<1>8. PublisherOK'
  <2>1. publisher' \in {publisher, "idle", "stopped"} /\ acked' \in {acked, acked + 1}
    BY DEF WriteRecord, Fails, Succeeds
  <2>2. publisher' = "idle" => publisher = "idle" \/ a = "handler"
    BY DEF WriteRecord, Fails, Succeeds, PublisherOK
  <2>3. acked' = acked + 1 => acked < MaxWindows
    <3>1. acked' = acked \/ publisher = "waiting"
      BY DEF WriteRecord, Fails, Succeeds
    <3> QED BY <3>1, SafetyInputAssumption DEF PublisherOK
  <2>4. publisher' = "waiting" => publisher = "waiting" /\ acked' = acked
    BY DEF WriteRecord, Fails, Succeeds, PublisherOK
  <2>5. acked' \in 0..MaxWindows
    BY <2>1, <2>3, SafetyInputAssumption DEF PublisherOK
  <2> QED BY <1>4, <2>1, <2>2, <2>4, <2>5 DEF PublisherOK
<1>9. SurroundingsOK'
  <2>1. proc' \in {proc, "stopping"} /\ faults' \in {faults, faults \cup {"record"}}
    BY DEF WriteRecord, Fails, Succeeds
  <2>2. UNCHANGED <<cancelled, fresh, deployment>>
    BY DEF WriteRecord, Fails, Succeeds
  <2> QED BY <2>1, <2>2 DEF SurroundingsOK
<1> QED BY <1>2, <1>3, <1>5, <1>6, <1>7, <1>8, <1>9

\* So does a scale step of either goroutine.
LEMMA ScaleStepKeepsControl ==
  ASSUME ControlOK, NEW a \in Actors, ScaleStep(a)
  PROVE  ControlOK'
BY ScaleCallsKeepControl, WriteRecordKeepsControl DEF ScaleStep
-----------------------------------------------------------------------------
(* The type invariant with the mutex discipline.                           *)

\* Every step keeps the safety engine's invariant: it is called, with the demand
\* of the request, by the handler only.
LEMMA SafetyInvariantKept ==
  ASSUME SafetyInvariant, ControlOK, Next
  PROVE  SafetyInvariant'
<1>1. ASSUME NEW ready \in ReadyCounts, SafetyDecide(ready) \/ SafetyRefuses(ready)
      PROVE  SafetyInvariant'
  <2>1. request.demand \in Demands
    BY <1>1 DEF SafetyDecide, SafetyRefuses, ControlOK, RequestOK
  <2> QED BY <1>1, <2>1, EvaluateKeepsInvariant, EvaluateErrorKeepsInvariant
          DEF SafetyDecide, SafetyRefuses
<1>2. ASSUME NEW a \in Actors, ScaleStep(a)
      PROVE  UNCHANGED safetyVars
  BY <1>2, ScaleStepKeepsEngines
<1>3. ASSUME NEW w \in Workloads, TickDecide(w) \/ TickPolicyError(w)
      PROVE  UNCHANGED safetyVars
  BY <1>3 DEF TickDecide, TickPolicyError
<1>4. CASE TickArbitrate \/ TickDirect \/ TickerEnds \/ ProcessExit \/ Environment
  <2>1. UNCHANGED safetyVars
    BY <1>4 DEF TickArbitrate, TickDirect, TickerEnds, ProcessExit, Environment, Signal,
       StatusUpdate, PublisherGivesUp, PostObservation
  <2> QED BY <2>1, SafetyInvariantUnchanged
<1>5. CASE SafetyLock \/ ReadyReadRetries \/ ReadyReadGivesUp
  <2>1. UNCHANGED safetyVars
    BY <1>5 DEF SafetyLock, ReadyReadRetries, ReadyReadGivesUp
  <2> QED BY <2>1, SafetyInvariantUnchanged
<1> QED BY <1>1, <1>2, <1>3, <1>4, <1>5, SafetyInvariantUnchanged
        DEF Next, TickerStep, HandlerStep, Actors

\* Every step keeps the control state, given the engines' invariants.
LEMMA ControlKept ==
  ASSUME ControllerInvariant, PolicyTypeOK', FinalIsMax', Next
  PROVE  ControlOK'
<1> USE DEF ControllerInvariant
<1>1. CASE TickerStep
  BY <1>1, TickDecideKeepsControl, TickPolicyErrorKeepsControl, TickArbitrateKeepsControl,
     SurroundingsKeepControl, ScaleStepKeepsControl DEF TickerStep, Actors
<1>2. CASE HandlerStep
  <2>1. ASSUME NEW ready \in ReadyCounts, SafetyRefuses(ready)
        PROVE  ControlOK'
    BY <2>1, SafetyFailsKeepsControl DEF SafetyRefuses
  <2>2. CASE ReadyReadGivesUp
    BY <2>2, SafetyFailsKeepsControl DEF ReadyReadGivesUp
  <2> QED BY <1>2, <2>1, <2>2, ReadingKeepsControl, SafetyDecideKeepsControl,
             ScaleStepKeepsControl DEF HandlerStep, Actors
<1>3. CASE ProcessExit \/ Environment
  BY <1>3, SurroundingsKeepControl, PostObservationKeepsControl DEF Environment
<1> QED BY <1>1, <1>2, <1>3 DEF Next

\* The whole invariant is inductive.
LEMMA InvariantStep == ControllerInvariant /\ [Next]_vars => ControllerInvariant'
<1> SUFFICES ASSUME ControllerInvariant, [Next]_vars PROVE ControllerInvariant'
  OBVIOUS
<1>1. PolicyTypeOK'
  BY StepOfPolicy, PolicyTypeStep DEF ControllerInvariant
<1>2. FinalIsMax'
  BY StepOfArbiter, FinalIsMaxStep DEF ControllerInvariant
<1>3. CASE Next
  BY <1>1, <1>2, <1>3, SafetyInvariantKept, ControlKept DEF ControllerInvariant
<1>4. CASE UNCHANGED vars
  <2>1. SafetyInvariant'
    BY <1>4, SafetyInvariantUnchanged DEF ControllerInvariant
  <2>2. ControlOK'
    BY <1>4 DEF ControllerInvariant, ControlOK, PlacesOK, JobsOK, MutexOK, RequestOK,
       PublisherOK, DecidedOK, SurroundingsOK, Busy
  <2> QED BY <1>1, <1>2, <2>1, <2>2 DEF ControllerInvariant
<1> QED BY <1>3, <1>4

\* The invariant holds throughout every run.
LEMMA ControllerInvariantHolds == Spec => []ControllerInvariant
BY InvariantInit, InvariantStep, PTL DEF Spec

\* Every variable stays in its range, and the mutex is held by the goroutine in
\* the middle of a decision, by nobody else and at no other time.
THEOREM ControllerTypeCorrect == Spec => []ControllerTypeOK
BY ControllerInvariantHolds, InvariantIsTyped, PTL
-----------------------------------------------------------------------------
(* Single scale writer.                                                    *)

Scaling(a) == pc[a] \in {"get", "put"}

\* A write under way carries the command in force, only one goroutine has one,
\* and until a scale call has failed the Deployment is at the command in force
\* whenever there is none - but for a tick that is not passed on yet, where it
\* still is at the command before.
OwnershipInvariant ==
  /\ \A a \in Actors : Scaling(a) => job[a].final = Commanded
  /\ "scale" \notin faults /\ (\A a \in Actors : ~Scaling(a)) =>
       IF ~SafetyEnabled /\ pc["ticker"] = "decided"
       THEN deployment = decision.prior ELSE deployment = Commanded

\* While nobody holds the mutex nobody scales, and while a goroutine holds it
\* only that one does.
LEMMA MutexSeparatesWriters ==
  ASSUME ControlOK
  PROVE  /\ SafetyEnabled /\ decisionMu # "ticker" => ~Scaling("ticker")
         /\ decisionMu # "handler" => ~Scaling("handler")
         /\ ~SafetyEnabled => ~Scaling("handler")
BY DEF ControlOK, MutexOK, Scaling, Busy

\* A step that moves neither the commands, nor the Deployment, nor a write under
\* way is a stutter of the promise.
LEMMA QuietStep ==
  ASSUME OwnershipInvariant, UNCHANGED <<final, command, deployment>>,
         \A a \in Actors : Scaling(a) => job'[a] = job[a],
         "scale" \in faults' <=> "scale" \in faults,
         \A a \in Actors : Scaling(a)' => Scaling(a),
         \A a \in Actors : Scaling(a) => Scaling(a)',
         ~SafetyEnabled => (pc'["ticker"] = "decided" <=> pc["ticker"] = "decided"),
         ~SafetyEnabled /\ pc["ticker"] = "decided" => decision' = decision
  PROVE  OwnershipInvariant' /\ UNCHANGED <<Commanded, deployment, "scale" \in faults>>
<1>1. Commanded' = Commanded
  BY DEF Commanded
<1>2. ("scale" \in faults)' = ("scale" \in faults)
  OBVIOUS
<1>3. OwnershipInvariant'
  BY <1>1, <1>2 DEF OwnershipInvariant
<1> QED BY <1>1, <1>2, <1>3

\* At the start the Deployment is at the initial command.
LEMMA OwnershipInit == Init => OwnershipInvariant /\ Ownership!Init
BY DEF Init, OwnershipInvariant, Ownership!Init, Scaling, Commanded, Arb!Init, PolicyInit, Actors

\* The next row is decided.  Without the safety net that is a new command, and
\* the write of the one before is over.
LEMMA TickDecideOwns ==
  ASSUME OwnershipInvariant, ControllerInvariant, ControllerInvariant',
         NEW w \in Workloads, TickDecide(w)
  PROVE  OwnershipInvariant' /\ [Ownership!Next]_<<Commanded, deployment, "scale" \in faults>>
<1>1. pc["ticker"] = "waiting" /\ pc' = [pc EXCEPT !["ticker"] = "decided"]
      /\ UNCHANGED <<final, deployment, job, faults>>
  BY DEF TickDecide, Goto
<1>2. \A a \in Actors : Scaling(a)' = Scaling(a)
  BY <1>1 DEF Scaling, ControllerInvariant, ControlOK, PlacesOK
<1>3. pc'["ticker"] = "decided"
  BY <1>1 DEF ControllerInvariant, ControlOK, PlacesOK, Actors
<1>4. decision'.prior = command
  BY DEF TickDecide, Decide, DecisionOf
<1>5. CASE SafetyEnabled
  <2>1. Commanded' = Commanded
    BY <1>1, <1>5 DEF Commanded
  <2> QED BY <1>1, <1>2, <1>5, <2>1 DEF OwnershipInvariant
<1>6. CASE ~SafetyEnabled
  <2>1. \A a \in Actors : ~Scaling(a)
    BY <1>1, <1>6, MutexSeparatesWriters DEF Scaling, Actors, ControllerInvariant
  <2>2. "scale" \notin faults => deployment = command
    BY <1>1, <1>6, <2>1 DEF OwnershipInvariant, Commanded
  <2>3. OwnershipInvariant'
    <3>1. \A a \in Actors : ~Scaling(a)'
      BY <1>2, <2>1
    <3>2. "scale" \notin faults' => deployment' = decision'.prior
      BY <1>1, <1>4, <2>2
    <3>3. ~SafetyEnabled /\ (pc["ticker"] = "decided")'
      BY <1>3, <1>6
    <3> QED BY <3>1, <3>2, <3>3 DEF OwnershipInvariant
  <2>4. Commanded' \in Nat
    <3>1. command' \in Replicas
      BY DEF ControllerInvariant, PolicyTypeOK
    <3> QED BY <1>6, <3>1, BoundsAreInt DEF Commanded, Replicas
  <2>5. Ownership!Command
    BY <1>1, <1>6, <2>2, <2>4 DEF Ownership!Command, Commanded
  <2> QED BY <2>3, <2>5 DEF Ownership!Next
<1> QED BY <1>5, <1>6

\* A decision is arbitrated under the mutex, by either goroutine: a new command,
\* and nobody else is scaling.
LEMMA ArbitrateOwns ==
  ASSUME OwnershipInvariant, ControllerInvariant, ControllerInvariant', SafetyEnabled,
         NEW a \in Actors, NEW source \in {"predictive", "safety"}, NEW input \in Nat,
         Apply(a, source, input, final, final'),
         \A b \in Actors : ~Scaling(b), UNCHANGED <<deployment, faults>>
  PROVE  OwnershipInvariant' /\ [Ownership!Next]_<<Commanded, deployment, "scale" \in faults>>
<1>1. final \in Replicas /\ final' \in Replicas
  BY DEF ControllerInvariant, FinalIsMax, Arb!FinalIsMax, Replicas
<1>2. /\ job'[a].final = final'
      /\ pc'[a] = IF final' = final THEN "record" ELSE "get"
      /\ \A b \in Actors \ {a} : job'[b] = job[b] /\ pc'[b] = pc[b]
  BY <1>1, ApplyEffect DEF ControllerInvariant, ControlOK
<1>3. Commanded' = final' /\ Commanded = final
  BY DEF Commanded
<1>4. \A b \in Actors : Scaling(b)' => b = a /\ final' # final
  BY <1>2 DEF Scaling
<1>5. \A b \in Actors : Scaling(b)' => job'[b].final = Commanded'
  BY <1>2, <1>3, <1>4
<1>6. "scale" \notin faults => deployment = final
  BY <1>3 DEF OwnershipInvariant
<1>7. (\A b \in Actors : ~Scaling(b)') => final' = final
  BY <1>2 DEF Scaling
<1>8. OwnershipInvariant'
  BY <1>3, <1>5, <1>6, <1>7 DEF OwnershipInvariant
<1>9. Ownership!Command
  BY <1>1, <1>3, <1>6, BoundsAreInt DEF Ownership!Command, Replicas
<1> QED BY <1>8, <1>9 DEF Ownership!Next

\* Without the safety net the decided command is passed on as it is.
LEMMA TickDirectOwns ==
  ASSUME OwnershipInvariant, ControllerInvariant, ControllerInvariant', TickDirect
  PROVE  OwnershipInvariant' /\ UNCHANGED <<Commanded, deployment, "scale" \in faults>>
<1>1. /\ ~SafetyEnabled /\ pc["ticker"] = "decided"
      /\ UNCHANGED <<final, command, deployment, faults, decision>>
  BY DEF TickDirect
<1>2. decision \in Decisions /\ decision.commanded = command /\ seq - 1 \in Nat
  BY <1>1 DEF ControllerInvariant, ControlOK, DecidedOK, PolicyTypeOK
<1>3. decision.prior \in Replicas /\ command \in Replicas
  BY <1>2 DEF Decisions
<1>4. /\ job'["ticker"].final = command
      /\ pc'["ticker"] = IF command = decision.prior THEN "record" ELSE "get"
      /\ pc'["handler"] = pc["handler"]
  BY <1>2, <1>3, ApplyEffect DEF TickDirect, ControllerInvariant, ControlOK, Actors
<1>5. Commanded' = command /\ Commanded = command
  BY <1>1 DEF Commanded
<1>6. ~Scaling("handler") /\ ~Scaling("ticker")
  BY <1>1, MutexSeparatesWriters DEF ControllerInvariant, Scaling
<1>7. ~Scaling("handler")' /\ (Scaling("ticker")' <=> command # decision.prior)
  BY <1>4, <1>6 DEF Scaling
<1>8. "scale" \notin faults => deployment = decision.prior
  BY <1>1, <1>6 DEF OwnershipInvariant, Actors
<1>9. OwnershipInvariant'
  BY <1>1, <1>4, <1>5, <1>7, <1>8 DEF OwnershipInvariant, Actors
<1> QED BY <1>1, <1>5, <1>9

\* A scale call is answered: the Deployment is at the command in force, or the
\* failure is on record.
LEMMA AnswerOwns ==
  ASSUME OwnershipInvariant, ControllerInvariant, ControllerInvariant', NEW a \in Actors,
         UpdateScale(a) \/ ScaleCallFails(a) \/ UpdateScaleInDoubt(a)
  PROVE  OwnershipInvariant' /\ [Ownership!Next]_<<Commanded, deployment, "scale" \in faults>>
<1>1. Scaling(a) /\ job[a].final = Commanded /\ pc' = [pc EXCEPT ![a] = "record"]
  BY DEF UpdateScale, ScaleCallFails, UpdateScaleInDoubt, Answer, Goto, Scaling, OwnershipInvariant
<1>2. UNCHANGED <<final, command>> /\ Commanded' = Commanded
  BY DEF UpdateScale, ScaleCallFails, UpdateScaleInDoubt, Answer, Commanded
<1>3. \A b \in Actors : b # a => ~Scaling(b)
  BY <1>1, MutexSeparatesWriters DEF ControllerInvariant, ControlOK, MutexOK, Actors, Scaling, Busy
<1>4. \A b \in Actors : ~Scaling(b)'
  BY <1>1, <1>3 DEF Scaling, ControllerInvariant, ControlOK, PlacesOK
<1>5. pc'["ticker"] = "decided" => pc["ticker"] = "decided" /\ a = "handler"
  BY <1>1 DEF ControllerInvariant, ControlOK, PlacesOK, Actors
<1>6. a = "handler" => SafetyEnabled
  BY <1>1, MutexSeparatesWriters DEF ControllerInvariant
<1>7. deployment' \in Nat
  BY BoundsAreInt DEF ControllerInvariant, ControlOK, SurroundingsOK, Replicas
<1>8. CASE UpdateScale(a)
  <2>1. deployment' = Commanded /\ UNCHANGED faults
    BY <1>1, <1>8 DEF UpdateScale, Answer
  <2>2. OwnershipInvariant'
    BY <1>2, <1>4, <1>5, <1>6, <2>1 DEF OwnershipInvariant
  <2>3. Ownership!TakeEffect \/ UNCHANGED <<Commanded, deployment, "scale" \in faults>>
    BY <1>2, <2>1 DEF Ownership!TakeEffect
  <2> QED BY <2>2, <2>3 DEF Ownership!Next
<1>9. CASE ScaleCallFails(a) \/ UpdateScaleInDoubt(a)
  <2>1. "scale" \in faults'
    BY <1>9 DEF ScaleCallFails, UpdateScaleInDoubt, Answer
  <2>2. OwnershipInvariant'
    BY <1>4, <2>1 DEF OwnershipInvariant
  <2>3. Ownership!Doubt
    BY <1>2, <1>7, <2>1 DEF Ownership!Doubt
  <2> QED BY <2>2, <2>3 DEF Ownership!Next
<1> QED BY <1>8, <1>9

\* Every other step is quiet.
LEMMA QuietSteps ==
  ASSUME OwnershipInvariant, ControllerInvariant, ControllerInvariant',
         \/ \E w \in Workloads : TickPolicyError(w)
         \/ \E ready \in ReadyCounts : SafetyRefuses(ready)
         \/ TickerEnds \/ SafetyLock \/ ReadyReadRetries \/ ReadyReadGivesUp
         \/ \E a \in Actors : GetScale(a) \/ WriteRecord(a)
         \/ ProcessExit \/ Environment \/ UNCHANGED vars
  PROVE  OwnershipInvariant' /\ UNCHANGED <<Commanded, deployment, "scale" \in faults>>
<1> USE DEF ControllerInvariant, ControlOK, PlacesOK, Actors
<1>1. ASSUME NEW w \in Workloads, TickPolicyError(w)
      PROVE  OwnershipInvariant' /\ UNCHANGED <<Commanded, deployment, "scale" \in faults>>
  BY <1>1, QuietStep DEF TickPolicyError, DecideError, Scaling
<1>2. CASE \/ SafetyLock \/ ReadyReadRetries \/ ReadyReadGivesUp
           \/ \E ready \in ReadyCounts : SafetyRefuses(ready)
  BY <1>2, QuietStep DEF SafetyLock, ReadyReadRetries, ReadyReadGivesUp, SafetyRefuses,
     SafetyFails, Goto, Scaling
<1>3. ASSUME NEW a \in Actors, GetScale(a)
      PROVE  OwnershipInvariant' /\ UNCHANGED <<Commanded, deployment, "scale" \in faults>>
  BY <1>3, QuietStep DEF GetScale, Goto, Scaling
<1>4. ASSUME NEW a \in Actors, WriteRecord(a)
      PROVE  OwnershipInvariant' /\ UNCHANGED <<Commanded, deployment, "scale" \in faults>>
  <2>1. /\ pc[a] = "record" /\ job' = [job EXCEPT ![a] = NoJob]
        /\ pc' = [pc EXCEPT ![a] = IF a = "ticker" THEN "waiting" ELSE "idle"]
        /\ UNCHANGED <<engines, deployment>>
    BY <1>4 DEF WriteRecord, Goto
  <2>2. "scale" \in faults' <=> "scale" \in faults
    BY <1>4 DEF WriteRecord
  <2>3. \A b \in Actors : (Scaling(b)' <=> Scaling(b)) /\ (Scaling(b) => job'[b] = job[b])
    BY <2>1 DEF Scaling, JobsOK
  <2>4. pc'["ticker"] = "decided" <=> pc["ticker"] = "decided"
    BY <2>1
  <2>5. UNCHANGED <<final, command, deployment, decision>>
    BY <2>1
  <2> HIDE DEF ControllerInvariant
  <2> QED BY <2>2, <2>3, <2>4, <2>5, QuietStep
<1>5. CASE TickerEnds \/ ProcessExit \/ Environment \/ UNCHANGED vars
  BY <1>5, QuietStep DEF TickerEnds, ProcessExit, Environment, Signal, StatusUpdate,
     PublisherGivesUp, PostObservation, Goto, Scaling, PublisherOK
<1> QED BY <1>1, <1>2, <1>3, <1>4, <1>5

\* The invariant is inductive, and every step of the controller is a step or a
\* stutter of the promise.
LEMMA OwnershipStep ==
  OwnershipInvariant /\ ControllerInvariant /\ ControllerInvariant' /\ [Next]_vars
    => /\ OwnershipInvariant'
       /\ [Ownership!Next]_<<Commanded, deployment, "scale" \in faults>>
<1> SUFFICES ASSUME OwnershipInvariant, ControllerInvariant, ControllerInvariant', [Next]_vars
             PROVE  /\ OwnershipInvariant'
                    /\ [Ownership!Next]_<<Commanded, deployment, "scale" \in faults>>
  OBVIOUS
<1>1. CASE TickArbitrate
  <2>1. \A a \in Actors : ~Scaling(a)
    BY <1>1, MutexSeparatesWriters DEF TickArbitrate, Lock, Actors, ControllerInvariant
  <2>2. seq - 1 \in Nat
    BY <1>1 DEF TickArbitrate, ControllerInvariant, ControlOK, DecidedOK, PolicyTypeOK
  <2> QED BY <1>1, <2>1, <2>2, ArbitrateOwns DEF TickArbitrate, Actors
<1>2. ASSUME NEW ready \in ReadyCounts, SafetyDecide(ready)
      PROVE  /\ OwnershipInvariant'
             /\ [Ownership!Next]_<<Commanded, deployment, "scale" \in faults>>
  <2>1. pc["handler"] = "reading" /\ decisionMu = "handler" /\ SafetyEnabled
    BY <1>2 DEF SafetyDecide, ControllerInvariant, ControlOK, MutexOK
  <2>2. \A a \in Actors : ~Scaling(a)
    BY <2>1, MutexSeparatesWriters DEF Scaling, Actors, ControllerInvariant
  <2>3. acked \in Nat
    BY SafetyInputAssumption DEF ControllerInvariant, ControlOK, PublisherOK
  <2> QED BY <1>2, <2>1, <2>2, <2>3, ArbitrateOwns DEF SafetyDecide, Actors
<1>3. CASE TickDirect
  BY <1>3, TickDirectOwns
<1>4. ASSUME NEW w \in Workloads, TickDecide(w)
      PROVE  /\ OwnershipInvariant'
             /\ [Ownership!Next]_<<Commanded, deployment, "scale" \in faults>>
  BY <1>4, TickDecideOwns
<1>5. ASSUME NEW a \in Actors, UpdateScale(a) \/ ScaleCallFails(a) \/ UpdateScaleInDoubt(a)
      PROVE  /\ OwnershipInvariant'
             /\ [Ownership!Next]_<<Commanded, deployment, "scale" \in faults>>
  BY <1>5, AnswerOwns
<1>6. CASE \/ \E w \in Workloads : TickPolicyError(w)
           \/ \E ready \in ReadyCounts : SafetyRefuses(ready)
           \/ TickerEnds \/ SafetyLock \/ ReadyReadRetries \/ ReadyReadGivesUp
           \/ \E a \in Actors : GetScale(a) \/ WriteRecord(a)
           \/ ProcessExit \/ Environment \/ UNCHANGED vars
  BY <1>6, QuietSteps
<1> QED BY <1>1, <1>2, <1>3, <1>4, <1>5, <1>6
        DEF Next, TickerStep, HandlerStep, ScaleStep, Actors

\* The two goroutines together are a single scale writer: commands take effect
\* one at a time and in the order they were decided, until a scale call fails.
THEOREM ControllerOwnsScale == Spec => OwnsScale
<1>1. Init => OwnershipInvariant /\ Ownership!Init
  BY OwnershipInit
<1> QED BY <1>1, ControllerInvariantHolds, OwnershipStep, PTL DEF Spec, OwnsScale, Ownership!Spec
-----------------------------------------------------------------------------
\* A write under way covers both commands, because it carries the larger one.
LEMMA WriteStep ==
  OwnershipInvariant /\ ControllerInvariant /\ [Next]_vars =>
    [\A a \in Actors : SafetyEnabled /\ UpdateScale(a) =>
       deployment' >= predictive /\ deployment' >= safetyFloor]_vars
<1> SUFFICES ASSUME OwnershipInvariant, ControllerInvariant, NEW a \in Actors,
                    SafetyEnabled, UpdateScale(a)
             PROVE  deployment' >= predictive /\ deployment' >= safetyFloor
  OBVIOUS
<1>1. deployment' = Commanded
  BY DEF UpdateScale, OwnershipInvariant, Scaling
<1>2. predictive \in Int /\ safetyFloor \in Int
      /\ final = IF safetyFloor > predictive THEN safetyFloor ELSE predictive
  BY BoundsAreInt DEF ControllerInvariant, FinalIsMax, Arb!FinalIsMax
<1> QED BY <1>1, <1>2 DEF Commanded

\* Whichever goroutine writes the Deployment, it never writes less than the
\* predictive command or the safety floor of that moment.
THEOREM ControllerWritesCoverBothCommands == Spec => WritesCoverBothCommands
<1>1. Init => OwnershipInvariant
  BY OwnershipInit
<1>2. OwnershipInvariant /\ ControllerInvariant /\ ControllerInvariant' /\ [Next]_vars
        => OwnershipInvariant'
  BY OwnershipStep
<1> QED BY <1>1, <1>2, ControllerInvariantHolds, WriteStep, PTL DEF Spec, WritesCoverBothCommands
-----------------------------------------------------------------------------
(* The floor.                                                              *)

\* It is inductive by itself: a floor the arbiter refuses stops the publisher, and a
\* publisher that has stopped never goes on.
LEMMA FloorsStep ==
  ASSUME FloorsAgree, ControllerInvariant, [Next]_vars
  PROVE  FloorsAgree'
<1>1. ASSUME NEW ready \in ReadyCounts, SafetyDecide(ready)
      PROVE  FloorsAgree'
  <2>1. /\ safetyFloor' = evaluation'.floor /\ sequence' = sequence + 1 /\ sequence \in Nat
        /\ evaluation'.floor = IF active' THEN floor' ELSE SafetyMin
    BY <1>1 DEF SafetyDecide, Evaluate, Arb!UpdateSafetyFloor, Arb!Update, ControllerInvariant,
       SafetyInvariant, SafetyTypeOK
  <2> QED BY <2>1 DEF FloorsAgree
<1>2. ASSUME UNCHANGED <<safetyVars, safetyFloor>>, publisher = "stopped" => publisher' = "stopped"
      PROVE  FloorsAgree'
  BY <1>2 DEF FloorsAgree, safetyVars, engineVars
<1>3. ASSUME NEW w \in Workloads, TickDecide(w) \/ TickPolicyError(w)
      PROVE  FloorsAgree'
  BY <1>2, <1>3 DEF TickDecide, TickPolicyError, Fails
<1>4. CASE TickArbitrate \/ TickDirect \/ TickerEnds
  BY <1>2, <1>4 DEF TickArbitrate, TickDirect, TickerEnds, Arb!UpdatePredictive, Arb!Update
<1>5. ASSUME NEW a \in Actors, ScaleStep(a)
      PROVE  FloorsAgree'
  <2>1. UNCHANGED <<safetyVars, safetyFloor>>
    BY <1>5, ScaleStepKeepsEngines
  <2>2. publisher = "stopped" => publisher' = "stopped"
    BY <1>5 DEF ScaleStep, GetScale, UpdateScale, ScaleCallFails, UpdateScaleInDoubt, WriteRecord,
       Answer, Fails, Succeeds
  <2> QED BY <1>2, <2>1, <2>2
<1>6. CASE SafetyLock \/ ReadyReadRetries
  BY <1>2, <1>6 DEF SafetyLock, ReadyReadRetries
<1>7. ASSUME SafetyFails PROVE FloorsAgree'
  BY <1>7 DEF SafetyFails, Fails, FloorsAgree
<1>8. CASE ProcessExit \/ Environment \/ UNCHANGED vars
  BY <1>2, <1>8 DEF ProcessExit, Environment, Signal, StatusUpdate, PublisherGivesUp, PostObservation
<1> QED BY <1>1, <1>3, <1>4, <1>5, <1>6, <1>7, <1>8
        DEF Next, TickerStep, HandlerStep, ReadyReadGivesUp, SafetyRefuses, Actors

\* As long as the publisher goes on, the arbiter enforces the engine's floor, although
\* the engine has its own bounds and may make a floor its own that the arbiter refuses.
THEOREM ControllerFloorsAgree == Spec => []FloorsAgree
<1>1. Init => FloorsAgree
  BY DEF Init, SafetyInit, Arb!Init, FloorsAgree
<1> QED BY <1>1, FloorsStep, ControllerInvariantHolds, PTL DEF Spec
-----------------------------------------------------------------------------
(* The log.                                                                *)

NotAttempted == [source |-> "predictive", result |-> "not_attempted"]
LogRecords == Jobs \cup {NotAttempted}

\* The record of the last arbitration, or what a process starts from.
Latest ==
  IF Arbitrations = {}
  THEN [final |-> InitialReplicas, predictive |-> InitialReplicas, floor |-> MinReplicas]
  ELSE log[Max(Arbitrations)]

Linear == \A i \in Arbitrations : Follows(log[i], ArbitratedBefore(i))

\* A record that carries the state of the arbiter.
Carries(record) ==
  record.final = final /\ record.predictive = predictive /\ record.floor = safetyFloor

\* The arbiter is where the log ends, or where the one record under way leads from there.
LinearInvariant ==
  /\ log \in Seq(LogRecords)
  /\ SafetyEnabled /\ "record" \notin faults =>
       /\ Linear
       /\ (\A a \in Actors : ~Busy(a)) => Carries(Latest)
       /\ \A a \in Actors : Busy(a) => Follows(job[a], Latest) /\ Carries(job[a])

\* A record is one of the two kinds.
LEMMA RecordKinds ==
  /\ \A r \in Jobs : r.result # "not_attempted"
  /\ NotAttempted.result = "not_attempted" /\ NotAttempted.source = "predictive"
BY DEF Jobs, Results, NotAttempted

\* One more record of an arbitration continues the chain.
LEMMA AppendArbitration ==
  ASSUME log \in Seq(LogRecords), NEW r \in Jobs, log' = Append(log, r),
         Linear, Follows(r, Latest)
  PROVE  log' \in Seq(LogRecords) /\ Linear' /\ Latest' = r
<1>1. PICK n : n = Len(log)
  OBVIOUS
<1>2. n \in Nat /\ DOMAIN log = 1..n /\ r \in LogRecords
  BY <1>1, LenProperties DEF LogRecords
<1>3. /\ log' \in Seq(LogRecords) /\ Len(log') = n + 1
      /\ \A i \in 1..n : log'[i] = log[i]
      /\ log'[n + 1] = r
  BY <1>1, <1>2, AppendProperties
<1>4. DOMAIN log' = 1..(n + 1)
  BY <1>3, LenProperties
<1>5. Arbitrations' = Arbitrations \cup {n + 1} /\ Arbitrations \subseteq 1..n
  BY <1>2, <1>3, <1>4, RecordKinds DEF Arbitrations
<1>6. \A i \in 1..(n + 1) : {j \in Arbitrations' : j < i} = {j \in Arbitrations : j < i}
  <2> TAKE i \in 1..(n + 1)
  <2>1. ~(n + 1 < i)
    BY <1>2
  <2> QED BY <1>5, <2>1
<1>7. {j \in Arbitrations : j < n + 1} = Arbitrations
  <2>1. \A j \in 1..n : j < n + 1
    BY <1>2
  <2> QED BY <1>5, <2>1
<1>8. ASSUME NEW T, T \subseteq 1..n, T # {} PROVE Max(T) \in 1..n
  <2>1. T \subseteq Nat /\ \A y \in T : y <= n
    BY <1>2, <1>8
  <2> QED BY <1>2, <1>8, <2>1, MaxNat
<1>9. \A i \in 1..(n + 1) : ArbitratedBefore(i)' = ArbitratedBefore(i)
  <2> TAKE i \in 1..(n + 1)
  <2>1. PICK T : T = {j \in Arbitrations : j < i}
    OBVIOUS
  <2>2. T = {j \in Arbitrations' : j < i} /\ T \subseteq 1..n
    BY <1>5, <1>6, <2>1
  <2>3. T # {} => log'[Max(T)] = log[Max(T)]
    BY <1>3, <1>8, <2>2
  <2> QED BY <2>1, <2>2, <2>3 DEF ArbitratedBefore
<1>10. ArbitratedBefore(n + 1) = Latest
  BY <1>7 DEF ArbitratedBefore, Latest
<1>11. Linear'
  <2> SUFFICES ASSUME NEW i \in Arbitrations' PROVE Follows(log'[i], ArbitratedBefore(i)')
    BY DEF Linear, Follows
  <2>1. CASE i \in Arbitrations
    <3>1. i \in 1..n /\ i \in 1..(n + 1)
      BY <1>2, <1>5, <2>1
    <3> QED BY <1>3, <1>9, <2>1, <3>1 DEF Linear
  <2>2. CASE i = n + 1
    <3>1. i \in 1..(n + 1)
      BY <1>2, <2>2
    <3> QED BY <1>3, <1>9, <1>10, <2>2, <3>1
  <2> QED BY <1>5, <2>1, <2>2
<1>12. Max(Arbitrations') = n + 1
  <2>1. Arbitrations' \subseteq Nat /\ Arbitrations' # {} /\ \A y \in Arbitrations' : y <= n + 1
    BY <1>2, <1>5
  <2>2. n + 1 \in Nat /\ n + 1 \in Arbitrations'
    BY <1>2, <1>5
  <2>3. PICK T : T = Arbitrations'
    OBVIOUS
  <2>4. Max(T) \in T /\ \A y \in T : y <= Max(T)
    BY <2>1, <2>2, <2>3, MaxNat
  <2>5. Max(T) \in Nat /\ Max(T) <= n + 1 /\ n + 1 <= Max(T)
    BY <2>1, <2>2, <2>3, <2>4
  <2> QED BY <2>2, <2>3, <2>5
<1> QED BY <1>3, <1>5, <1>11, <1>12 DEF Latest

\* A record of a row the policy refuses is not part of it.
LEMMA AppendNotAttempted ==
  ASSUME log \in Seq(LogRecords), log' = Append(log, NotAttempted)
  PROVE  log' \in Seq(LogRecords) /\ (Linear => Linear') /\ Latest' = Latest
<1>1. PICK n : n = Len(log)
  OBVIOUS
<1>2. n \in Nat /\ DOMAIN log = 1..n /\ NotAttempted \in LogRecords
  BY <1>1, LenProperties DEF LogRecords
<1>3. /\ log' \in Seq(LogRecords) /\ Len(log') = n + 1
      /\ \A i \in 1..n : log'[i] = log[i]
      /\ log'[n + 1] = NotAttempted
  BY <1>1, <1>2, AppendProperties
<1>4. DOMAIN log' = 1..(n + 1)
  BY <1>3, LenProperties
<1>5. Arbitrations' = Arbitrations /\ Arbitrations \subseteq 1..n
  BY <1>2, <1>3, <1>4, RecordKinds DEF Arbitrations
<1>6. ASSUME NEW T, T \subseteq 1..n, T # {} PROVE log'[Max(T)] = log[Max(T)]
  <2>1. T \subseteq Nat /\ \A y \in T : y <= n
    BY <1>2, <1>6
  <2>2. Max(T) \in T
    BY <1>2, <1>6, <2>1, MaxNat
  <2> QED BY <1>3, <1>6, <2>2
<1>7. ASSUME NEW i \in Arbitrations
      PROVE  ArbitratedBefore(i)' = ArbitratedBefore(i) /\ log'[i] = log[i]
  <2>1. PICK T : T = {j \in Arbitrations : j < i}
    OBVIOUS
  <2>2. T = {j \in Arbitrations' : j < i} /\ T \subseteq 1..n
    BY <1>5, <2>1
  <2> QED BY <1>3, <1>5, <1>6, <2>1, <2>2 DEF ArbitratedBefore
<1>8. Linear => Linear'
  BY <1>5, <1>7 DEF Linear
<1>9. Latest' = Latest
  BY <1>5, <1>6 DEF Latest
<1> QED BY <1>3, <1>8, <1>9

\* What a record says of the arbitration it is made for.
LEMMA ApplyRecord ==
  ASSUME PlacesOK, JobsOK, NEW a \in Actors, NEW source, NEW input, NEW prior, NEW replicas,
         Apply(a, source, input, prior, replicas)
  PROVE  /\ job'[a].source = source /\ job'[a].input = input /\ job'[a].prior = prior
         /\ job'[a].final = replicas
         /\ job'[a].predictive = predictive' /\ job'[a].floor = safetyFloor'
         /\ job'[a].result = IF replicas = prior THEN "not_required" ELSE "pending"
         /\ pc'[a] = IF replicas = prior THEN "record" ELSE "get"
         /\ \A b \in Actors \ {a} : job'[b] = job[b] /\ pc'[b] = pc[b]
BY DEF Apply, Goto, PlacesOK, JobsOK

\* Steps that leave the log and the arbiter alone, and the records under way up to
\* their results.
LEMMA LinearStays ==
  ASSUME LinearInvariant, UNCHANGED <<log, predictive, safetyFloor, final>>,
         "record" \notin faults' => "record" \notin faults,
         \A a \in Actors : Busy(a)' <=> Busy(a),
         \A a \in Actors : Busy(a) =>
           /\ job'[a].source = job[a].source /\ job'[a].prior = job[a].prior
           /\ job'[a].final = job[a].final /\ job'[a].predictive = job[a].predictive
           /\ job'[a].floor = job[a].floor
  PROVE  LinearInvariant'
<1>1. Latest' = Latest /\ (Linear => Linear')
  BY DEF Latest, Linear, Arbitrations, ArbitratedBefore
<1>2. Carries(Latest) => Carries(Latest)'
  BY <1>1 DEF Carries
<1>3. ASSUME NEW a \in Actors, Busy(a), Follows(job[a], Latest), Carries(job[a])
      PROVE  Follows(job[a], Latest)' /\ Carries(job[a])'
  <2>1. Follows(job[a], Latest)'
    BY <1>1, <1>3 DEF Follows
  <2>2. Carries(job[a])'
    BY <1>3 DEF Carries
  <2> QED BY <2>1, <2>2
<1> QED BY <1>1, <1>2, <1>3 DEF LinearInvariant

\* The final command of an arbitration is the larger of its two inputs.
LEMMA LargerOfTwo ==
  ASSUME NEW p \in Int, NEW f \in Int
  PROVE  (IF f > p THEN f ELSE p) = Max({p, f})
BY MaxOfTwo

\* An arbitration starts from where the log ends, if nobody else is at work on one.
LEMMA ArbitrationFollows ==
  ASSUME LinearInvariant, ControllerInvariant, FinalIsMax', SafetyEnabled, NEW a \in Actors,
         NEW source \in {"predictive", "safety"}, NEW input,
         Apply(a, source, input, final, final'), UNCHANGED <<log, faults>>,
         \A b \in Actors : ~Busy(b),
         IF source = "safety" THEN predictive' = predictive ELSE safetyFloor' = safetyFloor
  PROVE  LinearInvariant'
<1>1. /\ job'[a].source = source /\ job'[a].prior = final /\ job'[a].final = final'
      /\ job'[a].predictive = predictive' /\ job'[a].floor = safetyFloor'
      /\ pc'[a] \in {"record", "get"} /\ \A b \in Actors \ {a} : pc'[b] = pc[b]
  BY ApplyRecord DEF ControllerInvariant, ControlOK
<1>2. Busy(a)' /\ \A b \in Actors \ {a} : ~Busy(b)'
  BY <1>1 DEF Busy
<1>3. Latest' = Latest /\ (Linear => Linear')
  BY DEF Latest, Linear, Arbitrations, ArbitratedBefore
<1>4. ASSUME "record" \notin faults PROVE Follows(job'[a], Latest)
  <2>1. Carries(Latest)
    BY <1>4 DEF LinearInvariant
  <2>2. final' = Max({predictive', safetyFloor'})
    <3>1. predictive' \in Int /\ safetyFloor' \in Int
          /\ final' = IF safetyFloor' > predictive' THEN safetyFloor' ELSE predictive'
      BY BoundsAreInt DEF FinalIsMax, Arb!FinalIsMax
    <3> QED BY <3>1, LargerOfTwo
  <2> QED BY <1>1, <2>1, <2>2 DEF Follows, Carries
<1>5. (Carries(job[a]))'
  BY <1>1 DEF Carries
<1> QED BY <1>2, <1>3, <1>4, <1>5 DEF LinearInvariant, Follows

\* Every step keeps the log linear, as far as it is written.
LEMMA LinearStep ==
  ASSUME LinearInvariant, ControllerInvariant, ControllerInvariant', [Next]_vars
  PROVE  LinearInvariant'
<1> USE DEF Actors
<1>1. PlacesOK /\ JobsOK /\ MutexOK /\ FinalIsMax'
  BY DEF ControllerInvariant, ControlOK
<1>2. CASE TickArbitrate
  <2>1. \A b \in Actors : ~Busy(b)
    BY <1>1, <1>2 DEF TickArbitrate, Lock, MutexOK, Busy
  <2>2. safetyFloor' = safetyFloor
    BY <1>2 DEF TickArbitrate, Arb!UpdatePredictive, Arb!Update
  <2> QED BY <1>1, <1>2, <2>1, <2>2, ArbitrationFollows DEF TickArbitrate
<1>3. ASSUME NEW ready \in ReadyCounts, SafetyDecide(ready) PROVE LinearInvariant'
  <2>1. SafetyEnabled /\ \A b \in Actors : ~Busy(b)
    BY <1>1, <1>3 DEF SafetyDecide, MutexOK, Busy
  <2>2. predictive' = predictive
    BY <1>3 DEF SafetyDecide, Arb!UpdateSafetyFloor, Arb!Update
  <2> QED BY <1>1, <1>3, <2>1, <2>2, ArbitrationFollows DEF SafetyDecide
<1>4. CASE TickDirect
  <2>1. ~SafetyEnabled /\ UNCHANGED log
    BY <1>4 DEF TickDirect
  <2> QED BY <2>1 DEF LinearInvariant
<1>5. ASSUME NEW w \in Workloads, TickDecide(w) PROVE LinearInvariant'
  BY <1>1, <1>5, LinearStays DEF TickDecide, Goto, Busy, PlacesOK
<1>6. ASSUME NEW w \in Workloads, TickPolicyError(w) PROVE LinearInvariant'
  <2>1. CASE log' = Append(log, NotAttempted) /\ UNCHANGED faults
    <3>1. log' \in Seq(LogRecords) /\ (Linear => Linear') /\ Latest' = Latest
      BY <2>1, AppendNotAttempted DEF LinearInvariant
    <3> QED BY <1>6, <2>1, <3>1 DEF TickPolicyError, LinearInvariant, Busy, Carries, Follows
  <2>2. CASE UNCHANGED log /\ "record" \in faults'
    BY <2>2 DEF LinearInvariant
  <2> QED BY <1>6, <2>1, <2>2 DEF TickPolicyError, NotAttempted
<1>7. ASSUME NEW a \in Actors, GetScale(a) PROVE LinearInvariant'
  <2>1. \A b \in Actors : Busy(b)' <=> Busy(b)
    BY <1>1, <1>7 DEF GetScale, Goto, Busy, PlacesOK
  <2> QED BY <1>7, <2>1, LinearStays DEF GetScale
<1>8. ASSUME NEW a \in Actors, UpdateScale(a) \/ ScaleCallFails(a) \/ UpdateScaleInDoubt(a)
      PROVE  LinearInvariant'
  <2>1. PICK result : Answer(a, result) /\ pc[a] \in {"get", "put"}
    BY <1>8 DEF UpdateScale, ScaleCallFails, UpdateScaleInDoubt
  <2>2. \A b \in Actors : Busy(b)' <=> Busy(b)
    BY <1>1, <2>1 DEF Answer, Goto, Busy, PlacesOK
  <2>3. job[a] \in Jobs
    BY <1>1, <2>1 DEF JobsOK, Busy
  <2>4. PICK r : r = [job[a] EXCEPT !.result = result]
    OBVIOUS
  <2>5. /\ r.source = job[a].source /\ r.prior = job[a].prior /\ r.final = job[a].final
        /\ r.predictive = job[a].predictive /\ r.floor = job[a].floor
    BY <2>3, <2>4 DEF Jobs
  <2>6. job' = [job EXCEPT ![a] = r]
    BY <2>1, <2>4 DEF Answer
  <2>7. \A b \in Actors : Busy(b) =>
           /\ job'[b].source = job[b].source /\ job'[b].prior = job[b].prior
           /\ job'[b].final = job[b].final /\ job'[b].predictive = job[b].predictive
           /\ job'[b].floor = job[b].floor
    BY <1>1, <2>5, <2>6 DEF JobsOK
  <2>8. UNCHANGED <<log, predictive, safetyFloor, final>>
        /\ ("record" \notin faults' => "record" \notin faults)
    BY <2>1 DEF Answer
  <2> QED BY <2>2, <2>7, <2>8, LinearStays
<1>9. ASSUME NEW a \in Actors, WriteRecord(a) PROVE LinearInvariant'
  <2>1. /\ pc[a] = "record" /\ pc' = [pc EXCEPT ![a] = IF a = "ticker" THEN "waiting" ELSE "idle"]
        /\ UNCHANGED <<predictive, safetyFloor, final>>
        /\ \/ log' = Append(log, job[a]) /\ UNCHANGED faults
           \/ UNCHANGED log /\ "record" \in faults'
    BY <1>9 DEF WriteRecord, Goto
  <2>2. Busy(a) /\ job[a] \in Jobs
    BY <1>1, <2>1 DEF JobsOK, Busy
  <2>3. SafetyEnabled => \A b \in Actors : ~Busy(b)'
    <3>1. SafetyEnabled => \A b \in Actors \ {a} : ~Busy(b)
      BY <1>1, <2>2 DEF MutexOK
    <3> QED BY <1>1, <2>1, <3>1 DEF Busy, PlacesOK
  <2>4. CASE log' = Append(log, job[a]) /\ UNCHANGED faults
    <3>1. job[a] \in LogRecords /\ log \in Seq(LogRecords)
      BY <2>2 DEF LogRecords, LinearInvariant
    <3>2. log' \in Seq(LogRecords)
      BY <2>4, <3>1, AppendProperties
    <3>3. ASSUME SafetyEnabled, "record" \notin faults PROVE Linear' /\ Carries(Latest)'
      <4>1. Linear /\ Follows(job[a], Latest) /\ Carries(job[a])
        BY <2>2, <3>3 DEF LinearInvariant
      <4>2. Linear' /\ Latest' = job[a]
        BY <2>2, <2>4, <3>1, <4>1, AppendArbitration
      <4> QED BY <2>1, <4>1, <4>2 DEF Carries
    <3> QED BY <2>3, <2>4, <3>2, <3>3 DEF LinearInvariant
  <2>5. CASE UNCHANGED log /\ "record" \in faults'
    BY <2>5 DEF LinearInvariant
  <2> QED BY <2>1, <2>4, <2>5
<1>10. CASE SafetyLock \/ ReadyReadRetries
  BY <1>1, <1>10, LinearStays DEF SafetyLock, ReadyReadRetries, Goto, Busy, PlacesOK
<1>11. ASSUME pc["handler"] = "reading", SafetyFails, UNCHANGED <<predictive, safetyFloor, final>>
       PROVE  LinearInvariant'
  BY <1>1, <1>11, LinearStays DEF SafetyFails, Goto, Busy, PlacesOK
<1>12. CASE TickerEnds \/ ProcessExit \/ Signal \/ StatusUpdate \/ PublisherGivesUp \/ UNCHANGED vars
  BY <1>12, LinearStays DEF TickerEnds, ProcessExit, Signal, StatusUpdate, PublisherGivesUp, Busy
<1>13. ASSUME NEW d \in Demands, PostObservation(d) PROVE LinearInvariant'
  <2>1. pc["handler"] = "idle"
    BY <1>13 DEF PostObservation, ControllerInvariant, ControlOK, PublisherOK
  <2> QED BY <1>1, <1>13, <2>1, LinearStays DEF PostObservation, Goto, Busy, PlacesOK
<1> QED BY <1>2, <1>3, <1>4, <1>5, <1>6, <1>7, <1>8, <1>9, <1>10, <1>11, <1>12, <1>13
        DEF Next, TickerStep, HandlerStep, ScaleStep, Environment, ReadyReadGivesUp, SafetyRefuses

\* The log is the sequence of arbitrations, of whichever goroutine: each starts where
\* the one before it ended and changes only its own input.
THEOREM ControllerLogIsLinear == Spec => []LogIsLinear
<1>1. ASSUME Init PROVE LinearInvariant
  <2>1. log \in Seq(LogRecords) /\ DOMAIN log = {}
    BY <1>1, EmptySeq, LenProperties DEF Init
  <2>2. Arbitrations = {}
    BY <2>1 DEF Arbitrations
  <2>3. \A a \in Actors : ~Busy(a)
    BY <1>1 DEF Init, Busy, Actors
  <2> QED BY <1>1, <2>1, <2>2, <2>3 DEF LinearInvariant, Linear, Latest, Carries, Init, Arb!Init
<1>2. LinearInvariant /\ ControllerInvariant /\ ControllerInvariant' /\ [Next]_vars
        => LinearInvariant'
  BY LinearStep
<1>3. LinearInvariant => LogIsLinear
  BY DEF LinearInvariant, Linear, LogIsLinear
<1> QED BY <1>1, <1>2, <1>3, ControllerInvariantHolds, PTL DEF Spec
-----------------------------------------------------------------------------
(* Accepted runs.                                                          *)

RecordedIn(l, source) == {i \in DOMAIN l : l[i].source = source}

\* The records of one source in a log l: faultless, and numbered 0 to done - 1 in order.
Sequenced(l, source, done) ==
  /\ \A i \in RecordedIn(l, source) :
       /\ l[i].result \in {"success", "not_required"} /\ l[i].input \in 0..(done - 1)
       /\ source = "safety" => l[i].final = Max({l[i].predictive, l[i].floor})
  /\ \A k \in 0..(done - 1) : \E i \in RecordedIn(l, source) : l[i].input = k
  /\ \A i, j \in RecordedIn(l, source) : i < j => l[i].input < l[j].input

\* The rows the ticker is done with.
Rows == IF pc["ticker"] = "waiting" THEN seq ELSE seq - 1

\* While nothing has failed, the log has every row the ticker is done with.
TraceOK ==
  /\ log \in Seq(LogRecords)
  /\ proc = "completed" => seq = MaxDecisions /\ pc["ticker"] = "waiting"
  /\ proc \in {"running", "completed"} => Sequenced(log, "predictive", Rows)

\* It has every window answered with 202, unless the publisher has stopped short.
WindowsOK ==
  IF publisher = "stopped" /\ SafetyEnabled THEN acked < MaxWindows
  ELSE Sequenced(log, "safety", acked) /\ (~SafetyEnabled => acked = 0)

\* A record under way carries the next number of its source.
WorkOK ==
  /\ Busy("ticker") => job["ticker"].source = "predictive" /\ job["ticker"].input = seq - 1
  /\ Busy("handler") =>
       /\ job["handler"].source = "safety"
       /\ job["handler"].final = Max({job["handler"].predictive, job["handler"].floor})
       /\ publisher # "stopped" => job["handler"].input = acked
  /\ \A a \in Actors : pc[a] = "record" => job[a].result # "pending"

\* A failed scale call ends the run or the publisher, at the latest with its record.
FaultsOK ==
  "scale" \in faults =>
    \/ proc \in {"stopping", "exited"} \/ (SafetyEnabled /\ publisher = "stopped")
    \/ \E a \in Actors : pc[a] = "record" /\ job[a].result = "error"

RunInvariant == TraceOK /\ WindowsOK /\ WorkOK /\ FaultsOK

\* A faultless record with the next number of its source extends the sequence.
LEMMA AppendNext ==
  ASSUME NEW l \in Seq(LogRecords), NEW source, NEW done \in Nat, Sequenced(l, source, done),
         NEW r \in Jobs, r.source = source, r.input = done,
         r.result \in {"success", "not_required"},
         source = "safety" => r.final = Max({r.predictive, r.floor})
  PROVE  Append(l, r) \in Seq(LogRecords) /\ Sequenced(Append(l, r), source, done + 1)
<1>1. PICK n, m : n = Len(l) /\ m = Append(l, r)
  OBVIOUS
<1>2. n \in Nat /\ DOMAIN l = 1..n /\ r \in LogRecords
  BY <1>1, LenProperties DEF LogRecords
<1>3. /\ m \in Seq(LogRecords) /\ Len(m) = n + 1
      /\ (\A i \in 1..n : m[i] = l[i]) /\ m[n + 1] = r
  BY <1>1, <1>2, AppendProperties
<1>4. DOMAIN m = 1..(n + 1)
  BY <1>3, LenProperties
<1>5. RecordedIn(m, source) = RecordedIn(l, source) \cup {n + 1}
      /\ RecordedIn(l, source) \subseteq 1..n
  BY <1>2, <1>3, <1>4 DEF RecordedIn
<1>6. ASSUME NEW i \in RecordedIn(m, source)
      PROVE  /\ m[i].result \in {"success", "not_required"} /\ m[i].input \in 0..done
             /\ source = "safety" => m[i].final = Max({m[i].predictive, m[i].floor})
  <2>1. CASE i = n + 1
    <3>1. m[i] = r /\ done \in 0..done
      BY <1>3, <2>1
    <3> QED BY <3>1
  <2>2. CASE i \in RecordedIn(l, source)
    <3>1. m[i] = l[i]
      BY <1>3, <1>5, <2>2
    <3>2. /\ l[i].result \in {"success", "not_required"} /\ l[i].input \in 0..(done - 1)
          /\ source = "safety" => l[i].final = Max({l[i].predictive, l[i].floor})
      BY <2>2 DEF Sequenced
    <3>3. l[i].input \in 0..done
      BY <3>2
    <3> QED BY <3>1, <3>2, <3>3
  <2> QED BY <1>5, <2>1, <2>2
<1>7. ASSUME NEW k \in 0..done
      PROVE  \E i \in RecordedIn(m, source) : m[i].input = k
  <2>1. CASE k = done
    BY <1>3, <1>5, <2>1
  <2>2. CASE k \in 0..(done - 1)
    <3>1. PICK i \in RecordedIn(l, source) : l[i].input = k
      BY <2>2 DEF Sequenced
    <3> QED BY <1>3, <1>5, <3>1
  <2> QED BY <2>1, <2>2
<1>8. ASSUME NEW i \in RecordedIn(m, source), NEW j \in RecordedIn(m, source), i < j
      PROVE  m[i].input < m[j].input
  <2>1. i \in 1..n /\ i \in RecordedIn(l, source)
    BY <1>2, <1>5, <1>8
  <2>2. m[i] = l[i] /\ l[i].input \in 0..(done - 1)
    BY <1>3, <2>1 DEF Sequenced
  <2>3. CASE j = n + 1
    BY <1>3, <2>2, <2>3
  <2>4. CASE j \in RecordedIn(l, source)
    <3>1. m[j] = l[j]
      BY <1>3, <1>5, <2>4
    <3> QED BY <1>8, <2>1, <2>2, <2>4, <3>1 DEF Sequenced
  <2> QED BY <1>5, <2>3, <2>4
<1>9. (done + 1) - 1 = done
  OBVIOUS
<1> QED BY <1>1, <1>3, <1>6, <1>7, <1>8, <1>9 DEF Sequenced

\* A record of another source leaves it alone.
LEMMA AppendOther ==
  ASSUME NEW l \in Seq(LogRecords), NEW source, NEW done,
         NEW r \in LogRecords, r.source # source
  PROVE  /\ Append(l, r) \in Seq(LogRecords)
         /\ Sequenced(l, source, done) => Sequenced(Append(l, r), source, done)
<1>1. PICK n, m : n = Len(l) /\ m = Append(l, r)
  OBVIOUS
<1>2. n \in Nat /\ DOMAIN l = 1..n
  BY <1>1, LenProperties
<1>3. /\ m \in Seq(LogRecords) /\ Len(m) = n + 1
      /\ (\A i \in 1..n : m[i] = l[i]) /\ m[n + 1] = r
  BY <1>1, AppendProperties
<1>4. DOMAIN m = 1..(n + 1)
  BY <1>3, LenProperties
<1>5. RecordedIn(m, source) = RecordedIn(l, source) /\ RecordedIn(l, source) \subseteq 1..n
  BY <1>2, <1>3, <1>4 DEF RecordedIn
<1>6. \A i \in RecordedIn(l, source) : m[i] = l[i]
  BY <1>3, <1>5
<1> QED BY <1>1, <1>3, <1>5, <1>6 DEF Sequenced

\* Steps that write no record, finish no row and no window.
LEMMA RunStays ==
  ASSUME RunInvariant, UNCHANGED <<log, seq, acked, faults>>, Rows' = Rows,
         \A a \in Actors : Busy(a)' => Busy(a) /\ job'[a] = job[a],
         \A a \in Actors : (pc'[a] = "record") <=> (pc[a] = "record"),
         proc' \in {"running", "completed"} => proc = proc',
         proc' \in {proc, "stopping", "exited"},
         proc = "completed" => pc'["ticker"] = "waiting",
         publisher # "stopped" => publisher' # "stopped" \/ acked < MaxWindows,
         publisher = "stopped" => publisher' = "stopped"
  PROVE  RunInvariant'
<1>1. TraceOK'
  BY DEF RunInvariant, TraceOK
<1>2. WindowsOK'
  BY DEF RunInvariant, WindowsOK
<1>3. WorkOK'
  BY DEF RunInvariant, WorkOK, Actors, Busy
<1>4. FaultsOK'
  BY DEF RunInvariant, FaultsOK, Busy
<1> QED BY <1>1, <1>2, <1>3, <1>4 DEF RunInvariant

\* A goroutine that starts a record numbers it on.
LEMMA ApplyRun ==
  ASSUME RunInvariant, PlacesOK, JobsOK, NEW a \in Actors, ~Busy(a),
         NEW source, NEW input, NEW prior, NEW replicas, Apply(a, source, input, prior, replicas),
         UNCHANGED <<log, seq, acked, faults, proc, publisher>>,
         a = "ticker" => pc["ticker"] = "decided" /\ source = "predictive" /\ input = seq - 1,
         a = "handler" => /\ source = "safety" /\ input = acked
                          /\ replicas = Max({predictive', safetyFloor'})
  PROVE  RunInvariant'
<1>1. /\ job'[a].source = source /\ job'[a].input = input /\ job'[a].final = replicas
      /\ job'[a].predictive = predictive' /\ job'[a].floor = safetyFloor'
      /\ job'[a].result \in {"not_required", "pending"}
      /\ pc'[a] = IF job'[a].result = "not_required" THEN "record" ELSE "get"
      /\ \A b \in Actors \ {a} : job'[b] = job[b] /\ pc'[b] = pc[b]
  BY ApplyRecord
<1>2. Rows' = Rows
  BY <1>1 DEF Rows, Actors
<1>3. TraceOK'
  BY <1>1, <1>2 DEF RunInvariant, TraceOK, Actors
<1>4. WindowsOK'
  BY DEF RunInvariant, WindowsOK
<1>5. WorkOK'
  <2>1. CASE a = "ticker"
    BY <1>1, <2>1 DEF RunInvariant, WorkOK, Busy, Actors
  <2>2. CASE a = "handler"
    <3>1. job'["handler"].final = Max({job'["handler"].predictive, job'["handler"].floor})
      BY <1>1, <2>2
    <3> QED BY <1>1, <2>2, <3>1 DEF RunInvariant, WorkOK, Busy, Actors
  <2> QED BY <2>1, <2>2 DEF Actors
<1>6. FaultsOK'
  <2>1. ASSUME NEW b \in Actors, pc[b] = "record", job[b].result = "error"
        PROVE  \E c \in Actors : pc'[c] = "record" /\ job'[c].result = "error"
    BY <1>1, <2>1 DEF Busy
  <2> QED BY <2>1 DEF RunInvariant, FaultsOK
<1> QED BY <1>3, <1>4, <1>5, <1>6 DEF RunInvariant

\* A scale call that is answered: a failure is recorded as one.
LEMMA AnswerRun ==
  ASSUME RunInvariant, PlacesOK, JobsOK, NEW a \in Actors, pc[a] \in {"get", "put"},
         NEW result \in {"success", "error"}, Answer(a, result)
  PROVE  RunInvariant'
<1>1. job[a] \in Jobs /\ Busy(a)
  BY DEF JobsOK, Busy
<1>2. PICK r : r = [job[a] EXCEPT !.result = result]
  OBVIOUS
<1>3. /\ r.source = job[a].source /\ r.input = job[a].input /\ r.final = job[a].final
      /\ r.predictive = job[a].predictive /\ r.floor = job[a].floor /\ r.result = result
  BY <1>1, <1>2 DEF Jobs
<1>4. job' = [job EXCEPT ![a] = r] /\ pc' = [pc EXCEPT ![a] = "record"]
      /\ UNCHANGED <<log, seq, acked, proc, publisher>>
      /\ faults' = IF result = "error" THEN faults \cup {"scale"} ELSE faults
  BY <1>2 DEF Answer, Goto
<1>5. /\ job'[a] = r /\ pc'[a] = "record"
      /\ \A b \in Actors \ {a} : job'[b] = job[b] /\ pc'[b] = pc[b]
  BY <1>4 DEF JobsOK, PlacesOK
<1>6. TraceOK'
  BY <1>4, <1>5 DEF RunInvariant, TraceOK, Rows, Actors, Busy
<1>7. WindowsOK'
  BY <1>4 DEF RunInvariant, WindowsOK
<1>8. WorkOK'
  <2>1. \A b \in Actors : Busy(b)' => /\ Busy(b)
          /\ job'[b].source = job[b].source /\ job'[b].input = job[b].input
          /\ job'[b].final = job[b].final
          /\ job'[b].predictive = job[b].predictive /\ job'[b].floor = job[b].floor
    BY <1>1, <1>3, <1>5 DEF Busy
  <2>2. \A b \in Actors : pc'[b] = "record" => job'[b].result # "pending"
    BY <1>3, <1>5 DEF RunInvariant, WorkOK
  <2>3. Busy("handler")' =>
          job'["handler"].final = Max({job'["handler"].predictive, job'["handler"].floor})
    BY <2>1 DEF RunInvariant, WorkOK, Actors
  <2> QED BY <1>4, <2>1, <2>2, <2>3 DEF RunInvariant, WorkOK, Actors
<1>9. FaultsOK'
  <2>1. CASE result = "error"
    BY <1>3, <1>5, <2>1 DEF FaultsOK
  <2>2. CASE result # "error"
    <3>1. ASSUME NEW b \in Actors, pc[b] = "record", job[b].result = "error"
          PROVE  pc'[b] = "record" /\ job'[b].result = "error"
      BY <1>5, <3>1
    <3> QED BY <1>4, <2>2, <3>1 DEF RunInvariant, FaultsOK
  <2> QED BY <2>1, <2>2
<1> QED BY <1>6, <1>7, <1>8, <1>9 DEF RunInvariant

\* What the end of a decision does, for either goroutine.
LEMMA RecordEffect ==
  ASSUME NEW a \in Actors, WriteRecord(a), PlacesOK, JobsOK
  PROVE  /\ pc[a] = "record" /\ Busy(a) /\ job[a] \in Jobs
         /\ pc'[a] = IF a = "ticker" THEN "waiting" ELSE "idle"
         /\ \A b \in Actors \ {a} : job'[b] = job[b] /\ pc'[b] = pc[b]
         /\ "scale" \in faults' <=> "scale" \in faults
         /\ UNCHANGED seq
         /\ \/ log' = Append(log, job[a]) /\ job[a].result # "error" /\ Succeeds(a)
            \/ log' = Append(log, job[a]) /\ job[a].result = "error" /\ Fails(a)
            \/ UNCHANGED log /\ Fails(a)
BY DEF WriteRecord, Goto, PlacesOK, JobsOK, Busy

\* A row of the ticker: its record is the next of the log, or the run is over.
LEMMA TickerRecordRun ==
  ASSUME RunInvariant, ControllerInvariant, WriteRecord("ticker")
  PROVE  RunInvariant'
<1> DEFINE r == job["ticker"]
<1>1. PlacesOK /\ JobsOK /\ seq \in Nat
  BY DEF ControllerInvariant, ControlOK, PolicyTypeOK
<1>2. /\ pc["ticker"] = "record" /\ Busy("ticker") /\ r \in Jobs /\ pc'["ticker"] = "waiting"
      /\ job'["handler"] = job["handler"] /\ pc'["handler"] = pc["handler"]
      /\ "scale" \in faults' <=> "scale" \in faults
      /\ UNCHANGED seq
      /\ \/ log' = Append(log, r) /\ r.result # "error" /\ Succeeds("ticker")
         \/ log' = Append(log, r) /\ r.result = "error" /\ Fails("ticker")
         \/ UNCHANGED log /\ Fails("ticker")
  BY <1>1, RecordEffect DEF Actors
<1>3. r.source = "predictive" /\ r.input = seq - 1 /\ r.input \in Nat /\ r.result # "pending"
      /\ r \in LogRecords
  BY <1>2 DEF RunInvariant, WorkOK, Actors, Jobs, LogRecords
<1>4. UNCHANGED client
  BY <1>2 DEF Succeeds, Fails
<1>5. log \in Seq(LogRecords) /\ log' \in Seq(LogRecords)
      /\ \A done : Sequenced(log, "safety", done) => Sequenced(log', "safety", done)
  <2>1. log \in Seq(LogRecords)
    BY DEF RunInvariant, TraceOK
  <2>2. Append(log, r) \in Seq(LogRecords)
        /\ \A done : Sequenced(log, "safety", done) => Sequenced(Append(log, r), "safety", done)
    BY <1>3, <2>1, AppendOther
  <2> QED BY <1>2, <2>1, <2>2
<1>6. TraceOK'
  <2>1. CASE log' = Append(log, r) /\ r.result # "error" /\ Succeeds("ticker")
    <3>1. proc' = proc /\ proc # "completed"
      BY <1>2, <2>1 DEF Succeeds, RunInvariant, TraceOK
    <3>2. ASSUME proc = "running" PROVE Sequenced(log', "predictive", seq)
      <4>1. Sequenced(log, "predictive", seq - 1) /\ seq - 1 \in Nat
        BY <1>2, <1>3, <3>2 DEF RunInvariant, TraceOK, Rows
      <4>2. r.result \in {"success", "not_required"}
        BY <1>2, <1>3, <2>1 DEF Jobs, Results
      <4>3. Sequenced(Append(log, r), "predictive", (seq - 1) + 1)
        BY <1>2, <1>3, <1>5, <4>1, <4>2, AppendNext
      <4>4. (seq - 1) + 1 = seq
        BY <1>1
      <4> QED BY <2>1, <4>3, <4>4
    <3> QED BY <1>2, <1>5, <3>1, <3>2 DEF TraceOK, Rows
  <2>2. CASE Fails("ticker")
    <3>1. proc' = "stopping"
      BY <2>2 DEF Fails
    <3> QED BY <1>5, <3>1 DEF TraceOK
  <2> QED BY <1>2, <2>1, <2>2
<1>7. WindowsOK'
  BY <1>4, <1>5 DEF RunInvariant, WindowsOK
<1>8. WorkOK'
  BY <1>2, <1>4 DEF RunInvariant, WorkOK, Busy, Actors
<1>9. FaultsOK'
  <2>1. CASE r.result = "error" \/ Fails("ticker")
    BY <1>2, <2>1 DEF Fails, FaultsOK
  <2>2. CASE r.result # "error" /\ Succeeds("ticker")
    <3>1. ASSUME NEW b \in Actors, pc[b] = "record", job[b].result = "error"
          PROVE  pc'[b] = "record" /\ job'[b].result = "error"
      BY <1>2, <2>2, <3>1 DEF Actors
    <3> QED BY <1>2, <1>4, <2>2, <3>1 DEF RunInvariant, FaultsOK, Succeeds
  <2> QED BY <1>2, <2>1, <2>2
<1> QED BY <1>6, <1>7, <1>8, <1>9 DEF RunInvariant

\* A window of the handler: its record is the next of the log when the publisher
\* goes on, and the publisher stops when it is not.
LEMMA HandlerRecordRun ==
  ASSUME RunInvariant, ControllerInvariant, WriteRecord("handler")
  PROVE  RunInvariant'
<1> DEFINE r == job["handler"]
<1>1. PlacesOK /\ JobsOK /\ PublisherOK /\ MutexOK
  BY DEF ControllerInvariant, ControlOK
<1>2. /\ pc["handler"] = "record" /\ Busy("handler") /\ r \in Jobs /\ pc'["handler"] = "idle"
      /\ job'["ticker"] = job["ticker"] /\ pc'["ticker"] = pc["ticker"]
      /\ "scale" \in faults' <=> "scale" \in faults
      /\ UNCHANGED seq
      /\ \/ log' = Append(log, r) /\ r.result # "error" /\ Succeeds("handler")
         \/ log' = Append(log, r) /\ r.result = "error" /\ Fails("handler")
         \/ UNCHANGED log /\ Fails("handler")
  BY <1>1, RecordEffect DEF Actors
<1>3. /\ r.source = "safety" /\ r.final = Max({r.predictive, r.floor}) /\ r.result # "pending"
      /\ (publisher # "stopped" => r.input = acked) /\ r \in LogRecords
  BY <1>2 DEF RunInvariant, WorkOK, Actors, LogRecords
<1>4. SafetyEnabled /\ publisher \in {"waiting", "stopped"} /\ acked \in Nat /\ MaxWindows \in Nat
      /\ (publisher = "waiting" => acked < MaxWindows)
  BY <1>1, <1>2, SafetyInputAssumption DEF MutexOK, PublisherOK
<1>5. log \in Seq(LogRecords) /\ log' \in Seq(LogRecords)
      /\ \A done : Sequenced(log, "predictive", done) => Sequenced(log', "predictive", done)
  <2>1. log \in Seq(LogRecords)
    BY DEF RunInvariant, TraceOK
  <2>2. Append(log, r) \in Seq(LogRecords)
        /\ \A done : Sequenced(log, "predictive", done) => Sequenced(Append(log, r), "predictive", done)
    BY <1>3, <2>1, AppendOther
  <2> QED BY <1>2, <2>1, <2>2
<1>6. UNCHANGED proc
  BY <1>2 DEF Succeeds, Fails
<1>7. TraceOK'
  BY <1>2, <1>5, <1>6 DEF RunInvariant, TraceOK, Rows
<1>8. WindowsOK'
  <2>1. CASE log' = Append(log, r) /\ r.result # "error" /\ Succeeds("handler")
    <3>1. CASE publisher = "waiting"
      <4>1. publisher' = "idle" /\ acked' = acked + 1
        BY <2>1, <3>1 DEF Succeeds
      <4>2. Sequenced(log, "safety", acked)
        BY <3>1 DEF RunInvariant, WindowsOK
      <4>3. r.result \in {"success", "not_required"} /\ r.input = acked
        BY <1>2, <1>3, <2>1, <3>1 DEF Jobs, Results
      <4>4. Sequenced(Append(log, r), "safety", acked + 1)
        BY <1>2, <1>3, <1>4, <1>5, <4>2, <4>3, AppendNext
      <4> QED BY <1>4, <2>1, <4>1, <4>4 DEF WindowsOK
    <3>2. CASE publisher = "stopped"
      BY <1>4, <2>1, <3>2 DEF RunInvariant, WindowsOK, Succeeds
    <3> QED BY <1>4, <3>1, <3>2
  <2>2. CASE Fails("handler")
    <3>1. publisher' = "stopped" /\ acked' = acked
      BY <2>2 DEF Fails
    <3>2. acked < MaxWindows
      BY <1>4 DEF RunInvariant, WindowsOK
    <3> QED BY <1>4, <3>1, <3>2 DEF WindowsOK
  <2> QED BY <1>2, <2>1, <2>2
<1>9. WorkOK'
  BY <1>2 DEF RunInvariant, WorkOK, Busy, Actors
<1>10. FaultsOK'
  <2>1. CASE Fails("handler")
    BY <1>4, <2>1 DEF Fails, FaultsOK
  <2>2. CASE r.result # "error" /\ Succeeds("handler")
    <3>1. ASSUME NEW b \in Actors, pc[b] = "record", job[b].result = "error"
          PROVE  pc'[b] = "record" /\ job'[b].result = "error"
      BY <1>2, <2>2, <3>1 DEF Actors
    <3>2. publisher = "stopped" => publisher' = "stopped"
      BY <2>2 DEF Succeeds
    <3> QED BY <1>2, <1>6, <3>1, <3>2 DEF RunInvariant, FaultsOK
  <2> QED BY <1>2, <2>1, <2>2
<1> QED BY <1>7, <1>8, <1>9, <1>10 DEF RunInvariant

\* Every step keeps it.
LEMMA RunStep ==
  ASSUME RunInvariant, ControllerInvariant, ControllerInvariant', [Next]_vars
  PROVE  RunInvariant'
<1>1. /\ PlacesOK /\ JobsOK /\ MutexOK /\ PublisherOK /\ seq \in Nat
      /\ proc \in {"running", "completed", "stopping", "exited"} /\ acked \in 0..MaxWindows
  BY DEF ControllerInvariant, ControlOK, PolicyTypeOK, SurroundingsOK, PublisherOK
<1>2. CASE TickArbitrate
  <2>1. ~Busy("ticker")
    BY <1>2 DEF TickArbitrate, Busy
  <2> QED BY <1>1, <1>2, <2>1, ApplyRun DEF TickArbitrate, Actors
<1>3. CASE TickDirect
  <2>1. ~Busy("ticker")
    BY <1>3 DEF TickDirect, Busy
  <2> QED BY <1>1, <1>3, <2>1, ApplyRun DEF TickDirect, Actors
<1>4. ASSUME NEW ready \in ReadyCounts, SafetyDecide(ready) PROVE RunInvariant'
  <2>1. ~Busy("handler")
    BY <1>4 DEF SafetyDecide, Busy
  <2>2. predictive' \in Int /\ safetyFloor' \in Int
        /\ final' = IF safetyFloor' > predictive' THEN safetyFloor' ELSE predictive'
    BY BoundsAreInt DEF ControllerInvariant, FinalIsMax, Arb!FinalIsMax
  <2>3. final' = Max({predictive', safetyFloor'})
    BY <2>2, LargerOfTwo
  <2> QED BY <1>1, <1>4, <2>1, <2>3, ApplyRun DEF SafetyDecide, Actors
<1>5. ASSUME NEW w \in Workloads, TickDecide(w) PROVE RunInvariant'
  <2>1. /\ proc = "running" /\ pc["ticker"] = "waiting" /\ pc' = [pc EXCEPT !["ticker"] = "decided"]
        /\ seq' = seq + 1
        /\ UNCHANGED <<log, proc, publisher, acked, job, faults>>
    BY <1>5 DEF TickDecide, Goto, Decide
  <2>2. /\ pc'["ticker"] = "decided" /\ pc'["handler"] = pc["handler"]
    BY <1>1, <2>1 DEF PlacesOK, Actors
  <2>3. Rows' = Rows
    BY <1>1, <2>1, <2>2 DEF Rows
  <2>4. TraceOK'
    BY <2>1, <2>3 DEF RunInvariant, TraceOK
  <2>5. WindowsOK' /\ WorkOK' /\ FaultsOK'
    BY <2>1, <2>2 DEF RunInvariant, WindowsOK, WorkOK, FaultsOK, Busy, Actors
  <2> QED BY <2>4, <2>5 DEF RunInvariant
<1>6. ASSUME NEW w \in Workloads, TickPolicyError(w) PROVE RunInvariant'
  <2>1. /\ log' \in {log, Append(log, NotAttempted)} /\ proc' = "stopping"
        /\ UNCHANGED <<seq, pc, job, publisher, acked>>
    BY <1>6 DEF TickPolicyError, DecideError, Fails, NotAttempted
  <2>2. /\ log \in Seq(LogRecords) /\ NotAttempted \in LogRecords
        /\ NotAttempted.source # "safety"
    BY DEF RunInvariant, TraceOK, LogRecords, NotAttempted
  <2>3. log' \in Seq(LogRecords)
        /\ \A done : Sequenced(log, "safety", done) => Sequenced(log', "safety", done)
    BY <2>1, <2>2, AppendOther
  <2>4. TraceOK'
    BY <2>1, <2>3 DEF TraceOK
  <2>5. WindowsOK'
    BY <2>1, <2>3 DEF RunInvariant, WindowsOK
  <2>6. WorkOK' /\ FaultsOK'
    BY <2>1 DEF RunInvariant, WorkOK, FaultsOK, Busy
  <2> QED BY <2>4, <2>5, <2>6 DEF RunInvariant
<1>7. CASE TickerEnds
  <2>1. /\ pc["ticker"] = "waiting" /\ UNCHANGED <<seq, pc, job, log, publisher, acked, faults>>
        /\ \/ proc = "running" /\ seq = MaxDecisions /\ proc' = "completed"
           \/ proc' = "stopping"
    BY <1>7 DEF TickerEnds
  <2>2. TraceOK'
    BY <2>1 DEF RunInvariant, TraceOK, Rows
  <2>3. WindowsOK' /\ WorkOK'
    BY <2>1 DEF RunInvariant, WindowsOK, WorkOK, Busy
  <2>4. FaultsOK'
    BY <2>1 DEF RunInvariant, FaultsOK
  <2> QED BY <2>2, <2>3, <2>4 DEF RunInvariant
<1>8. ASSUME NEW a \in Actors, GetScale(a) PROVE RunInvariant'
  BY <1>1, <1>8, RunStays DEF GetScale, Goto, PlacesOK, Rows, Busy, Actors, RunInvariant, TraceOK
<1>9. ASSUME NEW a \in Actors, UpdateScale(a) \/ ScaleCallFails(a) \/ UpdateScaleInDoubt(a)
      PROVE  RunInvariant'
  <2>1. PICK result \in {"success", "error"} : Answer(a, result) /\ pc[a] \in {"get", "put"}
    BY <1>9 DEF UpdateScale, ScaleCallFails, UpdateScaleInDoubt
  <2> QED BY <1>1, <2>1, AnswerRun
<1>10. ASSUME NEW a \in Actors, WriteRecord(a) PROVE RunInvariant'
  BY <1>10, TickerRecordRun, HandlerRecordRun DEF Actors
<1>11. CASE SafetyLock \/ ReadyReadRetries
  BY <1>1, <1>11, RunStays DEF SafetyLock, ReadyReadRetries, Goto, PlacesOK, Rows, Busy, Actors,
     RunInvariant, TraceOK
<1>12. ASSUME pc["handler"] = "reading", SafetyFails, UNCHANGED <<predictive, safetyFloor, final>>
       PROVE  RunInvariant'
  <2>1. publisher # "stopped" => acked < MaxWindows
    BY <1>1, <1>12 DEF PublisherOK
  <2> QED BY <1>1, <1>12, <2>1, RunStays DEF SafetyFails, Fails, Goto, PlacesOK, Rows, Busy, Actors,
          RunInvariant, TraceOK
<1>13. CASE ProcessExit \/ Signal \/ StatusUpdate \/ UNCHANGED vars
  <2>1. publisher = "waiting" => acked < MaxWindows
    BY <1>1 DEF PublisherOK
  <2> QED BY <1>1, <1>13, <2>1, RunStays DEF ProcessExit, Signal, StatusUpdate, Rows, Busy,
          RunInvariant, TraceOK
<1>14. CASE PublisherGivesUp
  <2>1. publisher = "waiting" => acked < MaxWindows
    BY <1>1 DEF PublisherOK
  <2> QED BY <1>1, <1>14, <2>1, RunStays DEF PublisherGivesUp, Rows, Busy, RunInvariant, TraceOK
<1>15. ASSUME NEW d \in Demands, PostObservation(d) PROVE RunInvariant'
  <2>1. pc["handler"] = "idle"
    BY <1>1, <1>15 DEF PostObservation, PublisherOK
  <2> QED BY <1>1, <1>15, <2>1, RunStays DEF PostObservation, Goto, PlacesOK, Rows, Busy, Actors,
          RunInvariant, TraceOK
<1> QED BY <1>2, <1>3, <1>4, <1>5, <1>6, <1>7, <1>8, <1>9, <1>10, <1>11, <1>12, <1>13, <1>14, <1>15
        DEF Next, TickerStep, HandlerStep, ScaleStep, Environment, ReadyReadGivesUp, SafetyRefuses,
            Actors

\* At the end nobody is at work, nothing has failed and nothing is missing.
LEMMA AcceptedRun ==
  ASSUME RunInvariant, ControllerInvariant, OwnershipInvariant
  PROVE  AcceptedRunIsFaithful
<1> DEFINE owed == IF SafetyEnabled THEN MaxWindows ELSE 0
<1> SUFFICES ASSUME proc = "completed", acked = owed
             PROVE  deployment = Commanded /\ RecordsInSequence /\ ArbitratedWithoutErrors
  BY DEF AcceptedRunIsFaithful
<1>1. /\ pc["ticker"] = "waiting" /\ seq = MaxDecisions
      /\ Sequenced(log, "predictive", MaxDecisions)
  BY DEF RunInvariant, TraceOK, Rows
<1>2. MaxWindows \in Nat /\ MaxDecisions \in Nat
  BY SafetyInputAssumption, PolicyInputAssumption
<1>3. SafetyEnabled => publisher = "idle"
  BY <1>2 DEF RunInvariant, WindowsOK, ControllerInvariant, ControlOK, PublisherOK
<1>4. pc["handler"] = "idle"
  BY <1>3 DEF ControllerInvariant, ControlOK, PublisherOK, MutexOK
<1>5. Sequenced(log, "safety", owed)
  BY <1>3 DEF RunInvariant, WindowsOK
<1>6. deployment = Commanded
  <2>1. "scale" \notin faults
    BY <1>1, <1>3, <1>4 DEF RunInvariant, FaultsOK, Actors
  <2> QED BY <1>1, <1>4, <2>1 DEF OwnershipInvariant, Scaling, Actors
<1>7. \A source : Recorded(source) = RecordedIn(log, source)
  BY DEF Recorded, RecordedIn
<1>8. ASSUME NEW source, NEW n \in Nat, Sequenced(log, source, n) PROVE NumberedUpTo(n, source)
  <2>1. \A i \in Recorded(source) : log[i].input \in 0..(n - 1)
    BY <1>7, <1>8 DEF Sequenced
  <2>2. \A k \in 0..(n - 1) : \E i \in Recorded(source) : log[i].input = k
    BY <1>7, <1>8 DEF Sequenced
  <2>3. {log[i].input : i \in Recorded(source)} = 0..(n - 1)
    BY <2>1, <2>2
  <2> QED BY <1>7, <1>8, <2>3 DEF Sequenced, NumberedUpTo
<1>9. RecordsInSequence
  BY <1>1, <1>2, <1>5, <1>8 DEF RecordsInSequence
<1>10. ASSUME NEW i \in DOMAIN log
       PROVE  i \in Recorded("predictive") \cup Recorded("safety")
  <2>1. log[i] \in LogRecords
    <3>1. PICK l : l = log
      OBVIOUS
    <3>2. l \in Seq(LogRecords) /\ i \in 1..Len(l)
      BY <3>1, LenProperties DEF RunInvariant, TraceOK
    <3> QED BY <3>1, <3>2, ElementOfSeq
  <2>2. log[i].source \in {"predictive", "safety"}
    BY <2>1 DEF LogRecords, Jobs, NotAttempted
  <2> QED BY <2>2 DEF Recorded
<1>11. ArbitratedWithoutErrors
  <2>1. \A i \in Recorded("predictive") : log[i].result \in {"success", "not_required"}
    BY <1>1, <1>7 DEF Sequenced
  <2>2. \A i \in Recorded("safety") : log[i].result \in {"success", "not_required"}
    BY <1>5, <1>7 DEF Sequenced
  <2>3. \A i \in Recorded("safety") : log[i].final = Max({log[i].predictive, log[i].floor})
    BY <1>5, <1>7 DEF Sequenced
  <2> QED BY <1>10, <2>1, <2>2, <2>3 DEF ArbitratedWithoutErrors
<1> QED BY <1>6, <1>9, <1>11

\* A run that ends as the campaign accepts it has a complete, ordered and faultless
\* log, and left the Deployment at the command in force.
THEOREM ControllerAcceptedRunIsFaithful == Spec => []AcceptedRunIsFaithful
<1>1. ASSUME Init PROVE RunInvariant
  <2>1. log \in Seq(LogRecords) /\ DOMAIN log = {}
    BY <1>1, EmptySeq, LenProperties DEF Init
  <2>2. \A source : Sequenced(log, source, 0)
    BY <2>1 DEF Sequenced, RecordedIn
  <2>3. /\ pc = [ticker |-> "waiting", handler |-> "idle"] /\ seq = 0 /\ proc = "running"
        /\ publisher = "idle" /\ acked = 0 /\ faults = {}
    BY <1>1 DEF Init, PolicyInit
  <2> QED BY <2>1, <2>2, <2>3 DEF RunInvariant, TraceOK, WindowsOK, WorkOK, FaultsOK, Rows, Busy, Actors
<1>2. Init => OwnershipInvariant
  BY OwnershipInit
<1>3. OwnershipInvariant /\ ControllerInvariant /\ ControllerInvariant' /\ [Next]_vars
        => OwnershipInvariant'
  BY OwnershipStep
<1>4. RunInvariant /\ ControllerInvariant /\ ControllerInvariant' /\ [Next]_vars => RunInvariant'
  BY RunStep
<1>5. RunInvariant /\ ControllerInvariant /\ OwnershipInvariant => AcceptedRunIsFaithful
  BY AcceptedRun
<1> QED BY <1>1, <1>2, <1>3, <1>4, <1>5, ControllerInvariantHolds, PTL DEF Spec
=============================================================================
