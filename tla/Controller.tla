----------------------------- MODULE Controller -----------------------------
(***************************************************************************)
(* The running controller (controller/internal/controller, kube and the    *)
(* end of cmd/predictive-autoscaler/main.go).  Two goroutines share the     *)
(* arbiter, the Deployment and the log: the ticker, which walks the         *)
(* forecast trace, and the HTTP handler of safety observations.  Both hold  *)
(* decisionMu from arbitration to the log record; scaleMu is only taken     *)
(* inside it.  The observations come from the load generator's publisher,   *)
(* one request at a time, which gives up for good at the first error.       *)
(***************************************************************************)
EXTENDS Policy, Safety

CONSTANTS SafetyEnabled   \* runtime configuration

ASSUME SafetyEnabledAssumption == SafetyEnabled \in BOOLEAN

ReadyReadMaxAttempts == 3
Actors == {"ticker", "handler"}

VARIABLES
  pc,            \* where each goroutine is
  job,           \* the log record each goroutine is filling in
  decisionMu,    \* who holds the decision mutex, or "free"
  predictive, safetyFloor, final,   \* the arbiter
  request,       \* the observation the handler works on, Ready reads made
  log,           \* the records written to stdout
  proc,          \* running, completed (waits for a signal), stopping, exited
  cancelled,     \* the signal context is done
  deployment,    \* external: spec.replicas of the Deployment
  fresh,         \* external: no write since the caller's GetScale
  publisher,     \* external: idle, waiting or stopped
  acked,         \* external: windows answered with 202
  faults         \* history: a "scale" call failed, a "record" was not written

engines == <<policyVars, safetyVars, predictive, safetyFloor, final>>
cluster == <<deployment, fresh>>
client == <<publisher, acked>>
process == <<proc, cancelled>>
work == <<pc, job, decisionMu, request, log, faults>>
vars == <<engines, cluster, client, process, work>>

Arb == INSTANCE Arbiter

NoJob == [source |-> "none"]
NoRequest == [demand |-> 0, attempts |-> 0]

Init ==
  /\ PolicyInit /\ SafetyInit /\ Arb!Init
  /\ pc = [ticker |-> "waiting", handler |-> "idle"]
  /\ job = [a \in Actors |-> NoJob]
  /\ decisionMu = "free" /\ request = NoRequest /\ log = << >> /\ faults = {}
  /\ proc = "running" /\ cancelled = FALSE
  /\ deployment = InitialReplicas      \* Preflight refuses anything else
  /\ fresh = FALSE
  /\ publisher = "idle" /\ acked = 0

Goto(a, label) == pc' = [pc EXCEPT ![a] = label]
Lock(a) == decisionMu = "free" /\ decisionMu' = a
Unlock(a) == decisionMu' = IF decisionMu = a THEN "free" ELSE decisionMu

\* The record of a decision, and the first half of applyFinalDecision: no API
\* call when the command does not change.
Apply(a, source, input, prior, replicas) ==
  /\ job' = [job EXCEPT ![a] =
       [source |-> source, input |-> input, prior |-> prior, final |-> replicas,
        predictive |-> predictive', floor |-> safetyFloor',
        result |-> IF replicas = prior THEN "not_required" ELSE "pending"]]
  /\ Goto(a, IF replicas = prior THEN "record" ELSE "get")

\* The seeded fault: a publisher that goes on with the next window.
FailsOver(a) ==
  /\ proc' = IF a = "ticker" THEN "stopping" ELSE proc
  /\ publisher' = IF a = "handler" THEN "idle" ELSE publisher
  /\ acked' = IF a = "handler" THEN acked + 1 ELSE acked
  /\ UNCHANGED cancelled

\* An error of the ticker ends the process; one of the handler is a status 500,
\* at which the publisher gives up.
Fails(a) ==
  /\ proc' = IF a = "ticker" THEN "stopping" ELSE proc
  /\ publisher' = IF a = "handler" THEN "stopped" ELSE publisher
  /\ UNCHANGED <<acked, cancelled>>

Succeeds(a) ==
  /\ IF a = "handler" /\ publisher = "waiting"
     THEN publisher' = "idle" /\ acked' = acked + 1 ELSE UNCHANGED client
  /\ UNCHANGED process
-----------------------------------------------------------------------------
(* The ticker: RunAfterPreflight and Tick.                                 *)

\* The next row is due: Decide, outside the decision mutex.
TickDecide(w) ==
  /\ proc = "running" /\ pc["ticker"] = "waiting"
  /\ Decide(w)
  /\ Goto("ticker", "decided")
  /\ UNCHANGED <<safetyVars, predictive, safetyFloor, final, cluster, client, process,
                 job, decisionMu, request, log, faults>>

\* The policy refuses the rate: a record, no scale action, and the end.
TickPolicyError(w) ==
  /\ proc = "running" /\ pc["ticker"] = "waiting"
  /\ DecideError(w)
  /\ \/ /\ log' = Append(log, [source |-> "predictive", result |-> "not_attempted"])
        /\ UNCHANGED faults
     \/ UNCHANGED log /\ faults' = faults \cup {"record"}
  /\ Fails("ticker")
  /\ UNCHANGED <<safetyVars, predictive, safetyFloor, final, cluster,
                 pc, job, decisionMu, request>>

\* The seeded fault: the predictive command is arbitrated without the mutex.
TickArbitrateUnlocked ==
  /\ SafetyEnabled /\ pc["ticker"] = "decided"
  /\ Arb!UpdatePredictive(command)
  /\ Apply("ticker", "predictive", seq - 1, final, final')
  /\ UNCHANGED <<policyVars, safetyVars, cluster, client, process, decisionMu, request,
                 log, faults>>

\* With the safety net: arbitrate under the decision mutex.
TickArbitrate ==
  /\ SafetyEnabled /\ pc["ticker"] = "decided"
  /\ Lock("ticker")
  /\ Arb!UpdatePredictive(command)
  /\ Apply("ticker", "predictive", seq - 1, final, final')
  /\ UNCHANGED <<policyVars, safetyVars, cluster, client, process, request, log, faults>>

\* Without it: the policy's own command, and no mutex.
TickDirect ==
  /\ ~SafetyEnabled /\ pc["ticker"] = "decided"
  /\ UNCHANGED engines
  /\ Apply("ticker", "predictive", seq - 1, decision.prior, decision.commanded)
  /\ UNCHANGED <<cluster, client, process, decisionMu, request, log, faults>>

\* The trace is finished (the process serves until a signal), or the signal
\* interrupts the wait.
TickerEnds ==
  /\ pc["ticker"] = "waiting"
  /\ \/ proc = "running" /\ seq = MaxDecisions /\ proc' = "completed"
     \/ proc = "running" /\ seq < MaxDecisions /\ cancelled /\ proc' = "stopping"
     \/ proc = "completed" /\ cancelled /\ proc' = "stopping"
  /\ UNCHANGED <<engines, cluster, client, work, cancelled>>
-----------------------------------------------------------------------------
(* The handler: SafetyTick.                                                *)

SafetyLock ==
  /\ pc["handler"] = "accepted"
  /\ Lock("handler")
  /\ Goto("handler", "reading")
  /\ request' = [request EXCEPT !.attempts = 1]
  /\ UNCHANGED <<engines, cluster, client, process, job, log, faults>>

\* A Ready read fails and is tried again.
ReadyReadRetries ==
  /\ pc["handler"] = "reading" /\ request.attempts < ReadyReadMaxAttempts
  /\ request' = [request EXCEPT !.attempts = @ + 1]
  /\ UNCHANGED <<engines, cluster, client, process, pc, job, decisionMu, log, faults>>

\* The seeded fault: an error return that keeps the mutex.
SafetyFailsLocked ==
  /\ Goto("handler", "idle") /\ Fails("handler")
  /\ request' = NoRequest
  /\ UNCHANGED <<policyVars, cluster, job, log, faults, decisionMu>>

SafetyFails ==
  /\ Goto("handler", "idle") /\ Unlock("handler") /\ Fails("handler")
  /\ request' = NoRequest
  /\ UNCHANGED <<policyVars, cluster, job, log, faults>>

\* It fails for the last time, or the signal ends the wait for the next try.
ReadyReadGivesUp ==
  /\ pc["handler"] = "reading"
  /\ request.attempts = ReadyReadMaxAttempts \/ cancelled
  /\ SafetyFails
  /\ UNCHANGED <<safetyVars, predictive, safetyFloor, final>>

\* It succeeds: evaluate, arbitrate and start the record.
SafetyDecide(ready) ==
  /\ pc["handler"] = "reading"
  /\ Evaluate(request.demand, ready, predictive)
  /\ Arb!UpdateSafetyFloor(evaluation'.floor)
  /\ Apply("handler", "safety", acked, final, final')
  /\ UNCHANGED <<policyVars, cluster, client, process, decisionMu, request, log, faults>>

\* The engine refuses the inputs, or the arbiter refuses the engine's floor.
SafetyRefuses(ready) ==
  /\ pc["handler"] = "reading"
  /\ \/ EvaluateError(request.demand, ready, predictive)
     \/ /\ Evaluate(request.demand, ready, predictive)
        /\ Arb!UpdateError(predictive, evaluation'.floor)
  /\ UNCHANGED <<predictive, safetyFloor, final>>
  /\ SafetyFails
-----------------------------------------------------------------------------
(* The scale calls of either goroutine (DeploymentScaler.Update) and the    *)
(* second half of applyFinalDecision.                                       *)

Answer(a, result) ==
  /\ Goto(a, "record")
  /\ job' = [job EXCEPT ![a].result = result]
  /\ fresh' = FALSE
  /\ faults' = IF result = "error" THEN faults \cup {"scale"} ELSE faults
  /\ UNCHANGED <<engines, client, process, decisionMu, request, log>>

GetScale(a) ==
  /\ pc[a] = "get"
  /\ Goto(a, "put")
  /\ fresh' = TRUE
  /\ UNCHANGED <<engines, client, process, deployment, job, decisionMu, request, log, faults>>

UpdateScale(a) ==
  /\ pc[a] = "put" /\ fresh
  /\ deployment' = job[a].final
  /\ Answer(a, "success")

\* Either call fails, or conflicts with another write, without any effect.
ScaleCallFails(a) ==
  /\ pc[a] \in {"get", "put"}
  /\ UNCHANGED deployment
  /\ Answer(a, "error")

\* The update takes effect but its answer is lost, or the server answers with
\* another replica count than the one asked for.
UpdateScaleInDoubt(a) ==
  /\ pc[a] = "put" /\ fresh
  /\ deployment' \in Replicas
  /\ Answer(a, "error")

\* The seeded fault: an API error that ends like a success.
WriteRecordForgiving(a) ==
  /\ pc[a] = "record"
  /\ log' = Append(log, job[a]) /\ Succeeds(a) /\ UNCHANGED faults
  /\ Goto(a, IF a = "ticker" THEN "waiting" ELSE "idle") /\ Unlock(a)
  /\ job' = [job EXCEPT ![a] = NoJob]
  /\ request' = IF a = "handler" THEN NoRequest ELSE request
  /\ UNCHANGED <<engines, cluster>>

\* The record is written, or the write fails; the mutex is released and the
\* goroutine returns.
WriteRecord(a) ==
  /\ pc[a] = "record"
  /\ \/ /\ log' = Append(log, job[a]) /\ UNCHANGED faults
        /\ IF job[a].result = "error" THEN Fails(a) ELSE Succeeds(a)
     \/ UNCHANGED log /\ faults' = faults \cup {"record"} /\ Fails(a)
  /\ Goto(a, IF a = "ticker" THEN "waiting" ELSE "idle") /\ Unlock(a)
  /\ job' = [job EXCEPT ![a] = NoJob]
  /\ request' = IF a = "handler" THEN NoRequest ELSE request
  /\ UNCHANGED <<engines, cluster>>
-----------------------------------------------------------------------------
(* The process and its surroundings.                                       *)

\* Shutdown waits three seconds for the handler, then the process ends.
ProcessExit ==
  /\ proc = "stopping"
  /\ proc' = "exited"
  /\ publisher' = IF publisher = "waiting" THEN "stopped" ELSE publisher
  /\ UNCHANGED <<engines, cluster, work, acked, cancelled>>

Signal ==
  /\ proc \in {"running", "completed"} /\ ~cancelled
  /\ cancelled' = TRUE
  /\ UNCHANGED <<engines, cluster, client, work, proc>>

\* External: a status update of the Deployment moves its resource version.
StatusUpdate ==
  /\ fresh
  /\ fresh' = FALSE
  /\ UNCHANGED <<engines, client, process, work, deployment>>

\* External: the publisher posts its next window, and the store accepts it.
PostObservation(d) ==
  /\ SafetyEnabled /\ proc # "exited"
  /\ publisher = "idle" /\ acked < MaxWindows
  /\ publisher' = "waiting"
  /\ request' = [NoRequest EXCEPT !.demand = d]
  /\ Goto("handler", "accepted")
  /\ UNCHANGED <<engines, cluster, process, acked, job, decisionMu, log, faults>>

\* External: the server is gone, or the answer takes more than a second.
PublisherGivesUp ==
  /\ \/ publisher = "idle" /\ acked < MaxWindows /\ proc \in {"stopping", "exited"}
     \/ publisher = "waiting"
  /\ publisher' = "stopped"
  /\ UNCHANGED <<engines, cluster, process, work, acked>>

ScaleStep(a) == \/ GetScale(a) \/ UpdateScale(a) \/ ScaleCallFails(a)
                \/ UpdateScaleInDoubt(a) \/ WriteRecord(a)

TickerStep ==
  /\ proc # "exited"
  /\ \/ \E w \in Workloads : TickDecide(w) \/ TickPolicyError(w)
     \/ TickArbitrate \/ TickDirect
     \/ ScaleStep("ticker")
     \/ TickerEnds

HandlerStep ==
  /\ proc # "exited"
  /\ \/ SafetyLock \/ ReadyReadRetries \/ ReadyReadGivesUp
     \/ \E ready \in ReadyCounts : SafetyDecide(ready) \/ SafetyRefuses(ready)
     \/ ScaleStep("handler")

Environment ==
  \/ Signal \/ StatusUpdate \/ PublisherGivesUp
  \/ \E d \in Demands : PostObservation(d)

Next == TickerStep \/ HandlerStep \/ ProcessExit \/ Environment

Spec == Init /\ [][Next]_vars

\* Goroutines are scheduled, an API call answers or fails, and Shutdown has a
\* deadline.  Signals, status updates and observations may never come.
FairSpec == Spec /\ WF_vars(TickerStep) /\ WF_vars(HandlerStep) /\ WF_vars(ProcessExit)
-----------------------------------------------------------------------------
Results == {"not_required", "pending", "success", "error"}
Jobs == [source : {"predictive", "safety"}, input : Nat, prior : Replicas, final : Replicas,
         predictive : Replicas, floor : Replicas, result : Results]
Busy(a) == pc[a] \in {"get", "put", "record"}

\* Every variable is in its range; a goroutine in the middle of a decision has
\* a job and, with the safety net, the mutex, which nobody else then has.
ControllerTypeOK ==
  /\ PolicyTypeOK /\ SafetyTypeOK
  /\ pc["ticker"] \in {"waiting", "decided", "get", "put", "record"}
  /\ pc["handler"] \in {"idle", "accepted", "reading", "get", "put", "record"}
  /\ \A a \in Actors : job[a] \in IF Busy(a) THEN Jobs ELSE {NoJob}
  /\ SafetyEnabled => (decisionMu = "ticker" <=> Busy("ticker"))
  /\ decisionMu = "handler" <=> (Busy("handler") \/ pc["handler"] = "reading")
  /\ decisionMu \in Actors \cup {"free"}
  /\ proc \in {"running", "completed", "stopping", "exited"}
  /\ cancelled \in BOOLEAN /\ fresh \in BOOLEAN
  /\ deployment \in Replicas
  /\ publisher \in {"idle", "waiting", "stopped"} /\ acked \in 0..MaxWindows
  /\ request.attempts \in 0..ReadyReadMaxAttempts
  /\ faults \subseteq {"scale", "record"}

\* The arbiter's promise holds with both goroutines updating it.
FinalIsMax == Arb!FinalIsMax

\* The command in force: the arbiter's, or the policy's without the safety net.
Commanded == IF SafetyEnabled THEN final ELSE command

Ownership == INSTANCE ScaleOwnership
               WITH target <- Commanded, replicas <- deployment,
                    doubtful <- ("scale" \in faults)

\* Commands of the two goroutines take effect one at a time and in the order
\* they were decided, until a scale call fails (single scale writer).
OwnsScale == Ownership!Spec

\* The records of decisions that were arbitrated, and the one before each.
Arbitrations == {i \in DOMAIN log : log[i].result # "not_attempted"}

ArbitratedBefore(i) ==
  LET earlier == {j \in Arbitrations : j < i}
  IN  IF earlier = {}
      THEN [final |-> InitialReplicas, predictive |-> InitialReplicas, floor |-> MinReplicas]
      ELSE log[Max(earlier)]

\* A decision that starts from the state another one left and changes one input.
Follows(record, before) ==
  /\ record.prior = before.final
  /\ IF record.source = "safety" THEN record.predictive = before.predictive
                                 ELSE record.floor = before.floor
  /\ record.final = Max({record.predictive, record.floor})

\* The log is the sequence of arbitrations: every record starts from the final
\* command of the record before it and changes only its own goroutine's input,
\* so replaying the log reproduces every command (validate_safety_run.py).
LogIsLinear ==
  SafetyEnabled /\ "record" \notin faults =>
    \A i \in Arbitrations : Follows(log[i], ArbitratedBefore(i))

\* split_controller_log.py: the log of one source of decisions.
Recorded(source) == {i \in DOMAIN log : log[i].source = source}

\* fixed_lengths, predictive_sequence and safety_sequence: the records of a source
\* carry exactly the numbers 0 to n - 1, in order.
NumberedUpTo(n, source) ==
  /\ {log[i].input : i \in Recorded(source)} = 0..(n - 1)
  /\ \A i, j \in Recorded(source) : i < j => log[i].input < log[j].input

RecordsInSequence ==
  /\ NumberedUpTo(MaxDecisions, "predictive")
  /\ NumberedUpTo(IF SafetyEnabled THEN MaxWindows ELSE 0, "safety")

\* controller_api_no_errors and the arbiter's check of every safety record.
ArbitratedWithoutErrors ==
  /\ \A i \in DOMAIN log : log[i].result \in {"success", "not_required"}
  /\ \A i \in Recorded("safety") : log[i].final = Max({log[i].predictive, log[i].floor})

\* A run that ends as the campaign accepts it - the trace completed and every
\* window answered with 202 - left the Deployment at the command in force, and
\* its log passes the run validation (validate_safety_run.py): every row and
\* every window in order, arbitrated and written without an error.
AcceptedRunIsFaithful ==
  proc = "completed" /\ acked = (IF SafetyEnabled THEN MaxWindows ELSE 0) =>
    deployment = Commanded /\ RecordsInSequence /\ ArbitratedWithoutErrors

\* As long as the publisher goes on, the floor the arbiter enforces is the one the
\* engine stands for, from the first window on, although the two are bounded by different policies
\* and the arbiter may refuse what the engine has already made its own.
FloorsAgree ==
  SafetyEnabled /\ publisher # "stopped" =>
    safetyFloor = IF sequence = 0 THEN MinReplicas ELSE IF active THEN floor ELSE SafetyMin

\* Whichever goroutine writes the Deployment, it never writes less than the
\* predictive command or the safety floor of that moment (safety-net/README.md).
WritesCoverBothCommands ==
  [][\A a \in Actors : SafetyEnabled /\ UpdateScale(a) =>
       deployment' >= predictive /\ deployment' >= safetyFloor]_vars

HandlerReturns ==
  pc["handler"] # "idle" ~> pc["handler"] = "idle" \/ proc = "exited"
TraceEnds == <>(proc # "running")

\* Whatever fails on the way, every accepted observation is worked off and the
\* ticker reaches the end of the trace or stops the process: no error return of
\* SafetyTick keeps the mutex, and no retry goes on for ever.
RunProceeds == HandlerReturns /\ TraceEnds
=============================================================================
