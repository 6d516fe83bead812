----------------------------- MODULE Workloads -----------------------------
(***************************************************************************)
(* The workload traces of the study and what is derived from them before   *)
(* any run: the request schedule, the annotations, the six-second-ahead    *)
(* oracle (workloads/tools/generate_workload_suite.py), the commands the   *)
(* policy engine gives for it (forecasts/oracle/tools/generate_oracle.py)  *)
(* and the two independent validators of those files.  One step is one     *)
(* second of one trace, in the order of the generators' loops.             *)
(***************************************************************************)
EXTENDS Capacity, SequencesExt

CONSTANTS
  Rps,                  \* one request per second in the unit of rates
  Horizon,              \* HORIZON_S, a multiple of the decision interval
  CapacityLookup, MinReplicas, MaxReplicas, InitialReplicas, SafetyFactor,
  StabilizationSecs, DecisionIntervalSecs, MaxScaleDownStep, MaxScaleUpStep

\* The unit makes every sample of every trace an integer.
ASSUME RpsAssumption == Rps \in Nat \ {0} /\ Rps % 72 = 0
ASSUME HorizonAssumption == Horizon \in Nat \ {0}

\* PolicyConfig.validate, and the step limits of the controller's own check.
ASSUME SuitePolicyAssumption ==
  /\ MinReplicas \in Nat \ {0}
  /\ MaxReplicas \in Nat /\ MinReplicas <= MaxReplicas
  /\ InitialReplicas \in MinReplicas..MaxReplicas
  /\ SafetyFactor \in Nat \ {0}
  /\ DecisionIntervalSecs \in Nat \ {0} /\ StabilizationSecs \in Nat
  /\ StabilizationSecs % DecisionIntervalSecs = 0
  /\ MaxScaleDownStep \in Nat \ {0} /\ MaxScaleUpStep \in Nat
  /\ IsCapacityLookup(CapacityLookup, MinReplicas, MaxReplicas)

VARIABLES
  trace, second,        \* the trace being generated, its next second
  carry,                \* the fraction of a request not yet scheduled
  lastOffset,           \* offset of the newest scheduled request, microseconds
  demanded, scheduled,  \* the validator's two running totals
  timeline,             \* the oracle rows written so far
  written,              \* the finished timelines: raw and commanded replicas by trace
  failures,             \* what either validator has complained about
  boundedHistory, commanded, decisionIndex, refDecision   \* the policy engine

suiteVars == <<trace, second, carry, lastOffset, demanded, scheduled, timeline,
               written, failures, boundedHistory, commanded, decisionIndex, refDecision>>

Engine == INSTANCE PolicyReference WITH
  history <- boundedHistory, command <- commanded, seq <- decisionIndex,
  decision <- refDecision, Workloads <- {}, MaxDecisions <- 0

-----------------------------------------------------------------------------
(* The traces: a rate for every second from 0. *)

Baseline == 25 * Rps
Rise(part, whole) == (35 * Rps * part) \div whole

RampTrace == [t \in 0..479 |->
  CASE t < 60             -> Baseline
    [] t \in 60..239      -> Baseline + Rise(t - 59, 180)
    [] t \in 240..299     -> Baseline + Rise(1, 1)
    [] t \in 300..419     -> Baseline + Rise(1, 1) - Rise(t - 299, 120)
    [] t >= 420           -> Baseline]

PulseTrace(length, peak) == [t \in 0..length - 1 |->
  IF t \in peak THEN Baseline + Rise(1, 1) ELSE Baseline]

PeriodicTrace == [t \in 0..719 |->
  LET phase == (t - 60) % 120
  IN  IF t \notin 60..659 THEN Baseline
      ELSE IF phase <= 60 THEN Baseline + Rise(phase, 60)
      ELSE Baseline + Rise(1, 1) - Rise(phase - 60, 60)]

StableNoisyTrace == [t \in 0..239 |->
  Rps * <<23, 24, 25, 26, 27, 26, 25, 24>>[(t % 8) + 1]]

\* The annotations that a row of the trace can carry: a label and its first second.
PulseEvents(start, end) ==
  {<<"stable_start", 0>>, <<"recovery", end>>, <<"stable_end", end>>,
   <<"transition_onset", start>>, <<"peak_start", start>>, <<"peak_time", start>>,
   <<"peak_end", end - 1>>, <<"recovery_start", end>>, <<"recovery_complete", end>>}

RampEvents ==
  {<<"stable_start", 0>>, <<"transition_onset", 60>>, <<"peak_start", 240>>,
   <<"peak_time", 240>>, <<"peak_end", 299>>, <<"recovery_start", 300>>,
   <<"recovery", 300>>, <<"recovery_complete", 420>>, <<"stable_end", 420>>}

PeriodicEvents ==
  {<<"stable_start", 0>>, <<"recovery", 660>>, <<"recovery_complete", 660>>,
   <<"stable_end", 660>>}
  \cup {<<label, 60 + 120 * cycle>> : label \in {"transition_onset"}, cycle \in 0..4}
  \cup {<<label, 120 + 120 * cycle>> :
          label \in {"peak_start", "peak_time", "peak_end"}, cycle \in 0..4}
  \cup {<<"recovery_start", 121 + 120 * cycle>> : cycle \in 0..4}
  \cup {<<"cycle_end", 179 + 120 * cycle>> : cycle \in 0..4}

StableNoisyEvents ==
  {<<"stable_start", 0>>, <<"peak_start", 4>>, <<"peak_time", 4>>, <<"peak_end", 4>>,
   <<"stable_end", 180>>}

\* TRACE_DEFS: the samples, the first seconds of treatment and recovery, and the
\* events of each trace, in the order of the suite.
TraceIds == <<"ramp", "spike", "sustained", "periodic", "control">>

TraceDefs ==
  [ramp      |-> [values |-> RampTrace, treatment |-> 60, recovery |-> 300,
                  events |-> RampEvents],
   spike     |-> [values |-> PulseTrace(180, 60..89), treatment |-> 60, recovery |-> 90,
                  events |-> PulseEvents(60, 90)],
   sustained |-> [values |-> PulseTrace(360, 60..239), treatment |-> 60, recovery |-> 240,
                  events |-> PulseEvents(60, 240)],
   periodic  |-> [values |-> PeriodicTrace, treatment |-> 60, recovery |-> 660,
                  events |-> PeriodicEvents],
   control   |-> [values |-> StableNoisyTrace, treatment |-> 60, recovery |-> 180,
                  events |-> StableNoisyEvents]]

ValuesOf(tr) == TraceDefs[tr].values
Duration(values) == Cardinality(DOMAIN values)
LabelsAt(tr, t) == {e[1] : e \in {x \in TraceDefs[tr].events : x[2] = t}}

PhaseAt(tr, t) ==
  IF t < TraceDefs[tr].treatment THEN "warmup"
  ELSE IF t < TraceDefs[tr].recovery THEN "treatment" ELSE "recovery"

OracleReplicas(rate) == RequiredReplicas(CapacityLookup, rate)

\* generate_oracle.py comes to an end: the table holds every sample of the traces.
ASSUME DemandAssumption ==
  \A tr \in DOMAIN TraceDefs : \A t \in DOMAIN ValuesOf(tr) :
    RequiredReplicas(CapacityLookup, ValuesOf(tr)[t] * SafetyFactor) # NoReplicas

\* value_at: the sample of a second, the last one for any second beyond the trace.
ValueAt(values, t) == values[Min({Max({t, 0}), Duration(values) - 1})]

\* The replica boundaries between two consecutive samples, in either direction.
BoundariesCrossed(previous, current) ==
  {b \in {CapacityLookup[i].rps : i \in 1..(Len(CapacityLookup) - 1)} :
     \/ previous <= b /\ b < current
     \/ current <= b /\ b < previous}

-----------------------------------------------------------------------------
(* The windows in which the analysis looks for the effect of an event         *)
(* (build_events of processing/tools/process_step17.py).                      *)

EventStarts(tr) ==
  LET Labelled(label) == {t \in DOMAIN ValuesOf(tr) : label \in LabelsAt(tr, t)}
  IN  IF Labelled("transition_onset") # {} THEN Labelled("transition_onset")
      ELSE Labelled("peak_start")

\* The seeded fault: the window closed by the start of the recovery.
WindowEndAtRecovery(tr, start) ==
  LET next == Min({s \in EventStarts(tr) : s > start} \cup {Duration(ValuesOf(tr))})
      closing == {t \in start..next - 1 :
                    LabelsAt(tr, t) \cap {"cycle_end", "recovery_start", "stable_end"} # {}}
  IN  IF closing = {} THEN next - 1 ELSE Min(closing)

WindowEnd(tr, start) ==
  LET next == Min({s \in EventStarts(tr) : s > start} \cup {Duration(ValuesOf(tr))})
      closing == {t \in start..next - 1 :
                    LabelsAt(tr, t) \cap {"cycle_end", "recovery_complete", "stable_end"} # {}}
  IN  IF closing = {} THEN next - 1 ELSE Min(closing)

EventWindows ==
  [tr \in DOMAIN TraceDefs |-> {<<s, WindowEnd(tr, s)>> : s \in EventStarts(tr)}]

-----------------------------------------------------------------------------
(* One second of the generators and of their validators. *)

MICROS == 1000000
RoundedDiv(a, b) == (2 * a + b) \div (2 * b)

\* request_schedule: the offsets of the requests of one second.
Offsets(sec, count) ==
  [k \in 1..count |-> sec * MICROS + RoundedDiv((2 * k - 1) * MICROS, 2 * count)]

CarryAfter(pending, count) == pending - count * Rps

\* The seeded fault: the target second is one too early.
FutureTooEarly(values, t) == ValueAt(values, t + Horizon - 1)

FutureRate(values, t) == ValueAt(values, t + Horizon)

Complaint(condition, text) == IF condition THEN {text} ELSE {}

\* The complaints of validate_workload_suite.py about the row and the requests
\* just written.
SuiteFailures(values, offsets, due, sent) ==
  Complaint(\E i \in DOMAIN offsets :
              offsets[i] <= (IF i = 1 THEN lastOffset ELSE offsets[i - 1]), "order")
  \cup Complaint(\E i \in DOMAIN offsets :
                   offsets[i] \notin 0..Duration(values) * MICROS - 1, "outside the trace")
  \cup Complaint(due - sent * Rps >= Rps \/ sent * Rps - due >= Rps, "drift")
  \cup Complaint(values[second] <= 0 \/ OracleReplicas(values[second]) = NoReplicas, "range")

\* Its complaints about the row of the suite's own oracle, by a lookup of its own, and,
\* with the last row, about the files of the trace as a whole.
PlainReplicas(rate) ==
  LET covering == {i \in DOMAIN CapacityLookup : rate <= CapacityLookup[i].rps}
  IN  IF covering = {} THEN NoReplicas ELSE CapacityLookup[Min(covering)].replicas

RowFailures(values, rows) ==
  LET row      == Last(rows)
      target   == Len(rows) - 1 + Horizon
      expected == IF target \in DOMAIN values THEN values[target] ELSE values[Duration(values) - 1]
  IN  Complaint(row.issued # Len(rows) - 1, "offsets are not consecutive")
      \cup Complaint(PlainReplicas(values[second]) # OracleReplicas(values[second]),
                     "workload oracle replica mismatch")
      \cup Complaint(row.target - row.issued # Horizon, "horizon mismatch")
      \cup Complaint(row.rate # expected, "future workload mismatch")
      \cup Complaint(PlainReplicas(expected) # OracleReplicas(row.rate),
                     "decision-time oracle mismatch")
      \cup Complaint(second + 1 \notin DOMAIN values
                       /\ (Len(rows) # Duration(values) \/ TraceDefs[trace].events = {}),
                     "row count mismatch or no event annotations")

\* The cases validate_oracle.py asks an engine of its own.
ManualCases ==
  {<<25, 1>>, <<30, 1>>, <<35, 2>>, <<40, 2>>, <<50, 3>>, <<55, 3>>, <<60, 4>>, <<65, 4>>}

ManualFailures ==
  Complaint(\E c \in ManualCases : Engine!RawReplicas(c[1] * Rps) # c[2],
            "manual capacity case failed")

\* The complaints of generate_oracle.py and validate_oracle.py: the engine's count
\* against the suite's, and the command against the study's step restriction.
OracleFailures(future, prior, command) ==
  Complaint(Engine!RawReplicas(future) # OracleReplicas(future), "raw oracle mismatch")
  \cup Complaint(command - prior > 3 \/ prior - command > 1, "step restriction")

\* validate_trace: what the generator itself checks of a finished trace.
TraceFailures(tr) ==
  LET values == ValuesOf(tr)
      counts == {OracleReplicas(values[t]) : t \in DOMAIN values}
  IN  Complaint(\E t \in DOMAIN values : values[t] <= 0, "nonzero_minimum")
      \cup Complaint(NoReplicas \in counts, "within_validated_capacity")
      \cup Complaint(\E label \in {"stable_start", "peak_start", "peak_time", "peak_end",
                                   "stable_end"} :
                       \A e \in TraceDefs[tr].events : e[1] # label, "required_annotations")
      \cup IF tr = "control" THEN Complaint(counts # {1}, "control_stays_one_pod")
          ELSE Complaint(\A t \in DOMAIN values \ {0} :
                           BoundariesCrossed(values[t - 1], values[t]) = {},
                         "crosses_replica_boundary")

\* load_schedule: what the load generator refuses of a schedule.
LoaderFailures(values, offsets, sent) ==
  Complaint(\E i \in DOMAIN offsets :
              offsets[i] < (IF i = 1 THEN Max({lastOffset, 0}) ELSE offsets[i - 1]),
            "request schedule must be nonnegative and ordered")
  \cup Complaint(second + 1 \notin DOMAIN values /\ sent = 0, "request schedule is empty")

\* scripts/validate-example.py, of the controller's decisions on the packaged spike:
\* a decision for every second, the raw replicas of a plain lookup, four transitions.
ExampleFailures(rows, sent) ==
  LET Plain(rate) ==
        LET serving == {CapacityLookup[i].replicas : i \in
                          {i \in DOMAIN CapacityLookup : rate <= CapacityLookup[i].rps}}
        IN  IF serving = {} THEN MaxReplicas ELSE Min(serving)
      Prior(i) == IF i = 1 THEN InitialReplicas ELSE rows[i - 1].command
      moves == {<<rows[i].issued, Prior(i), rows[i].command>> :
                  i \in {i \in DOMAIN rows : rows[i].command # Prior(i)}}
  IN  Complaint(sent # 5550, "packaged request schedule has the wrong row count")
      \cup Complaint(\E i \in DOMAIN rows : rows[i].issued # i - 1,
                     "controller decision ticks are not contiguous")
      \cup Complaint(Len(rows) # 180, "controller decision count is incorrect")
      \cup Complaint(\E i \in DOMAIN rows : Engine!RawReplicas(rows[i].rate) # Plain(rows[i].rate),
                     "controller raw-replica decisions disagree")
      \cup Complaint(moves # {<<54, 1, 4>>, <<113, 4, 3>>, <<114, 3, 2>>, <<115, 2, 1>>},
                     "controller transitions do not match")

\* A row of the oracle timeline: the last sample stands for every later second.
OracleRow(t, future, command) ==
  [issued |-> t, target |-> t + Horizon, rate |-> future, command |-> command]

\* The decisions a timeline file holds: how many, and every change of the raw or the
\* commanded replicas.
Changes(decisions) ==
  [length  |-> Len(decisions),
   changes |-> {<<i, decisions[i]>> :
                  i \in {i \in DOMAIN decisions : i = 1 \/ decisions[i] # decisions[i - 1]}}]

SuiteInit ==
  /\ trace = TraceIds[1] /\ failures = {}
  /\ second = 0 /\ carry = 0 /\ lastOffset = -1 /\ demanded = 0 /\ scheduled = 0
  /\ timeline = << >> /\ written = << >> /\ Engine!RefInit

\* The next second of the trace: its requests, its oracle row, its decision.
Second ==
  LET values  == ValuesOf(trace)
      rate    == values[second]
      count   == (carry + rate + Tolerance) \div Rps
      offsets == Offsets(second, count)
      future  == FutureRate(values, second)
  IN  /\ second \in DOMAIN values
      /\ carry' = CarryAfter(carry + rate, count)
      /\ lastOffset' = IF count = 0 THEN lastOffset ELSE offsets[count]
      /\ demanded' = demanded + rate
      /\ scheduled' = scheduled + count
      /\ Engine!RefDecide(future)
      /\ timeline' = Append(timeline, OracleRow(second, future, commanded'))
      /\ failures' = failures
           \cup SuiteFailures(values, offsets, demanded', scheduled')
           \cup LoaderFailures(values, offsets, scheduled')
           \cup RowFailures(values, timeline')
           \cup OracleFailures(future, commanded, commanded')
           \cup (IF second = 0 THEN ManualFailures ELSE {})
           \cup IF second + 1 \in DOMAIN values THEN {}
                ELSE TraceFailures(trace) \cup IF trace = "spike"
                       THEN ExampleFailures(timeline', scheduled') ELSE {}
      /\ written' = IF second + 1 \in DOMAIN values THEN written
                    ELSE written @@ trace :> Changes(
                      [i \in DOMAIN timeline' |->
                         <<OracleReplicas(timeline'[i].rate), timeline'[i].command>>])
      /\ second' = second + 1
      /\ UNCHANGED trace

\* The variables of a trace, before its first second; the engine is a new one.
Fresh ==
  /\ second' = 0 /\ carry' = 0 /\ lastOffset' = -1 /\ demanded' = 0 /\ scheduled' = 0
  /\ timeline' = << >> /\ boundedHistory' = << >> /\ commanded' = InitialReplicas
  /\ decisionIndex' = 0 /\ refDecision' = Engine!NoDecision
  /\ UNCHANGED <<written, failures>>

NextTrace ==
  /\ second \notin DOMAIN ValuesOf(trace)
  /\ \E i \in 1..(Len(TraceIds) - 1) : trace = TraceIds[i] /\ trace' = TraceIds[i + 1]
  /\ Fresh

\* The suite and the oracle timeline of every trace are on disk.
SuiteWritten == trace = Last(TraceIds) /\ second \notin DOMAIN ValuesOf(trace)

\* The end of the program: only its files remain.
SuiteExits == trace' = TraceIds[1] /\ Fresh

SuiteNext == Second \/ NextTrace
-----------------------------------------------------------------------------
\* What the study's policy has beyond a valid configuration: scale-up is not limited,
\* the stabilization window is longer than the horizon, and the replicas that may be
\* commanded, before the horizon has passed the least of them, hold every sample.
LeadingPolicy ==
  /\ MaxScaleUpStep = 0 /\ Horizon < Engine!WindowSamples
  /\ \A tr \in DOMAIN TraceDefs : \A t \in DOMAIN ValuesOf(tr) :
       /\ OracleReplicas(ValuesOf(tr)[t]) <= MaxReplicas
       /\ t < Horizon => OracleReplicas(ValuesOf(tr)[t]) <= MinReplicas

\* Acting on the oracle is sufficient: every command in force during the horizon
\* before a second covers the demand of that second, so a Pod that takes the
\* whole horizon to become ready is there in time.  A command for a later, lower
\* rate must not release the replicas before the peak has passed.
CommandLeadsDemand ==
  second > 0 =>
    \A i \in Max({1, second - Horizon})..second :
      timeline[i].command >= OracleReplicas(ValuesOf(trace)[second - 1])

\* What the generators write, the independent validators accept: request offsets
\* strictly increase inside the trace, the schedule never drifts by a request
\* from the integral of the demand, every oracle row is the demand a horizon later,
\* also where the trace ends before that, the engine's raw counts are the suite's, and
\* no command moves further than the study allows (validate_workload_suite.py,
\* validate_oracle.py); the generator's own checks of each trace pass, the load
\* generator does not refuse a schedule, and the controller makes of the spike the
\* transitions the packaged example is judged by (validate-example.py).  And what no
\* validator looks at: the windows of the analysis are disjoint and every change of
\* the required replica count falls into exactly one of them, so no effect of an event
\* is counted twice or lost; the control trace has no such change.
SuiteIsSound ==
  LET values  == ValuesOf(trace)
      windows == {w \in EventWindows[trace] : second \in w[1]..w[2]}
      crosses == second > 0 /\ BoundariesCrossed(values[second - 1], values[second]) # {}
  IN  /\ failures = {}
      /\ second \in DOMAIN values =>
           /\ Cardinality(windows) <= 1
           /\ crosses => windows # {} /\ PhaseAt(trace, second) # "warmup" /\ trace # "control"
=============================================================================
