# A verification project for the ANFA predictive autoscaling experiment

The repository runs an experiment: a Go controller scales a Kubernetes
Deployment from a stored workload forecast, optionally backed by a reactive
safety net; a Python load generator drives the benchmark application and tells
the safety net what it dispatched; campaign scripts run hundreds of such runs;
validators decide which of them count, and an analysis compares them. Around
this are the programs that generate the workloads, the oracle forecasts, the
deliberate forecast errors and the matched pairs, and the readiness trials the
forecast horizon comes from. This directory holds TLA+ modules of these
programs, TLC configurations that check them on small instances, and proofs that
TLAPS checks for every instance.

Paths below are relative to the repository (`src/`).

## 1. Inventory

### 1.1 The parts, their state and what makes them correct

The running system:

| Part | State | Operations | Correct when | Module |
|---|---|---|---|---|
| Policy engine, `controller/internal/policy/policy.go` | history of bounded replica counts, last command, sequence | `Decide`, its error return | commands are legal, cover the stabilization window, are lowered one earned step at a time | `Capacity`, `Policy` |
| Policy engine in Python, `forecasts/oracle/tools/policy.py` | the same | `decide`, `validate` | decides as the Go engine does, and takes every configuration the Go engine takes | `PolicyReference` |
| Policy replays, `Policy.replay` of `forecasts/mutations/tools/mutation_framework.py`, `desired` of `experiments/primary/tools/validate_final_run.py` | a bounded queue, last command | one pass over a forecast | command what the controller commands | `PolicyReplay` |
| Safety engine, `controller/internal/safety/safety.go` | overload run, hold, floor, active | `Evaluate`, its error returns | intervenes after exactly the persistence, keeps the largest requirement, releases after exactly the hold | `Safety`, `SafetyPromise` |
| Safety replay reference, `experiments/safety/tools/safety_reference.py` | the same | `evaluate`, `validate` | returns the records the Go engine returned | `SafetyReference` |
| Arbiter, `controller/internal/arbiter/arbiter.go` | predictive command, safety floor, final command | two updates, their refusal | final is the larger of the two, inside the bounds | `Arbiter` |
| Controller, `controller/internal/controller/controller.go`, `kube/scale.go`, end of `cmd/predictive-autoscaler/main.go` | decision mutex, the record each goroutine fills in, the log, the Deployment | `Tick`, `SafetyTick`, `applyFinalDecision`, `Update`, process end | one writer at a time, in the order of the decisions; a run that ends well is faithfully logged | `Controller`, `ScaleOwnership` |
| Observation store and endpoint, `controller/internal/safety/observations.go` | latest sequence | `Submit`, the handler's answers | every window of this run once, in order | `ObservationStore` |
| Load generator and publisher, `monitoring/src/anfa_observability/loadgen.py`, `safety_observer.py` | thread pool, dispatch counts, the publisher's window | submit, dispatch, note, finalize, post, join, summary | no dispatch lost or counted twice; a run that returns was observed completely | `LoadGenerator` |
| Benchmark application, `app/cmd/benchmark-app/main.go` | readiness, acceptance, the requests in flight, metrics | announce, serve, drain, shut down, scrape | a clean exit leaves no request unanswered; a scrape shows no effect without its cause | `BenchmarkApp` |
| Campaign managers and run scripts, `experiments/*/tools/campaign.py`, `experiments/*/scripts/run-one-*.ps1` | one JSON file: cells, attempts, active attempt, pause; how far each script has got | `pause`, `resume`, `claim`, `start`, `finish` | one active attempt, immutable history, what is recorded as valid was validated | `Campaign` |
| Campaign audits, `finalize_campaign.py`, `attempt_audit` of `analyze_step19_campaign.py` | read the campaign file and the directories | audit | every attempt ever claimed is accounted for, once | `CampaignAudit` |
| Readiness trials, `experiments/readiness-profiling/scripts/step6-cloud-runner.py`, `run-step6-cloud-campaign.ps1` | Deployment and Pods, the runner's and its probe thread's observations, the laptop's progress file | reset, settle, scale, poll, probe, judge, recover; start, fetch, record, resume | a verdict rests on capacity that was there; each cell counts once; every runner ends | `Trial` |

The programs around it:

| Part | Does | Correct when | Module |
|---|---|---|---|
| Suite and oracle, `workloads/tools/`, `forecasts/oracle/tools/` | traces, request schedule, annotations, forecast a horizon ahead, policy commands; two validators | what is written is accepted, no demand is lost, commands lead demand | `Workloads` |
| Mutations, `forecasts/mutations/tools/` | 23 deliberate errors, their metrics and effect on commands | an error is what its label says and acts only within its reach | `Mutations` |
| Matching, `forecasts/matched/tools/` | candidates on a grid; one pair per contrast, equal in accuracy, different in meaning | the pairs contrast semantics only | `Matching` |
| Clock attestations, `anfa_observability/clock.py` | offsets of all sources before and after a run | an accepted correction was still right at the end | `Clock` |
| Evidence, `kubernetes.py`, `normalize.py`, `validate.py`, `validate_final_run.py`, `process_step17.py` | poll, join per second, report, accept, compute metrics | metrics say what happened, up to stated gaps | `Evidence` |
| Event table, `process_step17.py` | actual and predicted onset of each event | an onset is a crossing | `Events` |
| Protocol, `build_step14.py`, `build_step16.py`, `validate_framework.py`, pairing in `process_step17.py` and `analyze_step18.py` | matrix, blocked order, comparators, pairs | like is compared with like | `Protocol` |
| Statistics, `analyze_step18.py`, `analyze_step19_campaign.py`, `analyze_step6.py` | exact paired test, Holm, horizon percentile | tests are exact, the family error is controlled, the horizon covers readiness | `Analysis` |
| Dispatch observer, forecast loader, capacity profiling, reports and figures | - | see section 6 | - |

### 1.2 How they interact

- The **ticker goroutine** of the controller walks the forecast. Each row goes
  to `Policy.Decide`; with the safety net the command is arbitrated under
  `decisionMu`, the Deployment is scaled (GetScale, then UpdateScale on the
  version just read), and a record is written, all before the mutex is released.
- The **handler goroutine** takes an observation `POST`. `Submit` accepts the
  next sequence number of this run; then `SafetyTick` takes `decisionMu`, reads
  the number of Ready replicas (at most three tries), evaluates, arbitrates,
  scales and logs the same way. 202 is the answer of a success, 409 of a refused
  observation, 500 of a failure.
- The **load generator** schedules requests into a thread pool. Each worker
  stamps its dispatch and notes it in the publisher's counts; the publisher
  thread pops the count of a window 150 ms after its end and posts it. The first
  error ends the publisher for good; `join` raises it at the end of the load.
- A **run script** resumes the campaign, claims a cell, starts it, runs load
  generator and controller, validates the evidence, and finishes the attempt as
  valid, or as invalid from its catch block. An **operator** may pause, resume or
  abort. Every command loads one file, changes it and replaces it, without a
  lock.
- The **collector** polls the Deployment while a run goes on. Afterwards the
  sources are joined, the validators replay the run's forecast with `desired`
  and its observations with the Python safety engine, and the processed metrics
  feed the analysis.
- The **readiness campaign** on a laptop starts a runner on the server for each
  trial, waits for it, fetches its files one after the other and writes its
  progress file. A laptop that dies leaves the runner running.
- The **generators** run before any of this, each reading the finished files of
  the one before: suite and oracle, mutations; candidates and pairs; the matrix.

### 1.3 What is hard

Two goroutines over one arbiter, one Deployment and one log; state read before a
lock and used after it; three states (engine, arbiter, Deployment) updated one
after the other with error returns between them; two API calls with conflicts and
lost answers; counters of consecutive windows and trailing windows cut out of a
growing history; the same policy written four times, the same safety engine and
the same statistics twice; workers late against a deadline; a publisher that dies
half way; an earlier attempt of the same run id that still posts; scripts that die
between two commands; campaign files without a lock; a runner that outlives its
laptop; snapshots that are older than they say; off-by-ones at the edges of
horizons, intervals, windows, percentiles and sign vectors. `PROJECT.json` lists
each of these at its line with the properties that cover it.

## 2. The modules

`A <- B` reads "A extends or instantiates B's ..., B is built on A".

    Capacity <- Policy <- PolicyReference <- PolicyReplay   <-+
    Capacity, SafetyPromise <- Safety <- SafetyReference    <-+- Engines <- MCEngines
    Policy, Safety, Arbiter, ScaleOwnership <- Controller <- MCController
    ObservationStore <- LoadGenerator <- MCLoadGenerator
    Campaign <- CampaignAudit <- MCCampaign
    BenchmarkApp <- MCBenchmarkApp
    Trial <- MCTrial
    Capacity <- Workloads <- Mutations <- Matching <- Events <-+
    Clock, Evidence, Protocol, Analysis                      <-+- Offline <- MCOffline

    Policy, Safety, NumberFacts <- DecisionProofs
    Engines, DecisionProofs <- EngineProofs
    Controller, DecisionProofs <- ControllerProofs
    CampaignAudit, NumberFacts <- CampaignProofs
    LoadGenerator, Trial, NumberFacts <- MeasurementProofs
    Offline, NumberFacts <- OfflineProofs
    BenchmarkApp <- BenchmarkAppProofs

- **Capacity**: the capacity table and its two lookups: the smallest listed
  replica count that holds a demand, and the capacity of a Ready count.
- **Policy**: `Decide` and `DecideError`, with the Go code's intermediate steps
  as operators (`RawReplicas`, `Bounded`, `Stabilized`, `Step`). The engine's
  configuration is the module's constants, and `Config.Validate` their
  assumptions. `decision` holds the record `Decide` returned last.
- **PolicyReference**, **PolicyReplay**: the other three implementations, each
  with its own state and written the way that code is written (a lookup with its
  own comparison, None or 0 for "no limit", a bounded queue instead of a history,
  the newest sample instead of the stabilized count). The engines refuse a negative
  rate, the replays do not; the forecast loader keeps these rates out of a run
  (`forecast.go:103`), and `ReplayedNext` feeds the others. One step feeds one rate
  to all of them.
- **Safety**: `Evaluate` and `EvaluateError`. `windows` is a history variable: it
  records what each window was, and is read by no action.
  **SafetyPromise** states on that history, without counters, when an
  intervention stands and how high the floor is.
- **SafetyReference**: the Python engine with its own lookup, fed the same
  observations.
- **Engines**: the policy engines, a second policy engine with both step limits,
  and the safety engines; one of the three runs.
- **Arbiter**: the two updates and their refusal, which `Controller` instantiates.
- **Controller**: `pc` says where each goroutine is, `job` is the record it
  fills in. `TickDecide`, `TickArbitrate` (or `TickDirect` without the safety
  net), then the shared steps `GetScale`, `UpdateScale`, `ScaleCallFails`,
  `UpdateScaleInDoubt`, `WriteRecord`; the handler has `SafetyLock`,
  `ReadyReadRetries`, `ReadyReadGivesUp`, `SafetyDecide`, `SafetyRefuses` before
  them. Steps are cut where the other goroutine, the API server or a failure can
  come in between. `scaleMu` is only ever taken by one caller at a time and is
  not a variable. Status updates of the Deployment by the API server (they move
  the version the scale call is conditional on), the signal and the publisher are
  actions of the environment. `Recorded`, `RecordsInSequence` and
  `ArbitratedWithoutErrors` are what `split_controller_log.py` and
  `validate_safety_run.py` make of the log.
- **ScaleOwnership**: the promise "one controller owns scale writes" as a
  specification: commands take effect one at a time, in the order decided, until
  a scale call fails and the Deployment is in doubt.
- **ObservationStore**: `Submit` and its refusals; an accepted observation is
  evaluated in a step of its own, after the lock is released. **LoadGenerator** extends
  it: main thread, workers, publisher and, outside, the clock and an earlier
  attempt's publisher, which was not stopped. It posts under its own run id, and a
  cell that is tried again has the same one (`run-one-safety-cloud.ps1:30`,
  `safety/tools/campaign.py:16`), so the store may take its windows.
- **Campaign**: the manager's commands as guards and functions on the file
  (`CanClaim`, `Claim`, ...), the scripts that issue them and the operator. A
  command reads the file in one step and saves in another; with `Serial` no other
  command runs in between, which is how the study is operated, and without it
  they overlap. **CampaignAudit**: the two audits, at any moment.
- **BenchmarkApp**: the main goroutine's two selects, drain and shutdown; the
  goroutine of a request, cut at every atomic and every critical section; a
  scrape, which holds the mutex and reads the started requests from an atomic.
- **Trial**: Pods that are created, become ready, are deleted or lost; for each
  trial a runner (`pc`) with a main loop that polls and a probe thread that
  records who answered; the laptop (`station`) with its cell, the files fetched
  and the progress rows. Any call may fail, and the laptop may die at any point
  and be started again.
- **Workloads**, **Mutations**, **Matching**, **Events**: one step is one second
  of a trace, one forecast, one decision of a replay, one group of candidates,
  or one table. Rates are integers in units of 1/72 request per second, in which
  every sample of the six traces is exact.
- **Clock**: sources are asked before and after a run; each has a true skew and
  round trips of different asymmetry; in between one clock may be stepped.
- **Evidence**: a run of a few seconds: the Deployment's Ready count changes
  while polls are stamped, read, delayed or fail; the requests of a schedule cut
  from fractional rates complete in their second, or slow, failed, a time-out
  seconds later, or leave no record, and the other files of the run may be missing.
  Then normalization, where a P99 between a fast and a slow latency may be either,
  both validators, the metrics, and the robustness analysis with its own flags and
  lookup.
- **Protocol**: matrix, order, the two campaigns (in which cells may be given
  up), comparators, processed table and the pairs the analysis forms. A run has the
  side of its pair and the condition of its forecast; `build_step16.py` finds
  comparators by side, `analyze_step18.py` by pair and condition, from a list of its
  own (`SafetyContrasts`). Two pairs may have the same conditions, as the two timing
  pairs have.
- **Analysis**: the paired test by enumeration of sign vectors, in both programs'
  forms, Holm's adjustment, and the nearest-rank percentile of the trials.
- **Offline**: starts one of these programs, and hands finished files on.

An operator whose comment begins "The seeded fault" is used by nothing. It is a
plausible mistake in the definition that follows it, and `PROJECT.json` names the
property that has to fail when it takes that definition's place.

## 3. What TLC checks

State counts are of distinct states.

| Run | States | What it shows |
|---|---|---|
| `engines` | 225,421 | All implementations in lockstep on every input: `EnginesAgree` and `ReplaysAgree` (four policies), `ReplayAgrees` (two safety engines); `CoversRecentDemand`; `EnginesSettle`, a constant demand is met exactly after the decisions the window and the steps need, with and without step limits; `KeepsPromise` (refinement of `SafetyPromise`). |
| `controller` | 187,438 | Both goroutines with every failure: `FloorsAgree`, `LogIsLinear`, `AcceptedRunIsFaithful`, `OwnsScale` (refinement of `ScaleOwnership`), `WritesCoverBothCommands`; and under fairness `RunProceeds`. |
| `controller_alone` | 6,208 | The controller without the safety net, with step limits and a safety factor: `AcceptedRunIsFaithful`. |
| `load_generator` | 1,032,750 | Workers, publisher, store and an earlier attempt that still posts, under the same run id or another: `DispatchesConserved`, `EvaluatesWhatWasPublished`, `AcceptedRunObservesDemand`, `PunctualDispatchIsObserved`, and under fairness `LoadGeneratorEnds`. |
| `campaign` | 511,479 | Two scripts and an operator, one command at a time: `SingleActiveAttempt`, `AcceptedOnEvidence`, `HistoryIsImmutable`, `AuditAccountsForEveryAttempt`. |
| `benchmark_app` | 205,204 | Three requests, scrapes, a signal and a failing listener: `ScrapeIsConsistent`, `CleanExitAnswersAll`. |
| `trial` | 192,183 | Two cells, two runners, one fault: `CountedTrialsAreSound`, `VerdictMeansCapacity`, and under fairness `TrialEnds`. |
| `offline` | 3,013,322 | The study's own inputs for suite, oracle, mutations and matching, small worlds for the rest; thirteen invariants, listed below. |
| `load_generator_windows`, `campaign_overlap`, `trial_resume`, `event_onsets` | - | Counterexamples: section 5. |

The invariants of `offline`:

- `SuiteIsSound`: generators and validators agree, the schedule never drifts by
  a request, and every change of the required replicas lies in exactly one event
  window. `CommandLeadsDemand`: the oracle's command covers every demand of the
  horizon after it.
- `EffectIsLocal`, `OverforecastNeverDeficient`, `LabelsAreTrue`: a mutation
  changes commands only from a horizon before to a window after itself; the
  policy is monotone in the forecast; the metrics have the sign and size the
  label claims, and the validator agrees.
- `PairsContrastSemantics`: accepted pairs have equally large errors on one
  workload, differ as their group demands, and are what the study preregistered;
  the event table shows the contrast they were designed for.
- `CorrectionHeld`: an accepted deduction is right at the end of the run, within
  a bound that names the gates it consists of.
- `MetricsAreTrue` (`MeasuredReadinessIsHonest` and `FlagsHaveCauses`),
  `AnalysesAgree`: rows and delays show true readiness up to the gaps acceptance
  allows; a second that misses the objective is a violation, and a violation has a
  cause and lies in one episode; the two analyses find the same violations, episodes
  and deficit, by intervals and by counters, with two different lookups.
- `ComparesLikeWithLike`: pairs differ in one thing and stand in one block;
  the safety runs the analysis finds by pair and condition are compared with the
  comparators the matrix found by the side of the pair. That the hard-coded list of
  `analyze_step18.py:99` names the conditions of the frozen safety cells is an
  assumption (`ProtocolAssumption`); it does for this study.
- `PairedTestIsExact`, `HolmControlsTheFamily`, `HorizonCoversReadiness`: at most
  k of 2^n sign vectors have a p value up to k/2^n; Holm is the closed test; the
  horizon is the shortest that covers 95 of 100 trials.

### 3.1 Bounds

- **Rates and tables of the engines.** Lookups have three or four points, with a
  gap in the replica counts, so that "the smallest listed count" differs from
  "the next count". Rates are inside a capacity, inside its tolerance, just
  outside it, beyond `MaxReplicas`, and beyond the whole table. A rate and the
  tolerance are integers; the code's doubles are compared in the same way, and
  no property depends on a rounding error of more than the tolerance. The safety
  factor is an integer.
- **Trace lengths.** `MaxDecisions` is 6 where the window has two samples and the
  span of replica counts takes two steps down, or three up: a command can rise,
  be held, be lowered step by step and rise again. `MaxWindows` is 6, where a
  trigger takes two windows and a release three: enough for a hold that is
  restarted by a new need, and for a floor that is raised and then released. In
  the controller, whose question is interleaving, there are two decisions against three
  windows, all of whose orders occur (four decisions in `controller_alone`).
- **Ready counts** include 0, which the table does not list and the engine
  refuses. `ReadyReadMaxAttempts` is 3, as in the code.
- **The safety table** of `controller` requires up to 4 replicas where the
  arbiter allows 3: the two policies are separate files nobody compares, and the
  arbiter refuses what the engine has already made its floor.
- **Load generator.** Two seconds of two ticks, a grace of one tick, three rows of
  which two are due at the same time, two workers, and a clock that runs one
  tick past the last deadline: a dispatch may be punctual, late within the
  grace, late beyond it, and a row may wait for a worker into the next window.
  An earlier publisher starts at any window, under this run's id or another, and
  posts one window after the other.
- **Campaign.** Two cells, two interchangeable scripts (symmetry), at most three
  attempts per cell: enough for an abort, a take-over and a late answer of the
  script believed dead.
- **Benchmark application.** Three interchangeable requests: one that is refused,
  one at work and one being answered, in every combination with the main
  goroutine and a scrape. Nothing else is bounded.
- **Trial.** Cells with targets 2 and 3, two runners, five Pod names (reused when
  nobody remembers them) and one fault of any kind: a lost Pod, a failed call, a
  lost answer, a dead laptop. One fault is what makes two runners overlap or a
  trial be repeated.
- **Suite, oracle, mutations, matching** use the study's configuration: all six
  traces, the catalog of 23 mutations, two catalogs that are refused, the full
  parameter grids. Nothing is reduced except that demand is in units of 1/72
  request per second; the run `event_onsets` has only the preregistered points
  of the grids.
- **Clock.** Three sources, true skews of 0 or 450 ms against a limit of 100 ms,
  round trips of 40, 180 and 600 ms with all their asymmetry on one side, of which
  the last is not trusted: native, corrected and rejected preflights, and a step.
- **Evidence.** Three seconds of run and one before, two Ready counts, three logs
  of commands, and two irregularities (a late, failed or missing poll, a slow,
  failed, lost or late request, a missing file). Rates are in halves of a request:
  one, one and a half and one and a half requests per second, whose schedule has 1, 1
  and 2 requests, so the second second has a fraction that no request is for. A
  request may complete two seconds after its own. `maximum_missing_consecutive_s` is 1,
  the coverage demanded a third and the records 60 %, so that a run with an
  irregularity can be accepted.
- **Protocol.** Two pairs with the same two conditions, in two blocks, two safety
  cells in the first, and one run that is never accepted. **Statistics.** Up to
  four differences from -2 to 2 (all ties and zeros), families of up to four tests
  with p values in tenths below one half, undefined ones among them, and 21
  trials, where the rank of the 95th percentile changes between 20 and 21.

`CHECK_DEADLOCK FALSE` is in every configuration because every model ends: the
trace is over, the process has exited, the campaign is complete, the files are
written.

### 3.2 Fairness

`Controller!FairSpec` is weak fairness of `TickerStep`, `HandlerStep` and
`ProcessExit`: the Go runtime schedules the two goroutines, an API call ends with
an answer or an error, and `Shutdown` has a deadline of three seconds. The second
is an assumption about client-go's transport, since the code sets no timeout of
its own. Nothing is assumed of the signal, the status updates or the publisher.
Weak fairness of `TickerStep` suffices although the ticker waits for a mutex:
`HandlerReturns`, the first half of `RunProceeds`, shows that the handler gives it
back, and no new observation is posted before the last is answered, so the
handler cannot take it for ever.

`LoadGenerator!FairSpec` is weak fairness of the clock, the main thread, the
publisher and each worker: threads are scheduled, and requests and posts have
timeouts. The clock is bounded by `MaxTime`; the last deadline is within it.

`Trial!TrialFairSpec` is weak fairness of each runner's steps and strong fairness
of its `TimeOut`: a runner is a process on the server that nobody kills; a
`kubectl` call ends with an answer or an error (again an assumption: `subprocess.run`
has no timeout here, step6-cloud-runner.py:27; the rollout waits have one); and a
loop whose head comes round again and again (between two polls the head is left)
meets its deadline there. Nothing is assumed of
Pods, which may never become ready, or of the laptop.

`EnginesSettle` is the policy's liveness as a safety property: it names the
number of decisions after which a constant demand is met exactly.

## 4. What TLAPS proves

The theorems hold for every value of the constants that satisfies the named
assumptions of the modules: `ToleranceAssumption`, `PolicyConfigAssumption`,
`PolicyInputAssumption`, `SafetyConfigAssumption`, `SafetyInputAssumption`,
`SafetyEnabledAssumption`, `LimitsAssumption` (the second policy engine of
`Engines`), `RequestsAssumption`, `ScheduleAssumption`, `CellsAssumption`,
`TrialBoundsAssumption`, `CampaignAssumption`, `ClockAssumption`,
`AnalysisAssumption`, `HorizonAssumption`, `RpsAssumption`,
`SuitePolicyAssumption`, `DemandAssumption`, `CatalogAssumption`,
`EvidenceAssumption`, `DemandIsCovered`, `ProtocolAssumption`. They state what
`Config.Validate`, `PolicyConfig.validate` and the loaders demand (an ascending
table, replica bounds in order, windows that are whole numbers of intervals, a
schedule in order), the kinds of the inputs, and of the generators that they come
to an end (every sample of a trace, and the top of the admitted range of a
mutation, is in the table; a catalog names existing traces). `DemandIsCovered`
says that no rate is beyond the table and none lies above a capacity by less than
the slack that only one of the two lookups of `Evidence` has; `ScheduleAssumption`
of `Evidence` that the requests are those `request_schedule` cuts from the rates;
`ProtocolAssumption` that the two sides of a pair have different conditions and
that the contrasts of the analysis are the frozen safety cells. TLC evaluates them
in every run that extends their module. Nothing is assumed of how the policies of
the two engines relate to each other. Two hypotheses are in the theorems instead:
the campaign is proved for `Serial` (one command at a time, without which
`campaign_overlap` is a counterexample), and `CommandsLeadDemand` for
`LeadingPolicy`, which the study's configuration satisfies (`MCPolicyLeads` of
`MCOffline`).

**NumberFacts**: least and greatest elements of sets of numbers, from the
well-foundedness of `<`; everything that says `Min` or `Max` rests on it.

**DecisionProofs** (`Capacity`, `Policy`, `Safety`).
A lookup returns the least listed count that holds the demand (`LookupIsLeast`),
and a demand exceeds the capacity of the Ready count exactly when it requires
more replicas than are Ready (`OverloadIsTooFewReplicas`), which is why an
intervention always asks for more than is Ready.
`PolicyTypeOK` is inductive by itself; `CoversRecentDemand` is inductive relative to
it; `ScaleDownIsEarned` and `HeldByTheWindow` follow from what one step does
(`DecideEffect`, `StabilizedCoversWindow`).
`SettleInvariant` is the argument that the policy settles: when a history ends
with more samples of one count than the window holds, the command is that count,
or what is left to walk has shrunk by a slowest step for each decision since
(`StepSettles`); `PolicySettles` reads it where the whole span is walked.
`SafetyInvariant` is the type invariant with `OverloadMeansTooFewReady`.
`SafetyKeepsPromise` is the refinement of `SafetyPromise`: `PromiseInvariant` says of
the counters what they are of the history of windows (the run of overloads at its
end, the quiet run at its end while an intervention stands, the floor as the
largest requirement that stands), and under it every step keeps the promise.

**EngineProofs** (`PolicyReference`, `PolicyReplay`, `SafetyReference`, `Engines`).
The lockstep invariant says that both engines have the same history, command and
record; a step compares the formulations of the lookup (`SameRaw`), the window, the
limits and the bounds.
For the replays equality is not inductive: `ReplayTracks` says that each queue is the
end of the controller's history, as long as the window, and that the newest
sample decides about a rise just as the stabilized count does holds only because the
command already covers the window, so it is proved together with
`CoversRecentDemand`. On the rates of a forecast the replays look up what the engines
do (`ReplaysLookUpAlike`). The replays that have raised an exception are left out of the
claim. The safety engines are compared case by case of `Evaluate`, counters as well
as records, together with `SafetyInvariant`. `ConfigIsAccepted` and
`PolicyIsAccepted`: what the Go controller starts with, the Python engines accept.
The converse is false: the Python check takes tables that are not strictly
ascending and does not look at the step limits. `EnginesAgreeTogether` puts all
of them side by side as `Engines` runs them, and `EnginesAlwaysSettle` applies
`SettleInvariant` to both policy engines, the one with step limits being an
instance of the same theorems.

**ControllerProofs** (`Controller`, `ScaleOwnership`, `Arbiter`).
A step of the controller is a step of the policy or leaves it alone
(`ControllerRunsPolicy`), and so for the arbiter (`ControllerRunsArbiter`), so
that their invariants carry over; from these `FinalIsMax`.
`ControllerInvariant` adds `ControlOK`: which places have which jobs, that the mutex
is held by exactly the goroutine inside a decision, and what the handler's
request and the publisher's state say about each other. It is inductive.
`OwnershipInvariant` says that a write under way carries the command in force
and that, until a scale call has failed, the Deployment is at the command in
force whenever no write is under way; under it every step is a step or a stutter
of `ScaleOwnership` (`ControllerOwnsScale`). `WritesCoverBothCommands` follows from
the same invariant. `FloorsAgree` is inductive relative to
`ControllerInvariant`: the engine moves its floor and the arbiter in one step, and
an error in between ends the publisher. `LinearInvariant`: while nobody holds
the mutex the last record of an arbitration carries the arbiter's commands, and the
one under way follows it and carries them. `RunInvariant` adds that the
log has every row the ticker is done with and every window answered with 202, each
without fault and in order, that a record under way carries the next number, and
that a failed scale call ends the run or the publisher; with `OwnershipInvariant` gives
`AcceptedRunIsFaithful`.

**BenchmarkAppProofs** (`BenchmarkApp`).
Every counter is the size of a set of requests (`CountersOK`), so that what the
counters say of each other follows from inclusions of these sets. A scrape
reads the started requests first and the others under a mutex that nobody passes
(`ScrapeOK`), which carries the agreement over to what it shows.

**CampaignProofs** (`Campaign`, `CampaignAudit`), under `Serial`.
`CampaignInvariant`: the file is well formed and its valid cells rest on evidence;
at most one command is under way, and what it is about to save keeps the history
of the file; a script with an attempt has one that exists and that no other script
has, and calls it validated or passed only with its evidence or its record. From
it at most one active attempt, no settled attempt ever changed, valid cells only
on validated evidence, and, with the directories of the attempts counted through
bijections, that the audits account for every attempt ever claimed
(`AuditAddsUp`).

**MeasurementProofs** (`LoadGenerator`, `Trial`). `LoadInvariant`: the main thread
joins only when every row is logged; how many windows are published in each state
of the publisher; that no window is finalized before its deadline;
`DispatchesConserved` itself; and of the store that each window is taken once, by
whomever it is posted (`EachOnce`), that an answer of 202 stands for the
publisher's own observation (`AnswersOK`), and that either nobody else's has been
taken and the evaluated windows are the publisher's in their order, or the store
is ahead of the publisher, who will be refused (`InOrder`). The four properties of
the run follow. `TrialInvariant`: a runner has seen nothing before it scales and
only new Pods afterwards; unless somebody interferes, the Deployment is where it
believes it to be; the script waits for a trial of a cell that is not done,
fetches from runners that ended well, and has no open cell behind it. It holds for
any number of cells, runners, Pods and faults, and gives `CountedTrialsAreSound`
and `VerdictMeansCapacity`.

**OfflineProofs** (`Offline` and the programs it starts, one at a time).

- `HorizonIsShortest`: the delays are kept in order, and of n of them the nearest
  rank is the least k with 100k >= 95n.
- `HolmIsTheClosedTest`: for families of any size. A set of tests is
  judged by its first test (`BonferroniOfFirst`), which is among those Holm's
  maximum is taken over, and the set of all tests from the first on reaches it.
- `PairedTestIsExactAlways`: for any number of pairs and any differences. Multiplying
  by a sign vector permutes the sign vectors, so the p value of a flip counts the
  vectors at least as extreme as it (`FlippingTwice`, `ExtremeOfFlip`); of those with at
  most k such the least extreme one bounds them all (`FewAreExtreme`). The masks
  of the second analysis are the sign vectors, each once: a number below 2^n is
  known by its n binary digits, and there are as many of the one as of the other
  (`MasksAreVectors`). Both statistics turn with the differences
  (`StatisticTurns`), and the rank biserial reaches 1 only when every term of its
  sum is as large as the rank (`SumGrows`).
- `AcceptedCorrectionHeld`: by `ClockInvariant` each attestation is one of measurements,
  the last of the clocks as they are then; the bound is a sum of the gates.
- `MutationEffectIsLocal`, `OverforecastIsNeverDeficient`: both replays of one
  mutation, side by side. `QueuesOK`: a sample of the mutated queue is below that of
  the oracle's only where the forecast for its second was (the lookup is monotone
  up to the top of the table, `RequiredGrows`). `ReplaysOK`: a command covers its
  queue, so that the replays' shortcut is one move to the queue's maximum, which is
  monotone in command and queue (`SignsOK`). `EffectOK`: when the queues have been
  equal for j decisions and the commands still differ, both have come down by
  j; after all the replicas above the minimum nothing can be left of a difference.
- `CommandsLeadDemand`: `LeadInvariant` says that the engine's history is the
  bounded count of every second a horizon ahead, and that each row's command
  covers the window that ended with it. The second asked about is inside that window
  for the whole horizon, or before the first decision.
- `SchedulesNeverDrift`: the part of `SuiteIsSound` that does not depend on the
  policy's table, for any table, policy, horizon and unit of rates in which the
  generator's tolerance (1e-9) is less than a request. By `ScheduleInvariant`
  the rates summed and the requests scheduled differ by the fraction carried, which
  stays below one request, every offset lies before the second to come, and the
  timeline has a row for each second; so no schedule is disordered, leaves its
  trace or drifts, and no row of the oracle is of another second.

- `StudyComparesLikeWithLike`: for any number of pairs, references, cells and blocks, and
  whatever is given up. By `ProtocolInvariant` the order lists planned runs, none
  twice and by ascending repetition (`BlockExtends`), so that a repetition is one
  stretch of it (`BlockIsOneStretch`); every safety run of the table has its comparator
  in the matrix. Two runs compared are those of one repetition (`ComparedRuns`);
  n comparisons of n repetitions are all of them (`OneForEach`), so a valid analysis
  is complete, interactions included. A pair and a condition name one side of the pair,
  since its two sides differ in condition, so the runs of a contrast are those of a
  side.
- `ReportedMetricsAreTrue`: by `CollectionInvariant` every snapshot is the Ready
  count of the second it was read in, and what was true in a second stays
  (`TruthIsKept`); by `ReportInvariant` rows and verdicts are those of the collected
  files. No gap of an accepted run is longer than allowed, which bounds how far back the
  snapshot a row carries may lie (`RowsAreRecent`); the delays of raises follow
  (`HonestReadiness`). A flagged second in which everything is fast and
  successful has fewer completions than 99 % of its rate; if the requests of its
  schedule all complete in it, then already the schedule falls short. A second with
  two slow requests of at most 101, or only slow ones, has a slow P99 whatever is
  interpolated. Around a flagged second there is one maximal run of flagged ones
  (`OneEpisode`, `CausedFlags`).

- `BothAnalysesAgree`: the counters of the robustness analysis are followed along the
  seconds beside the episodes that have begun; at each second both have the same
  violations, episodes and sum of shortages. Under `DemandIsCovered` both lookups
  return the same count.

How sums and folds are reasoned about. The library's induction theorems take an
operator as parameter, which no installed prover instantiates. What takes their
place is in `NumberFacts`: every nonempty set of naturals has a least member
(`LeastNat`, from well-foundedness), so a set of counterexamples that contains
neither the first nor a later one is empty, for intervals (`EveryPlace`) and for the
subsets of a finite set (`EverySubset`). The folds of the community modules are
recursive functions on subsets, written with CHOOSE; `FoldExists` gives a function
that satisfies the recursion, so the chosen one does, and `AnyOrder` shows
that a sum may be taken in any order. Powers of two count the subsets of an
interval (`PowersOfTwo`).

The type invariants and the smaller properties (`HeldByTheWindow`,
`ScaleDownIsEarned`, `OverloadMeansTooFewReady`, `FinalIsMax`, `ServedAfterReady`)
are proved and no longer model-checked: the theorems cover them, and the runs are
spent on what is not proved.

What proofs have shown of the model. The reach of a mutation was stated from the
window's number of samples; with a window of none the study's queue still holds one
sample, so the reach is that of the queue (`Replay!MaxLen("mutations")`). The
bound of `CorrectionHeld` rounded the half round trip down and was short by a
millisecond for odd trips. No run had a configuration that shows either.

Only model-checked, and why:

- Liveness (`RunProceeds`, `LoadGeneratorEnds`, `TrialEnds`): liveness under
  fairness and `ENABLED` are beyond the installed prover.
- The rest of `SuiteIsSound` (every change of the required replicas lies in one
  event window, the packaged example is reproduced), `LabelsAreTrue` and
  `PairsContrastSemantics`: about the study's own traces, table, catalog and
  grids, which are data: for another table the programs may rightly complain. TLC
  computes them completely.

No module declares a RECURSIVE operator.

## 5. Where the code and its documents differ

1. **Dispatches are counted by the second they were scheduled in.**
   `experiments/safety/STEP16.md:9`: "the load generator's actual dispatch count
   in each completed one-second window". A late request counts for the window
   of its schedule row, or for none if that window is gone
   (`safety_observer.py:13`; run `load_generator_windows`). What does hold is
   `PunctualDispatchIsObserved` and, for accepted runs,
   `AcceptedRunObservesDemand`.
2. **The campaign manager alone does not enforce one active attempt.**
   `experiments/primary/STEP-15-FRAMEWORK-REPORT.md:16`: "The manager enforces
   one active attempt". Two overlapping commands load the same file and both
   claim (`campaign.py:37`; run `campaign_overlap`). The run `campaign` shows
   that one command at a time is enough.
3. **An interrupted readiness trial may be counted.**
   `experiments/readiness-profiling/tools/build_step6_cloud_report.py:147`:
   "Pilots and interrupted directories are preserved but excluded". On a restart
   the campaign script takes the newest directory of a trial whose
   `trial-summary.json` says valid (`run-step6-cloud-campaign.ps1:60`), also when
   the other evidence was never fetched, and also when the trial is already
   recorded as invalid for that reason (run `trial_resume`). What holds is
   `CountedTrialsAreSound`: its runner did succeed, and the cell counts once.
4. **A predicted onset need not be a crossing.** `processing/DATA-DICTIONARY.md:64`:
   "the first actual/forecast target-time crossings of this same threshold". From
   the second event of the periodic trace on, the search starts where the shifted
   forecast is already above the threshold, and the onset is the first second
   of the search (`process_step17.py:119-122`; run `event_onsets`). The published
   `event-level.csv` has a timing error of -7 s for these events of the late
   condition, whose forecast is 15 s late.
Remarks, without a run:

- **Offered requests.** `processing/DATA-DICTIONARY.md:85` calls `offered_requests` a
  request count, and `monitoring/STEP10.md:101` says "The Step 7 request schedule is
  authoritative for offered workload". `normalize.py:100` falls back to `target_rps`,
  which is a fraction on every second of a ramp, and the completion ratio is taken of
  it: a second of 25.388889 rps whose 25 scheduled requests complete in it, fast and
  successfully, has a ratio of 98.5 % and violates the objective. In
  `data/processed/aligned-timeline.csv`, 897 of the 1,316 violation seconds of
  gradual-ramp and 2,746 of the 3,864 of periodic-triangle are violations by the
  completion ratio alone with no fewer completions than scheduled requests;
  `processing/STEP-17-PROCESSING-REPORT.md:48` names only requests across the end of
  a second. `MetricsAreTrue` names this cause of a violation, and the rates of the
  run `offline` have such a second. For the same reason `workload_fidelity`
  (`validate_final_run.py:58`) compares a sum with itself.
- **Negative rates.** The replays of the study and of the validator do not refuse
  a negative rate as both engines do; `forecast.go:103` refuses the forecast.
- **Two lookups, one slack.** `required` of `process_step17.py:38` has a slack of
  1e-9 and no answer beyond the table, `analyze_step19_campaign.py:42` no slack and
  the last count. They agree on the study's rates (`DemandIsCovered`).

- **Missing observations.** `experiments/safety/README.md:9`: "Missing
  observations are logged without intervention". The store answers every
  sequence number but the next with 409 and no record (`observations.go:32`), and
  a window nobody posts leaves a safety log that ends early. `STEP16.md:40`, that
  missing data invalidates the run, is what happens, through the load generator's
  exit and the validator.
- **Collector errors.** `monitoring/DESIGN.md:31`: "A run is invalid or incomplete
  ... if API/collector errors occur". The completeness report says so, but the
  run script discards the report (`run-one-final-cloud.ps1:199`), and for
  `validate_final_run.py:51` a snapshot that records an error is a covered second.
- **Clock drift.** `monitoring/STEP10.md:449` lists a "postflight drift gate". It
  applies in measured mode only and only in that report; the final runs attest
  `native_sync` (`run-one-final-cloud.ps1:71`).
- **Frozen and performed analysis.** `build_step14.py:229-238` freezes medians, Holm
  over seven tests and the Ready-replica deficit as primary outcome;
  `analyze_step18.py` computes means, Holm within each domain, and its leading
  outcome is the commanded deficit. With five repetitions the least two-sided p
  is 0.0625 (`README.md:158`), as `PairedTestIsExact` has it.
- **Audit.** `finalize_campaign.py:167` writes `completed-runs.csv` also when the
  audit has found errors, and `build_step16.py` does not ask.
- **Thresholds.** `build_step14.py:403` demands a difference below 0.02 where
  the matching accepts 0.02.
- **Two deficits.** A second without a Ready count is no deficit in
  `process_step17.py:127` and a full one in `analyze_step19_campaign.py:44`.
- **Constant bias.** The predicted onset of the persistent positive bias is
  the first second with a forecast, 54 s before the event.
- **Readiness trials.** `STEP6.md:79` asks to mark a trial invalid if the baseline
  is wrong or an unrelated change happens; the runner checks the number of Pods,
  not that they are still the same. A Pod once seen Ready or serving stays so for
  the verdict, which is why `VerdictMeansCapacity` excepts lost Pods. An exception
  after the summary is written leaves a valid summary next to
  `invalid-trial.json`.
- **Capacity report.** `build_step5_cloud_report.py:83` states `pass: True` for the
  single-replica rows, and an absent Prometheus series passes the gates of
  `build_step5_report.py:48`.
- The help text of `benchmark_ready` (`main.go:180`) says "Whether the application
  accepts measured traffic", but it is set before acceptance and withdrawn before
  it. `claim_timeout_minutes` and `pause_only_between_runs` of the execution
  protocol are read by no code, and a run script itself issues `resume`. The
  validator's replay raises on a stabilization of 0, which the controller
  accepts; the replays know no scale-up limit. The deployed policy has neither.

## 6. What is not modelled, and why

- **Time in the controller**: when a tick happens, the lag it logs and the start
  time shared with the handler. No decision depends on them; a late run is
  rejected from its timestamps (`monitoring/DESIGN.md:14`).
- **A second writer of `spec.replicas`.** `Preflight` compares the Deployment
  with the initial count once; the study's cluster has no other writer, and the
  validators look for one in the collected snapshots.
- **JSON, CSV, HTTP framing, log formatting, hashes, charts**; a request or a
  record is what the decisions read of it.
- **The missing-observation case of the Python safety engine**: its only caller
  replays observations that exist. `replay_expected_safety.py` is a dry run in
  which the Ready count is the previous command; nothing is compared with it.
- **Forecast loader and configuration** (`forecast.go`, `config.go`): sequential
  validation; what it guarantees is assumed of the constants. It does not
  multiply by the safety factor, so a rate it admits may fail at run time: this
  is `TickPolicyError` in the run `controller_alone`.
- **Dispatch observer** (`dispatch_observer.py`): used by its own tests only.
  The files of `safety-net/` are copies of those in `experiments/safety/tools/`.
- **Readiness of safety runs** is taken from the controller's own safety log
  (`process_step17.py:95`); `Evidence` models the other runs, whose readiness is
  collected.
- **The packaged example** is validated by a program of its own
  (`validate-example.py`), whose checks of rows and records are `ExampleFailures` of
  `Workloads`. It has no run metadata, clock attestations or Prometheus export, so the
  validators of `Evidence` do not apply to it.
- **The 1e-12 of the paired tests**: statistics are compared exactly, on integers;
  what the tolerance does to sums of doubles is not modelled.
- **Bootstrap intervals, rankings, latency percentiles, resource means**: numeric
  summaries without a claim to check. **Capacity profiling** and the **report
  builders**: measurement and layout.
- **The batch loop** around the run scripts, and cluster set-up inside them.

## 7. What is left

1. **Proofs**: the conditions of `LabelsAreTrue` and `PairsContrastSemantics` that
   hold for every trace and grid, apart from the tables of this study.
2. **Campaign around the batch loop** (`run-final-batch-cloud.ps1`): status,
   stop on failure, one more valid cell per iteration.
3. **Start-up of the controller** (`main.go`, `forecast.go`, `config.go`):
   which files are admitted, and that an admitted one satisfies the assumptions
   of the models.
4. **Evidence of safety runs**, with the controller's reads in place of the
   collector's polls.
