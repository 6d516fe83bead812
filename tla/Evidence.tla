------------------------------ MODULE Evidence ------------------------------
(***************************************************************************)
(* The evidence of one run, from its collection to the processed metrics.   *)
(* The Kubernetes collector (monitoring/src/anfa_observability) polls the   *)
(* Deployment while loadgen.py sends its requests; normalize.py joins both   *)
(* with the controller's log, one row per second; validate.py reports on    *)
(* completeness, validate_final_run.py accepts or rejects the run, and      *)
(* process_step17.py turns an accepted run into metrics, as                 *)
(* analyze_step19_campaign.py does with the robustness runs.                *)
(* A latency is slow (above 300 ms) or not; of the metadata, the clock      *)
(* attestations, the events and Prometheus only whether they are there and  *)
(* pass (what the clock attestations check is in Clock).                    *)
(***************************************************************************)
EXTENDS Capacity, SequencesExt

CONSTANTS
  RunSeconds,       \* workload_duration_s
  LeadSeconds,      \* the collector starts before T0
  ReadyLevels,      \* Ready counts the Deployment goes through
  MaxMissing,       \* maximum_missing_consecutive_s
  CoveragePercent,  \* kubernetes_coverage_gte
  Commands,         \* logs of commanded replicas the controller may have written
  PerRequest,       \* one request per second in the unit of rates
  Demand,           \* target_rps of every second
  ScheduledIn,      \* and the requests of its schedule
  StudyCapacity,    \* CAP of both analyses
  LongestRequest,   \* bound: whole seconds a request may take, beyond any timeout
  RecordsPercent,   \* terminal_request_accounting: records per hundred offered
  MaxFaults         \* bound: irregular polls and requests, and missing files of a run

ASSUME EvidenceAssumption ==
  /\ RunSeconds \in Nat \ {0} /\ LeadSeconds \in Nat /\ MaxMissing \in Nat
  /\ CoveragePercent \in 0..100 /\ RecordsPercent \in 0..100
  /\ LongestRequest \in Nat /\ MaxFaults \in Nat
  /\ ReadyLevels \subseteq Nat /\ ReadyLevels # {} /\ Commands \subseteq [1..RunSeconds -> Nat]

\* generate_workload_suite.request_schedule: whole requests, the fraction of a rate
\* carried into the next second.  No rate is above 100 requests per second.
ASSUME ScheduleAssumption ==
  /\ PerRequest \in Nat \ {0} /\ Demand \in [1..RunSeconds -> 1..(100 * PerRequest)]
  /\ ScheduledIn \in [1..RunSeconds -> Nat]
  /\ \A n \in 1..RunSeconds :
       MapThenSumSet(LAMBDA i : ScheduledIn[i], 1..n)
         = MapThenSumSet(LAMBDA i : Demand[i], 1..n) \div PerRequest

\* The suite stays within the table, and no rate of it is closer above a capacity than
\* the slack of the processing's lookup, which the other analysis does not have.
ASSUME DemandIsCovered ==
  /\ StudyCapacity \in Seq([replicas : Nat \ {0}, rps : Nat])
  /\ \A i \in 1..RunSeconds :
       /\ \E p \in DOMAIN StudyCapacity : Demand[i] <= StudyCapacity[p].rps
       /\ \A p \in DOMAIN StudyCapacity :
            Demand[i] <= StudyCapacity[p].rps + Tolerance => Demand[i] <= StudyCapacity[p].rps

VARIABLES
  stage,       \* collecting, served, captured, normalized, accepted, rejected, processed
  now,         \* seconds since the collector's start
  ready,       \* external: Ready count of the Deployment
  truth,       \* history: the Ready count in every past second of the collector
  stamped,     \* when the snapshot under way was stamped, or none is
  snapshots,   \* kubernetes-snapshots.jsonl
  requests,    \* load-generator-requests.jsonl
  decisions,   \* controller.jsonl
  attested,    \* the other files, those that are there and pass
  rows,        \* joined-timeline.csv
  complete,    \* completeness-report.json
  outcome,     \* the run's processed metrics
  disturbed    \* history: irregular polls and requests and missing files so far

evidenceVars == <<stage, now, ready, truth, stamped, snapshots, requests, decisions,
                  attested, rows, complete, outcome, disturbed>>

Missing == -1
Idle == -1
Seconds == 0..(RunSeconds - 1)

\* The request schedule: the second and the number of every request.
ScheduledAt(s) == {s} \X (1..ScheduledIn[s + 1])
Scheduled == UNION {ScheduledAt(s) : s \in Seconds}

\* run-metadata.json, clock-preflight.json, clock-postflight.json,
\* kubernetes-events.json, the Prometheus export, and its samples of every second.
SideFiles == {"metadata", "preflight", "postflight", "events", "export", "samples"}

NoOutcome == [flags |-> {}, episodes |-> {}, delays |-> << >>, deficit |-> 0]

EvidenceInit ==
  /\ stage = "collecting" /\ now = 0
  /\ ready = Min(ReadyLevels) /\ truth = << >>
  /\ stamped = Idle /\ snapshots = << >> /\ requests = {}
  /\ decisions = << >> /\ attested = {} /\ rows = << >> /\ complete = FALSE /\ outcome = NoOutcome
  /\ disturbed = 0

Disturb(n) == disturbed + n <= MaxFaults /\ disturbed' = disturbed + n
-----------------------------------------------------------------------------
(* Collection.  A snapshot is stamped before the API is asked, so what it    *)
(* reads may be younger than its stamp, by as long as the calls take.        *)

\* collect: the next poll is due (sequence * interval), perhaps long since.
Due == stamped = Idle /\ Len(snapshots) <= now

Poll ==
  /\ stage = "collecting" /\ Due
  /\ stamped' = now
  /\ UNCHANGED <<stage, now, ready, truth, snapshots, requests, decisions, attested,
                 rows, complete, outcome, disturbed>>

Snapshot(n) == [at |-> stamped - LeadSeconds, read |-> now - LeadSeconds, ready |-> n]

\* snapshot: the state, or the record of an error without any state.
Read ==
  /\ stage = "collecting" /\ stamped # Idle
  /\ \/ snapshots' = Append(snapshots, Snapshot(ready)) /\ UNCHANGED disturbed
     \/ snapshots' = Append(snapshots, Snapshot(Missing)) /\ Disturb(1)
  /\ stamped' = Idle
  /\ UNCHANGED <<stage, now, ready, truth, requests, decisions, attested, rows, complete, outcome>>

\* The next second: a call under way is slow, or the collector was held up.
SecondPasses ==
  /\ stage = "collecting" /\ now < LeadSeconds + RunSeconds
  /\ now' = now + 1 /\ truth' = Append(truth, ready)
  /\ ready' \in ReadyLevels
  /\ Disturb(IF stamped # Idle \/ Due THEN 1 ELSE 0)
  /\ UNCHANGED <<stage, stamped, snapshots, requests, decisions, attested, rows, complete,
                 outcome>>

\* run_request: a request completes in the second of its schedule, fast and successfully,
\* or slow, failed, or in a later one - a timeout seconds after it was sent.
Took == [later : 0..LongestRequest, slow : BOOLEAN, ok : BOOLEAN]
Punctual == [later |-> 0, slow |-> FALSE, ok |-> TRUE]
Record(q, took) == [id |-> q, completion |-> q[1] + took.later, slow |-> took.slow, ok |-> took.ok]

\* execute, once its last worker is done: few requests take anything but that, or leave
\* no record.
Serve ==
  /\ stage = "collecting" /\ now = LeadSeconds + RunSeconds /\ stamped = Idle
  /\ \E irregular \in {q \in SUBSET Scheduled : Cardinality(q) <= MaxFaults - disturbed} :
     \E lost \in SUBSET irregular : \E took \in [irregular \ lost -> Took] :
       /\ requests' = {Record(q, IF q \in irregular THEN took[q] ELSE Punctual) :
                         q \in Scheduled \ lost}
       /\ Disturb(Cardinality(irregular))
  /\ stage' = "served"
  /\ UNCHANGED <<now, ready, truth, stamped, snapshots, decisions, attested, rows, complete,
                 outcome>>

\* The run is over and the controller's log is fetched: a record per second, or, from
\* a process that stopped, fewer.  Only a changed command calls the API, and the call
\* that failed is the last record.
Capture ==
  /\ stage = "served"
  /\ \E c \in Commands, n \in {RunSeconds - 1, RunSeconds}, fails \in BOOLEAN :
       LET Moves(i) == c[i] # (IF i = 1 THEN 1 ELSE c[i - 1])
           Result(i) == IF ~Moves(i) THEN "not_required"
                        ELSE IF fails /\ i = n THEN "error" ELSE "success"
       IN  /\ fails => Moves(n)
           /\ decisions' = [i \in 1..n |-> [seq |-> i - 1, command |-> c[i], moves |-> Moves(i),
                                            result |-> Result(i)]]
  /\ \E missing \in SUBSET SideFiles :
       attested' = SideFiles \ missing /\ Disturb(Cardinality(missing))
  /\ stage' = "captured"
  /\ UNCHANGED <<now, ready, truth, stamped, snapshots, requests, rows, complete, outcome>>
-----------------------------------------------------------------------------
(* normalize.py *)

\* load_kubernetes: the last snapshot of every second from T0 on.
LastOf(s) == snapshots[Max({i \in DOMAIN snapshots : snapshots[i].at = s})]

Present(s) == \E i \in DOMAIN snapshots : snapshots[i].at = s

\* last_kube: the snapshot the row of second s shows.
Carried(s) ==
  LET seen == {p \in 0..s : Present(p)}
  IN  IF seen = {} THEN Missing ELSE LastOf(Max(seen)).ready

\* aggregate_requests: requests count where they complete, failures included.
CompletedIn(s) == {r \in requests : r.completion = s}

\* percentile(.99): between the latencies at both sides of position 99 % of the way, so
\* slow when the lower of them is, not when the upper is not, and either way otherwise.
P99Above(s) ==
  LET n    == Cardinality(CompletedIn(s))
      fast == Cardinality({r \in CompletedIn(s) : ~r.slow})
  IN  {above \in BOOLEAN :
         /\ n > 0 /\ 99 * (n - 1) >= 100 * fast => above
         /\ n = 0 \/ 99 * (n - 1) <= 100 * (fast - 1) => ~above}

\* A workload has no column of scheduled requests, so its target rate is what is offered.
Row(s, above) ==
  [ready |-> Carried(s), present |-> Present(s), offered |-> Demand[s + 1],
   completed |-> Cardinality(CompletedIn(s)),
   failed |-> Cardinality({r \in CompletedIn(s) : ~r.ok}), slow |-> above]

\* build_timeline: without a decision for every second the columns stay empty.
Normalize ==
  /\ stage = "captured"
  /\ \E above \in {f \in [Seconds -> BOOLEAN] : \A s \in Seconds : f[s] \in P99Above(s)} :
       rows' = [s \in Seconds |-> Row(s, above[s])]
  /\ stage' = "normalized"
  /\ UNCHANGED <<now, ready, truth, stamped, snapshots, requests, decisions, attested, complete,
                 outcome, disturbed>>
-----------------------------------------------------------------------------
(* validate.py and validate_final_run.py *)

Gaps == {s \in Seconds : ~rows[s].present}

\* check_run, of the requests and the decisions; their times of day and the hashes in
\* the records are left out.
LogsAreComplete ==
  /\ requests # {} /\ Cardinality({r.id : r \in requests}) = Cardinality(requests)
  /\ decisions # << >> /\ \A i \in DOMAIN decisions : decisions[i].seq = i - 1
  /\ \A i \in DOMAIN decisions : decisions[i].result # "error"

\* And of the snapshots, the rows and the other files: no collection error and no gap.
\* The postflight, which it asks for after a measured correction, is Clock's.  Nobody
\* reads the verdict.
ReportIsValid ==
  /\ {"metadata", "preflight", "export", "samples"} \subseteq attested
  /\ LogsAreComplete
  /\ snapshots # << >> /\ \A i \in DOMAIN snapshots : snapshots[i].ready # Missing
  /\ DOMAIN rows = Seconds /\ \A s \in Seconds : s + 1 \in DOMAIN decisions
  /\ Gaps = {}

\* The seeded fault: gaps are counted, their lengths are not.
CoveredInTotal == 100 * (RunSeconds - Cardinality(Gaps)) >= CoveragePercent * RunSeconds

\* source_coverage: few gaps, and none of them long.
Covered ==
  /\ 100 * (RunSeconds - Cardinality(Gaps)) >= CoveragePercent * RunSeconds
  /\ ~\E s \in Seconds : s..(s + MaxMissing) \subseteq Gaps

Offered == MapThenSumSet(LAMBDA s : rows[s].offered, Seconds)

\* The gates of validate_final_run, the replay of the policy aside (PolicyReplay).
Acceptable ==
  /\ Len(decisions) = RunSeconds
  /\ \A i \in DOMAIN decisions : decisions[i].seq = i - 1 /\ decisions[i].result # "error"
  /\ Covered
  /\ SideFiles \ {"export"} \subseteq attested
  /\ 100 * PerRequest * Cardinality(requests) >= RecordsPercent * Offered

Validate ==
  /\ stage = "normalized"
  /\ complete' = ReportIsValid
  /\ stage' = IF Acceptable THEN "accepted" ELSE "rejected"
  /\ UNCHANGED <<now, ready, truth, stamped, snapshots, requests, decisions, attested, rows,
                 outcome, disturbed>>
-----------------------------------------------------------------------------
(* process_step17.py *)

\* any_slo_violation: P99 above 300 ms, a failure rate of 1 % or more, or a completion
\* ratio below 99 %, of what is offered.
Violates(row) ==
  \/ row.slow
  \/ row.offered > 0 /\ \/ 100 * (row.failed * PerRequest) >= row.offered
                        \/ 100 * (row.completed * PerRequest) < 99 * row.offered

\* required: the first count whose capacity holds the rate.
Required == [i \in 1..RunSeconds |-> RequiredReplicas(StudyCapacity, Demand[i])]

\* episodes: maximal runs of flagged seconds.
\* The seeded fault: a run that lasts to the end is not closed.
EpisodesWithoutSentinel(flags) ==
  {e \in Seconds \X Seconds : e[1]..e[2] \subseteq flags /\ e[1] <= e[2]
     /\ e[1] - 1 \notin flags /\ e[2] + 1 \in Seconds \ flags}

Episodes(flags) ==
  {e \in Seconds \X Seconds : e[1]..e[2] \subseteq flags /\ e[1] <= e[2]
     /\ e[1] - 1 \notin flags /\ e[2] + 1 \notin flags}

Commanded(s) == decisions[s + 1].command

Raises == {s \in Seconds \ {0} : Commanded(s) > Commanded(s - 1)}

\* The delay of a raise: to the first row, from its own on, that shows as many Ready.
Reached(s) ==
  {t \in s..(RunSeconds - 1) : rows[t].ready # Missing /\ rows[t].ready >= Commanded(s)}

Delays ==
  [s \in {t \in Raises : Reached(t) # {}} |-> Min(Reached(s)) - s]

\* ready_deficient_replica_seconds: what the rows with a Ready count fall short by.
Short(row, needed) == IF row.ready = Missing THEN 0 ELSE Max({needed - row.ready, 0})
ReadyDeficit == MapThenSumSet(LAMBDA s : Short(rows[s], Required[s + 1]), Seconds)

ProcessRun ==
  LET flags == {s \in Seconds : Violates(rows[s])}
  IN  /\ stage = "accepted"
      /\ outcome' = [flags |-> flags, episodes |-> Episodes(flags),
                      delays |-> Delays, deficit |-> ReadyDeficit]
      /\ stage' = "processed"
      /\ UNCHANGED <<now, ready, truth, stamped, snapshots, requests, decisions, attested,
                     rows, complete, disturbed>>

\* The second reading of the same rows, by the robustness analysis
\* (analyze_step19_campaign.py): counters along the timeline instead of intervals.
Flagged(row) ==
  \/ row.slow
  \/ row.offered # 0 /\ \/ 100 * (row.failed * PerRequest) >= row.offered
                        \/ 100 * (row.completed * PerRequest) < 99 * row.offered

\* Its own lookup: a capacity no smaller than the rate, and the last one for what is beyond.
RobustRequired(rate) ==
  LET enough == {p \in DOMAIN StudyCapacity : StudyCapacity[p].rps >= rate}
  IN  IF rate <= 0 THEN 0
      ELSE IF enough = {} THEN StudyCapacity[Len(StudyCapacity)].replicas
      ELSE StudyCapacity[Min(enough)].replicas

Scan(sum, s) ==
  LET row == rows[s]
  IN  [violating |-> sum.violating + (IF Flagged(row) THEN 1 ELSE 0),
       episodes  |-> sum.episodes + (IF Flagged(row) /\ ~sum.on THEN 1 ELSE 0),
       on        |-> Flagged(row),
       deficit   |-> sum.deficit + Short(row, RobustRequired(Demand[s + 1]))]

RobustnessSummary ==
  FoldLeft(Scan, [violating |-> 0, episodes |-> 0, on |-> FALSE, deficit |-> 0],
           [i \in 1..RunSeconds |-> i - 1])

EvidenceNext ==
  \/ Poll \/ Read \/ SecondPasses \/ Serve \/ Capture
  \/ Normalize \/ Validate \/ ProcessRun
-----------------------------------------------------------------------------
Trusted == stage \in {"accepted", "processed"}
TrueReady(s) == IF s + LeadSeconds < Len(truth) THEN truth[s + LeadSeconds + 1] ELSE ready

\* The seconds whose true readiness a row may show: no further back than the gap
\* acceptance allows - not at all in a run reported complete - and no later than the
\* slowest poll took.
Near(s) ==
  LET late == IF snapshots = << >> THEN 0
              ELSE Max({snapshots[i].read - snapshots[i].at : i \in DOMAIN snapshots})
  IN  {TrueReady(t) : t \in (s - (IF complete THEN 0 ELSE MaxMissing))..(s + late)}

\* What an accepted run says about readiness is true, up to the gaps acceptance
\* allows and the time a poll took: a row shows what a poll stamped no more than
\* that gap earlier read - in a run reported complete, one of its own second - and a
\* measured delay of a scale-up ends within them of a second in which the
\* Deployment really had the commanded replicas Ready (monitoring/DESIGN.md: "Raw
\* measurements are never interpolated and presented as observations").
MeasuredReadinessIsHonest ==
  /\ Trusted => \A s \in Seconds : rows[s].ready \in Near(s) \cup {Missing}
  /\ stage = "processed" => \A s \in DOMAIN outcome.delays :
       \E n \in Near(s + outcome.delays[s]) : n >= Commanded(s)

\* What misses the objective in a second: a failure, or a P99 that is slow whatever is
\* interpolated - two slow requests of no more than 101, or all of them.
MissesObjective(s) ==
  LET slow == {r \in CompletedIn(s) : r.slow}
  IN  \/ \E r \in CompletedIn(s) : ~r.ok
      \/ slow # {} /\ slow = CompletedIn(s)
      \/ Cardinality(slow) >= 2 /\ Cardinality(CompletedIn(s)) <= 101

\* A second of the run that misses the objective is always a violation, and every
\* violation lies in exactly one episode and has a cause: a slow or failed request that
\* completes in it, one of its own that does not, or a target rate that the whole requests
\* of its schedule fall short of by more than 1 %.
FlagsHaveCauses ==
  stage = "processed" =>
    /\ \A s \in Seconds : MissesObjective(s) => s \in outcome.flags
    /\ \A s \in outcome.flags :
         /\ Cardinality({e \in outcome.episodes : s \in e[1]..e[2]}) = 1
         /\ \/ \E r \in CompletedIn(s) : r.slow \/ ~r.ok
            \/ \E q \in ScheduledAt(s) : \A r \in CompletedIn(s) : r.id # q
            \/ 100 * (ScheduledIn[s + 1] * PerRequest) < 99 * Demand[s + 1]

\* What the metrics of an accepted run report is what happened in it: the readiness it
\* shows, and every violation and its cause.
MetricsAreTrue == MeasuredReadinessIsHonest /\ FlagsHaveCauses

\* Both analyses of the rows, one with intervals and one with counters, find the same
\* violations, episodes and deficit of Ready replicas, and a deficit is never
\* reported of a Deployment that had what the demand needs.
AnalysesAgree ==
  stage = "processed" =>
    /\ RobustnessSummary.violating = Cardinality(outcome.flags)
    /\ RobustnessSummary.episodes = Cardinality(outcome.episodes)
    /\ outcome.deficit = RobustnessSummary.deficit
    /\ outcome.deficit > 0 => \E s \in Seconds : \E n \in Near(s) : n < Required[s + 1]
=============================================================================
