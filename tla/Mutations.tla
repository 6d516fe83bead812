----------------------------- MODULE Mutations -----------------------------
(***************************************************************************)
(* The deliberate forecast errors of the study (forecasts/mutations/tools/ *)
(* mutation_framework.py): each entry of a catalog changes the six-second- *)
(* ahead oracle forecast of one trace inside a declared interval, and the  *)
(* policy is replayed on both forecasts, decision by decision, to measure  *)
(* what the error would do.                                                *)
(***************************************************************************)
EXTENDS Workloads

CONSTANTS
  Catalogs,           \* the catalog files: sequences of mutations
  ValidRange          \* validated_rps_range: <<lowest, highest>> rate

\* A rate that is not refused can be served, and an oracle forecast exists for every
\* trace that a catalog names.
ASSUME CatalogAssumption ==
  /\ ValidRange \in Nat \X Int
  /\ RequiredReplicas(CapacityLookup, ValidRange[2] * SafetyFactor) # NoReplicas
  /\ \A file \in Catalogs : \A i \in DOMAIN file : file[i].trace \in DOMAIN TraceDefs

VARIABLES
  catalog,            \* the mutations, in the order of the catalog file
  entry,              \* the catalog entry being generated, Len + 1 at the end
  base, forecast,     \* the oracle forecast and the mutated one, by target second
  changed,            \* the target seconds at which they differ
  queues, commands,   \* the policy replay of either: its queue, its commands
  metrics,            \* one row per generated mutation
  complaints,         \* the failed checks of validate_mutations.py
  aborted             \* a ValueError ended the generation

mutationVars ==
  <<catalog, entry, base, forecast, changed, queues, commands, metrics, complaints, aborted>>

Replay == INSTANCE PolicyReplay WITH
  history <- boundedHistory, command <- commanded, seq <- decisionIndex,
  decision <- refDecision, Workloads <- {}, MaxDecisions <- 0,
  samples <- queues, replayed <- commands, raised <- {}, row <- refDecision

Forecasts == {"oracle", "mutated"}

\* oracle_forecast: the target of every decision and the rate it will see.
OracleForecasts == [tr \in DOMAIN TraceDefs |->
  [t \in Horizon..Horizon + Duration(ValuesOf(tr)) - 1 |-> ValueAt(ValuesOf(tr), t)]]

Lowest(f)  == Min({f[t] : t \in DOMAIN f})
Highest(f) == Max({f[t] : t \in DOMAIN f})

\* The first or last forecast for a second before or beyond the targets.
Clamped(f, t) == f[Min({Max({t, Horizon}), Horizon + Duration(f) - 1})]

\* The seconds a mutation declares that it may change.
Support(s) ==
  CASE s.type \in {"add_bias", "scale", "replace_interval"} -> s.start..s.end
    [] s.type = "shorten_event"  -> s.end - s.by + 1..s.end
    [] s.type = "extend_event"   -> s.end + 1..s.end + s.by
    [] s.type = "shift_event"    -> s.start + Min({0, s.by})..s.end + Max({0, s.by})
    [] s.type = "global_shift"   -> Horizon..Horizon + Duration(ValuesOf(s.trace)) - 1
    [] s.type = "moving_average" -> s.start - s.by..s.end + s.by

Window(f, t, radius) == [k \in 1..(2 * radius + 1) |-> Clamped(f, t - radius + k - 1)]

\* The seeded fault: a shift in the wrong direction.
ChangedShiftedBack(f, s, t, baseline) ==
  CASE s.type = "shift_event" ->
         IF t + s.by \in (s.start..s.end) \cap DOMAIN f THEN f[t + s.by] ELSE baseline
    [] OTHER -> f[t]

\* The rate a mutation puts at a second of its support ("scale" is both
\* amplitude_scale and slope_scale; rates are rounded to the unit).
Changed(f, s, t, baseline) ==
  CASE s.type = "add_bias" -> f[t] + s.rps
    [] s.type = "scale" ->
         s.rps + RoundedDiv((f[t] - s.rps) * s.percent, 100)
    [] s.type \in {"replace_interval", "shorten_event", "extend_event"} -> s.rps
    [] s.type = "shift_event" ->
         IF t - s.by \in (s.start..s.end) \cap DOMAIN f THEN f[t - s.by] ELSE baseline
    [] s.type = "global_shift" -> Clamped(f, t - s.by)
    [] s.type = "moving_average" ->
         RoundedDiv(FoldLeft(LAMBDA a, b : a + b, 0, Window(f, t, s.by)), 2 * s.by + 1)

\* intervals: the maximal runs of a set of seconds.
Intervals(S) ==
  {i \in {s \in S : s - 1 \notin S} \X {s \in S : s + 1 \notin S} :
     i[1] <= i[2] /\ i[1]..i[2] \subseteq S}

Mutate(f, s) ==
  LET baseline == Lowest(f)
  IN  [t \in DOMAIN f |-> IF t \in Support(s) THEN Changed(f, s, t, baseline) ELSE f[t]]

OutOfRange(f) == \E t \in DOMAIN f : f[t] \notin ValidRange[1]..ValidRange[2]

-----------------------------------------------------------------------------
(* metrics: rates are totals over all decisions, not means. *)

\* The sum of a function over an interval, by halves.
Total(f) ==
  LET part[first \in Nat, n \in Nat] ==
        IF n = 0 THEN 0 ELSE IF n = 1 THEN f[first]
        ELSE part[first, n \div 2] + part[first + (n \div 2), n - (n \div 2)]
  IN  IF DOMAIN f = {} THEN 0 ELSE part[Min(DOMAIN f), Cardinality(DOMAIN f)]

Abs(x) == IF x < 0 THEN -x ELSE x

FirstPeak(f) == LET peak == Highest(f) IN Min({t \in DOMAIN f : f[t] = peak})

SecondsAbove(f, twiceThreshold) == Cardinality({t \in DOMAIN f : 2 * f[t] > twiceThreshold})

Accuracy(b, f) ==
  [absolute  |-> Total([t \in DOMAIN b |-> Abs(f[t] - b[t])]),
   bias      |-> Total([t \in DOMAIN b |-> f[t] - b[t]]),
   timing    |-> FirstPeak(f) - FirstPeak(b),
   amplitude |-> Highest(f) - Highest(b),
   duration  |-> SecondsAbove(f, Lowest(b) + Highest(b))
                   - SecondsAbove(b, Lowest(b) + Highest(b))]

ReplicaEffect(oracle, mutated) ==
  [disagreement |-> Cardinality({i \in DOMAIN oracle : oracle[i] # mutated[i]}),
   excess       |-> Total([i \in DOMAIN oracle |-> Max({mutated[i] - oracle[i], 0})]),
   deficient    |-> Total([i \in DOMAIN oracle |-> Max({oracle[i] - mutated[i], 0})])]

-----------------------------------------------------------------------------
NoForecast == [t \in {} |-> 0]
NothingReplayed == [f \in Forecasts |-> << >>]

\* The identity of a mutation: one error of a kind for each trace.
Id(s) == <<s.trace, s.label>>

RequiredLabels ==
  {"early_event", "late_event", "missed_peak", "false_peak", "underprediction",
   "overprediction", "persistent_negative_bias", "persistent_positive_bias", "short_error",
   "shortened_peak", "extended_peak", "smoothed_peak", "exaggerated_peak",
   "slope_reduction", "slope_exaggeration", "stable_period_error", "transition_period_error"}

\* The complaints of validate_mutations.py about the files of one mutation: the
\* recorded intervals, the contract and the range of the forecast, and, for the first
\* mutation of a trace, the oracle's replay against the timelines of the oracle step.
MutationComplaints(s, first) ==
  Complaint(\E t \in DOMAIN base \ Support(s) : base[t] # forecast[t],
            "outside_support_unchanged")
  \cup Complaint(Intervals(Support(s) \cap DOMAIN base) = {} \/ Intervals(changed) = {},
                 "affected_intervals_saved")
  \cup Complaint(DOMAIN forecast # {i + Horizon : i \in 0..Duration(forecast) - 1},
                 "forecast_contract")
  \cup Complaint(\E t \in DOMAIN forecast : forecast[t] \notin 0..65 * Rps,
                 "forecast_values_in_validated_range")
  \cup Complaint(first /\ written[s.trace] # Changes(
                   [i \in DOMAIN commands["oracle"] |->
                      <<Replay!RawReplicas(base[Horizon + i - 1]), commands["oracle"][i]>>]),
                 "oracle_policy_exact_step8")

\* Its complaints about the catalog and the metrics table.
CatalogComplaints(table) ==
  LET ids == {Id(catalog[i]) : i \in DOMAIN catalog}
  IN  Complaint(~(RequiredLabels \subseteq {id[2] : id \in ids}), "required_semantics_present")
      \cup Complaint(Cardinality(ids) # Len(catalog), "mutation_ids_unique")
      \cup Complaint({id[1] : id \in ids} # ToSet(TraceIds), "all_workloads_represented")
      \cup Complaint(Len(table) # Len(catalog), "metric_rows_complete")

MutationInit ==
  /\ catalog = << >> /\ entry = 0 /\ complaints = {} /\ base = NoForecast /\ forecast = NoForecast /\ changed = {}
  /\ queues = NothingReplayed /\ commands = NothingReplayed
  /\ metrics = << >> /\ aborted = FALSE

Generating == entry \in DOMAIN catalog /\ ~aborted

ReadCatalog ==
  /\ entry = 0 /\ catalog' \in Catalogs /\ entry' = 1
  /\ UNCHANGED <<base, forecast, changed, queues, commands, metrics, complaints, aborted>>

Duplicate == \E i \in 1..(entry - 1) : Id(catalog[i]) = Id(catalog[entry])

\* generate_one up to the replays: the mutated forecast and the refusals.
MutateForecast ==
  LET s == catalog[entry]
      b == OracleForecasts[s.trace]
      f == Mutate(b, s)
      differing == {t \in DOMAIN b : b[t] # f[t]}
  IN  /\ Generating /\ base = NoForecast
      /\ IF Duplicate \/ OutOfRange(f) \/ differing = {} \/ ~(differing \subseteq Support(s))
         THEN aborted' = TRUE /\ UNCHANGED <<base, forecast, changed>>
         ELSE base' = b /\ forecast' = f /\ changed' = differing /\ UNCHANGED aborted
      /\ UNCHANGED <<catalog, entry, queues, commands, metrics, complaints>>

\* The command the replay of a forecast decided last.
Prior(cs, f) == IF cs[f] = << >> THEN InitialReplicas ELSE cs[f][Len(cs[f])]

\* The seeded fault: the mutated rates are read one position too far.
RateOneTooFar(f, target) == IF f = "oracle" THEN base[target] ELSE Clamped(forecast, target + 1)

RateOf(f, target) == IF f = "oracle" THEN base[target] ELSE forecast[target]

\* policy.replay of both forecasts: the next decision of each.
ReplayDecision ==
  LET target  == Horizon + Len(commands["oracle"])
      bounded == [f \in Forecasts |-> Replay!RefBounded(Replay!RawReplicas(RateOf(f, target)))]
  IN  /\ Generating /\ target \in DOMAIN base
      /\ queues' = [f \in Forecasts |->
           Replay!Remember(queues[f], bounded[f], Replay!MaxLen("mutations"))]
      /\ commands' = [f \in Forecasts |-> Append(commands[f],
           Replay!ReplayMove(Prior(commands, f), bounded[f], Replay!Stable(queues'[f])))]
      /\ UNCHANGED <<catalog, entry, base, forecast, changed, metrics, complaints, aborted>>

\* The metrics row, and the next entry of the catalog; the validator then reads
\* what was written.
FinishMutation ==
  /\ Generating /\ base # NoForecast
  /\ Len(commands["oracle"]) = Cardinality(DOMAIN base)
  /\ metrics' = Append(metrics,
       [accuracy |-> Accuracy(base, forecast),
        effect   |-> ReplicaEffect(commands["oracle"], commands["mutated"])])
  /\ complaints' = complaints
       \cup MutationComplaints(catalog[entry],
              \A i \in 1..(entry - 1) : catalog[i].trace # catalog[entry].trace)
       \cup IF entry = Len(catalog) THEN CatalogComplaints(metrics') ELSE {}
  /\ entry' = entry + 1
  /\ base' = NoForecast /\ forecast' = NoForecast /\ changed' = {}
  /\ queues' = NothingReplayed /\ commands' = NothingReplayed
  /\ UNCHANGED <<catalog, aborted>>

MutationNext == ReadCatalog \/ MutateForecast \/ ReplayDecision \/ FinishMutation
-----------------------------------------------------------------------------
Decided == Len(commands["oracle"])

\* An error of a forecast has no effect on the policy outside its reach: the two
\* replays command the same before the first changed forecast is issued, and
\* again once the stabilization window has forgotten the last one and a surplus
\* has been taken back step by step.
EffectIsLocal ==
  Decided > 0 /\ commands["oracle"][Decided] # commands["mutated"][Decided] =>
    \E t \in changed :
      Decided - 1 \in (t - Horizon)..(t - Horizon + Replay!MaxLen("mutations")
                                        + MaxReplicas - MinReplicas - 2)

\* The policy is monotone: as long as a forecast has never been below the oracle
\* it commands at least the oracle's replicas, and as long as it has never been
\* above, at most, although scale-up is immediate and scale-down is held (stated
\* of complete replays).
OverforecastNeverDeficient ==
  LET Before(seconds) == {i \in 1..Decided : \A t \in seconds : Horizon + i - 1 < t}
      below == {t \in changed : forecast[t] < base[t]}
      above == changed \ below
      First(S) == IF S = {} THEN {} ELSE {Min(S)}
  IN  Decided > 0 /\ Decided = Cardinality(DOMAIN base) =>
        /\ \A i \in Before(First(below)) : commands["mutated"][i] >= commands["oracle"][i]
        /\ \A i \in Before(First(above)) : commands["mutated"][i] <= commands["oracle"][i]

\* The signs the label of a mutation stands for (the semantics the study names).
MeansWhatItSays(label, a) ==
  CASE label = "early_event" -> a.timing < 0
    [] label = "late_event" -> a.timing > 0
    [] label \in {"underprediction", "persistent_negative_bias", "slope_reduction",
                  "missed_peak", "short_error", "shortened_peak"} -> a.bias < 0
    [] label \in {"overprediction", "persistent_positive_bias", "slope_exaggeration",
                  "false_peak", "extended_peak"} -> a.bias > 0
    [] label = "smoothed_peak" ->
         a.absolute > 0 /\ a.amplitude <= 0 /\ 20 * Abs(a.bias) <= a.absolute
    [] label = "exaggerated_peak" -> a.amplitude > 0 /\ a.timing = 0
    [] OTHER -> a.absolute > 0

\* Every generated mutation has the error its label names, in the metrics the
\* study reports and with the sign convention forecast minus oracle; and what is
\* generated without a refusal, the validator of the step accepts, the oracle's replay
\* being that of the earlier step (validate_mutations.py).
LabelsAreTrue ==
  /\ complaints = {}
  /\ \A i \in DOMAIN metrics : MeansWhatItSays(catalog[i].label, metrics[i].accuracy)
=============================================================================
