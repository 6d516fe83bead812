------------------------------ MODULE Events --------------------------------
(***************************************************************************)
(* The event table of the processed data (processing/tools/                *)
(* process_step17.py): of every forecast that was run, the oracle's and    *)
(* those of the accepted pairs, each annotated event of the workload with  *)
(* the onset of the demand and the onset the forecast predicted.           *)
(***************************************************************************)
EXTENDS Matching

VARIABLE eventTable   \* the event rows of each run processed so far

\* The runs: the two sides of each accepted pair, then the oracle on each workload.
RunForecasts ==
  [n \in 1..(2 * Len(accepted)) |->
     LET c == accepted[(n + 1) \div 2][2 - (n % 2)]
     IN  [trace |-> c.trace, condition |-> <<c.group, c.side>>, values |-> c.values]]
  \o [n \in 1..(Len(TraceIds) - 1) |->
       [trace |-> TraceIds[n], condition |-> <<"oracle">>,
        values |-> OracleForecasts[TraceIds[n]]]]

\* One event: the demand and the forecast reach a tenth of the rise above the rate
\* before the event.  The search begins with the run for the first event, and after
\* the window of the previous event for every other.
EventRow(tr, f, start) ==
  LET actual   == ValuesOf(tr)
      end      == WindowEnd(tr, start)
      earlier  == {s \in EventStarts(tr) : s < start}
      search   == (IF earlier = {} THEN 0 ELSE WindowEnd(tr, Max(earlier)) + 1)..end
      baseline == actual[Max({0, start - 1})]
      peak     == Max({actual[t] : t \in start..end})
      Reaches(rate) == 10 * rate >= 9 * baseline + peak   \* tenfold, as is threshold
      risen    == {t \in search : Reaches(actual[t])}
      foretold == {t \in search \cap DOMAIN f : Reaches(f[t])}
  IN  [index      |-> Cardinality(earlier) + 1,
       actual     |-> IF risen = {} THEN start ELSE Min(risen),
       predicted  |-> IF foretold = {} THEN {} ELSE {Min(foretold)},
       threshold  |-> 9 * baseline + peak,
       amplitude  |-> {Max({f[t] : t \in search \cap DOMAIN f}) - peak}]

EventsInit == eventTable = << >>

\* process_run of the next run.
ProcessEvents ==
  /\ DatasetWritten /\ Len(eventTable) < Len(RunForecasts)
  /\ LET r == RunForecasts[Len(eventTable) + 1]
     IN  eventTable' = Append(eventTable,
           [trace |-> r.trace, condition |-> r.condition,
            rows |-> {EventRow(r.trace, r.values, s) : s \in EventStarts(r.trace)}])

TimingError(row) == {p - row.actual : p \in row.predicted}

-----------------------------------------------------------------------------
\* An accepted pair is a fair contrast: its two forecasts are equally wrong about
\* the same trace, mean opposite or separate things, and have the preregistered
\* parameters, so nothing but the semantics of the error tells them apart; every
\* group of the study has one, and the validator of the dataset accepts them.  The
\* processed events show the contrast that was designed: no onset for a missed peak
\* and for it alone, no error for the oracle, and at the first event of a shifted
\* forecast exactly its shift.
PairsContrastSemantics ==
  /\ ~impossible /\ objections = {}
  /\ \A i \in DOMAIN eventTable : \A row \in eventTable[i].rows :
       LET condition == eventTable[i].condition
           shift == IF condition[1] \in {"timing_spike", "timing_periodic"}
                    THEN Protocol.preferred[condition[1]].shift ELSE 0
       IN  /\ row.predicted = {} <=> condition = <<"event_presence", "missed">>
           /\ condition = <<"oracle">> => TimingError(row) = {0} /\ row.amplitude = {0}
           /\ shift > 0 /\ row.index = 1 =>
                TimingError(row) = {IF condition[2] = "early" THEN -shift ELSE shift}
  /\ \A i \in DOMAIN accepted :
       LET a == accepted[i][1]
           b == accepted[i][2]
       IN  /\ a.trace = b.trace
           /\ a.accuracy.absolute = b.accuracy.absolute
           /\ a.rootSquares = b.rootSquares
           /\ \/ (a.accuracy.bias = -b.accuracy.bias /\ a.accuracy.bias # 0)
              \/ (a.accuracy.timing = -b.accuracy.timing /\ a.accuracy.timing # 0)
              \/ (a.accuracy.amplitude = -b.accuracy.amplitude /\ a.accuracy.amplitude # 0)
              \/ a.support \cap b.support = {}
           /\ a.parameters = Protocol.preferred[a.group]
           /\ b.parameters = Protocol.preferred[b.group]

\* The predicted onset of an event is a crossing: the forecast for the second before
\* it was below the threshold, or there was none (processing/DATA-DICTIONARY.md:
\* "Actual and predicted onset are the first actual/forecast target-time crossings of
\* this same threshold").
OnsetIsACrossing ==
  \A i \in DOMAIN eventTable : \A row \in eventTable[i].rows : \A p \in row.predicted :
    LET f == RunForecasts[i].values
    IN  p - 1 \in DOMAIN f => 10 * f[p - 1] < row.threshold
=============================================================================
