------------------------------ MODULE Matching ------------------------------
(***************************************************************************)
(* The accuracy-matched forecast pairs (forecasts/matched/tools/           *)
(* matching_framework.py): candidate errors are generated over a parameter *)
(* grid, and of each contrast group the pair is accepted whose errors are  *)
(* equally large and mean different things.  The choice sees the accuracy  *)
(* of a forecast only, never what the policy makes of it.                  *)
(***************************************************************************)
EXTENDS Mutations

CONSTANTS
  Grids,         \* parameter-grids.json
  Protocol       \* matching-protocol.json: minima, gates, preferred parameters

VARIABLES
  candidates,    \* the candidates generated so far, with their metrics
  todo,          \* the groups still to generate, in the order of the grid file
  accepted,      \* the accepted pair of each group decided so far
  impossible,    \* ValueError: a candidate out of range, a group without a pair
  objections     \* the failed checks of validate_dataset.py

matchingVars == <<candidates, todo, accepted, impossible, objections>>

Groups == <<"timing_spike", "timing_periodic", "direction_bias", "duration",
            "event_presence", "location", "shape">>
SortedGroups == <<"direction_bias", "duration", "event_presence", "location", "shape",
                  "timing_periodic", "timing_spike">>

\* The two sides of a group, in alphabetical order.
Sides ==
  [timing_spike    |-> <<"early", "late">>,      timing_periodic |-> <<"early", "late">>,
   direction_bias  |-> <<"negative", "positive">>, duration |-> <<"extended", "shortened">>,
   event_presence  |-> <<"false", "missed">>,    location |-> <<"stable", "transition">>,
   shape           |-> <<"sharpened", "smoothed">>]

Spec_(tr, type, start, end, by, rps) ==
  [trace |-> tr, type |-> type, start |-> start, end |-> end, by |-> by, rps |-> rps]

\* The mirror image of a smoothed forecast around the oracle.
Sharpened(b, smooth) == [t \in DOMAIN b |-> 2 * b[t] - smooth[t]]

\* A candidate: the group and the side, the preregistered parameters, the mutation,
\* and the forecast.
Candidate(group, side, parameters, s, f) ==
  [group |-> group, side |-> side, parameters |-> parameters, spec |-> s, values |-> f]

Generated(group, side, parameters, s) ==
  Candidate(group, side, parameters, s, Mutate(OracleForecasts[s.trace], s))

\* The candidates of a group, one per point of its grid and side.
GridCandidates(group) ==
  LET g == Grids[group]
      tr == g.trace
  IN  CASE group = "timing_spike" ->
             {Generated(group, Sides[group][k], [shift |-> d],
                Spec_(tr, "shift_event", g.start, g.end, IF k = 1 THEN -d ELSE d, 0)) :
                k \in 1..2, d \in g.shifts}
        [] group = "timing_periodic" ->
             {Generated(group, Sides[group][k], [shift |-> d],
                Spec_(tr, "global_shift", 0, 0, IF k = 1 THEN -d ELSE d, 0)) :
                k \in 1..2, d \in g.shifts}
        [] group = "direction_bias" ->
             {Generated(group, Sides[group][k], [magnitude |-> r],
                Spec_(tr, "add_bias", g.start, g.end, 0, IF k = 1 THEN -r * Rps ELSE r * Rps)) :
                k \in 1..2, r \in g.magnitudes}
        [] group = "duration" ->
             {Generated(group, Sides[group][k], [duration |-> d],
                IF k = 1 THEN Spec_(tr, "extend_event", g.start, g.end, d, g.peak * Rps)
                ELSE Spec_(tr, "shorten_event", g.start, g.end, d, g.baseline * Rps)) :
                k \in 1..2, d \in g.durations}
        [] group = "event_presence" ->
             {Generated(group, "missed",
                [duration |-> g.end - g.start + 1, magnitude |-> 35],
                Spec_(tr, "replace_interval", g.start, g.end, 0, 25 * Rps))}
             \cup {Generated(group, "false", [duration |-> d, magnitude |-> r - 25],
                     Spec_(tr, "replace_interval", g.falseStart, g.falseStart + d - 1, 0,
                           r * Rps)) : d \in g.durations, r \in g.peaks}
        [] group = "location" ->
             {Generated(group, Sides[group][k], [duration |-> d, magnitude |-> r],
                Spec_(tr, "add_bias", g.starts[k], g.starts[k] + d - 1, 0, r * Rps)) :
                k \in 1..2, d \in g.durations, r \in g.magnitudes}
        [] group = "shape" ->
             LET Smooth(r) == Generated(group, "smoothed", [radius |-> r],
                   Spec_(tr, "moving_average", g.start, g.end, r, 0))
                 Sharp(r) == Candidate(group, "sharpened", [radius |-> r], Smooth(r).spec,
                   Sharpened(OracleForecasts[tr], Smooth(r).values))
             IN  UNION {{Smooth(r), Sharp(r)} :
                          r \in {r \in g.radii : ~OutOfRange(Sharp(r).values)}}

-----------------------------------------------------------------------------
(* metric: as in Mutations, with the squared error. *)

IntegerRoot(n) == CHOOSE r \in 0..46340 : r * r <= n /\ (r = 46340 \/ n < (r + 1) * (r + 1))

RootSquares(b, f) == IntegerRoot(Total([t \in DOMAIN b |-> (f[t] - b[t]) * (f[t] - b[t])]))

Measured(c) ==
  LET b == OracleForecasts[c.spec.trace]
  IN  [group |-> c.group, side |-> c.side, parameters |-> c.parameters,
       trace |-> c.spec.trace, seconds |-> Cardinality(DOMAIN b),
       support |-> Support(c.spec) \cap DOMAIN b, values |-> c.values,
       accuracy |-> Accuracy(b, c.values),
       rootSquares |-> RootSquares(b, c.values)]

\* rel_diff, 2 |a - b| / (a + b), is at most so many thousandths.
DiffersAtMost(a, b, permille) == 2000 * Abs(a - b) <= permille * (a + b)

\* rel_diff of two errors within the tolerances, in parts per hundred thousand.
RelDiff(a, b) == IF a + b = 0 THEN 0 ELSE (200000 * Abs(a - b)) \div (a + b)

\* jaccard(a, b) > maximum, in parts per hundred.
OverlapsMoreThan(a, b, percent) ==
  a \cup b # {} /\ 100 * Cardinality(a \cap b) > percent * Cardinality(a \cup b)

\* Two errors of opposite sign, neither of them small.
Opposite(x, y, minimum) ==
  /\ (x > 0 /\ y < 0) \/ (x < 0 /\ y > 0)
  /\ Min({Abs(x), Abs(y)}) >= minimum

\* semantic_check: the gate of each group.
MeansDifferently(a, b) ==
  LET gate == Protocol.gates[a.group]
  IN  CASE a.group \in {"timing_spike", "timing_periodic"} ->
             Opposite(a.accuracy.timing, b.accuracy.timing, gate)
        [] a.group = "direction_bias" ->
             Opposite(a.accuracy.bias, b.accuracy.bias, gate * Rps * a.seconds)
        [] a.group = "duration" ->
             Opposite(a.accuracy.duration, b.accuracy.duration, gate)
        [] a.group \in {"event_presence", "location"} ->
             ~OverlapsMoreThan(a.support, b.support, gate)
        [] a.group = "shape" ->
             /\ {a.side, b.side} = {"smoothed", "sharpened"}
             /\ Min({a.parameters.radius, b.parameters.radius}) >= gate

WithinTolerances(a, b) ==
  /\ DiffersAtMost(a.accuracy.absolute, b.accuracy.absolute, 20)
  /\ DiffersAtMost(a.rootSquares, b.rootSquares, 30)

\* The same trace, no error below the minimum of 0.2 RPS, and mean absolute and
\* root mean square errors within 2 and 3 per cent.
EquallyWrong(a, b) ==
  /\ a.trace = b.trace
  /\ Min({a.accuracy.absolute, b.accuracy.absolute}) * 5 >= Rps * a.seconds
  /\ Min({a.rootSquares, b.rootSquares}) * 5 >= Rps * IntegerRoot(a.seconds)
  /\ WithinTolerances(a, b)

Eligible(a, b) == EquallyWrong(a, b) /\ MeansDifferently(a, b)

\* Selection loss, 2 and 3 per cent weighing the same.
Loss(a, b) == 3 * RelDiff(a.accuracy.absolute, b.accuracy.absolute)
                + 2 * RelDiff(a.rootSquares, b.rootSquares)

\* The seeded fault: the preregistered parameters do not break ties.
NoDistance(a, b) == 0

\* Distance of both candidates to the preregistered parameters.
Distance(a, b) ==
  LET wanted == Protocol.preferred[a.group]
  IN  MapThenSumSet(LAMBDA p : Abs(a.parameters[p] - wanted[p])
                                + Abs(b.parameters[p] - wanted[p]), DOMAIN wanted)

Better(p, q) ==
  \/ Loss(p[1], p[2]) < Loss(q[1], q[2])
  \/ Loss(p[1], p[2]) = Loss(q[1], q[2]) /\ Distance(p[1], p[2]) < Distance(q[1], q[2])

-----------------------------------------------------------------------------
\* The complaints of validate_dataset.py about the accepted pairs: their number and
\* their groups, tolerances and gates, a candidate used twice, a field of the policy's
\* outcome in the selector's table, the contract of the forecasts, and accuracies that
\* are not those of the stored values.
DatasetComplaints(pairs) ==
  LET members == {pairs[i][k] : i \in DOMAIN pairs, k \in 1..2}
      ids == {<<c.group, c.side, c.parameters>> : c \in members}
      Some(Wrong(_, _)) == \E i \in DOMAIN pairs : Wrong(pairs[i][1], pairs[i][2])
  IN  Complaint(Len(pairs) # 7 \/ Cardinality({c.group : c \in members}) # 7,
                "seven_contrast_groups")
      \cup Complaint(Some(LAMBDA a, b : a.trace # b.trace), "same_workload_within_pairs")
      \cup Complaint(Some(LAMBDA a, b : ~WithinTolerances(a, b)),
                     "all_matching_tolerances")
      \cup Complaint(Some(LAMBDA a, b : ~MeansDifferently(a, b)), "semantic_gates_pass")
      \cup Complaint(Cardinality(ids) # 2 * Len(pairs), "no_primary_candidate_reuse")
      \cup Complaint(\E c \in candidates : DOMAIN c \cap {"disagreement", "excess", "deficient"}
                                             # {}, "selector_table_excludes_operational_fields")
      \cup Complaint(\E c \in members :
                       DOMAIN c.values # {i + Horizon : i \in 0..Duration(c.values) - 1},
                     "accepted_forecast_contract")
      \cup Complaint(\E c \in members :
                       LET b == OracleForecasts[c.trace]
                       IN  \/ Total([t \in DOMAIN b |-> Abs(c.values[t] - b[t])])
                                # c.accuracy.absolute
                           \/ RootSquares(b, c.values) # c.rootSquares,
                     "accuracy_metrics_independently_recomputed")

MatchingInit ==
  /\ candidates = {} /\ todo = Groups /\ accepted = << >>
  /\ impossible = FALSE /\ objections = {}

\* generate_candidates: the grid of one group after the other.  A mutation out of
\* range is an error of the framework, not a candidate to skip.
GenerateCandidates ==
  LET grid == GridCandidates(Head(todo))
  IN  /\ todo # << >> /\ ~impossible
      /\ IF \E c \in grid : OutOfRange(c.values)
         THEN impossible' = TRUE /\ UNCHANGED <<candidates, todo>>
         ELSE /\ candidates' = candidates \cup {Measured(c) : c \in grid}
              /\ todo' = Tail(todo) /\ UNCHANGED impossible
      /\ UNCHANGED <<accepted, objections>>

\* match: the best eligible pair of the next group; ties beyond loss and distance,
\* which the code breaks by the text of the parameters, are left open.
AcceptPair ==
  LET group == SortedGroups[Len(accepted) + 1]
      side(k) == {c \in candidates : c.group = group /\ c.side = Sides[group][k]}
      eligible == {p \in side(1) \X side(2) : Eligible(p[1], p[2])}
  IN  /\ todo = << >> /\ Len(accepted) < Len(SortedGroups) /\ ~impossible
      /\ IF eligible = {}
         THEN impossible' = TRUE /\ UNCHANGED <<accepted, objections>>
         ELSE /\ \E p \in eligible : /\ \A q \in eligible : ~Better(q, p)
                                     /\ accepted' = Append(accepted, p)
              /\ objections' = IF Len(accepted') = Len(SortedGroups)
                               THEN DatasetComplaints(accepted') ELSE {}
              /\ UNCHANGED impossible
      /\ UNCHANGED <<candidates, todo>>

MatchingNext == GenerateCandidates \/ AcceptPair

\* Every group has been decided.
DatasetWritten == Len(accepted) = Len(SortedGroups)
=============================================================================
