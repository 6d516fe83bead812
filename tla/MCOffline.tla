---------------------------- MODULE MCOffline ------------------------------
(* The study's configuration: the validated capacities, the mutation catalog *)
(* (configuration/mutation-catalog.json), two catalogs that are refused, and *)
(* the matching grids and protocol; and small worlds for the programs that   *)
(* work on runs.                                                             *)
EXTENDS Offline

MCLookup == <<[replicas |-> 1, rps |-> 30 * Rps], [replicas |-> 2, rps |-> 40 * Rps],
              [replicas |-> 3, rps |-> 55 * Rps], [replicas |-> 4, rps |-> 65 * Rps]>>
MCRange == <<0, 65 * Rps>>

\* The study's policy is one that leads the demand.
ASSUME MCPolicyLeads == LeadingPolicy

MCCatalog == <<
  [trace |-> "ramp", label |-> "early_event", type |-> "shift_event",
    start |-> 60, end |-> 419, by |-> -15],
  [trace |-> "ramp", label |-> "late_event", type |-> "shift_event",
    start |-> 60, end |-> 419, by |-> 15],
  [trace |-> "ramp", label |-> "slope_reduction", type |-> "scale",
    start |-> 60, end |-> 239, rps |-> 25 * Rps, percent |-> 60],
  [trace |-> "ramp", label |-> "slope_exaggeration", type |-> "scale",
    start |-> 60, end |-> 239, rps |-> 25 * Rps, percent |-> 110],
  [trace |-> "ramp", label |-> "transition_period_error", type |-> "add_bias",
    start |-> 60, end |-> 179, rps |-> -8 * Rps],
  [trace |-> "spike", label |-> "early_event", type |-> "shift_event",
    start |-> 60, end |-> 89, by |-> -10],
  [trace |-> "spike", label |-> "late_event", type |-> "shift_event",
    start |-> 60, end |-> 89, by |-> 10],
  [trace |-> "spike", label |-> "missed_peak", type |-> "replace_interval",
    start |-> 60, end |-> 89, rps |-> 25 * Rps],
  [trace |-> "spike", label |-> "false_peak", type |-> "replace_interval",
    start |-> 20, end |-> 39, rps |-> 45 * Rps],
  [trace |-> "spike", label |-> "smoothed_peak", type |-> "moving_average",
    start |-> 60, end |-> 89, by |-> 5],
  [trace |-> "spike", label |-> "exaggerated_peak", type |-> "add_bias",
    start |-> 60, end |-> 89, rps |-> 5 * Rps],
  [trace |-> "sustained", label |-> "underprediction", type |-> "scale",
    start |-> 60, end |-> 239, rps |-> 25 * Rps, percent |-> 80],
  [trace |-> "sustained", label |-> "overprediction", type |-> "add_bias",
    start |-> 60, end |-> 239, rps |-> 5 * Rps],
  [trace |-> "sustained", label |-> "persistent_negative_bias", type |-> "add_bias",
    start |-> 0, end |-> 359, rps |-> -5 * Rps],
  [trace |-> "sustained", label |-> "persistent_positive_bias", type |-> "add_bias",
    start |-> 0, end |-> 359, rps |-> 5 * Rps],
  [trace |-> "sustained", label |-> "short_error", type |-> "add_bias",
    start |-> 120, end |-> 139, rps |-> -8 * Rps],
  [trace |-> "sustained", label |-> "shortened_peak", type |-> "shorten_event",
    start |-> 60, end |-> 239, by |-> 30, rps |-> 25 * Rps],
  [trace |-> "sustained", label |-> "extended_peak", type |-> "extend_event",
    start |-> 60, end |-> 239, by |-> 30, rps |-> 60 * Rps],
  [trace |-> "periodic", label |-> "early_event", type |-> "global_shift", by |-> -15],
  [trace |-> "periodic", label |-> "late_event", type |-> "global_shift", by |-> 15],
  [trace |-> "periodic", label |-> "smoothed_peak", type |-> "moving_average",
    start |-> 60, end |-> 659, by |-> 4],
  [trace |-> "control", label |-> "stable_period_error", type |-> "add_bias",
    start |-> 60, end |-> 119, rps |-> 10 * Rps],
  [trace |-> "control", label |-> "false_peak", type |-> "replace_interval",
    start |-> 90, end |-> 109, rps |-> 45 * Rps]>>

\* Two catalogs the framework refuses: a rate out of range, and a repeated entry.
MCSteepCatalog == <<
  [trace |-> "ramp", label |-> "slope_exaggeration", type |-> "scale",
    start |-> 60, end |-> 239, rps |-> 25 * Rps, percent |-> 120]>>

MCCatalogs == {MCCatalog, MCSteepCatalog, <<MCCatalog[8], MCCatalog[8]>>}

MCGrids ==
  [timing_spike |-> [trace |-> "spike",
    start |-> 60, end |-> 89, shifts |-> {5, 10, 15, 20}],
   timing_periodic |-> [trace |-> "periodic", shifts |-> {5, 10, 15, 20, 30}],
   direction_bias |-> [trace |-> "sustained",
    start |-> 6, end |-> 365, magnitudes |-> 2..5],
   duration |-> [trace |-> "sustained", start |-> 60, end |-> 239,
                 durations |-> {10, 20, 30, 45, 60}, baseline |-> 25, peak |-> 60],
   event_presence |-> [trace |-> "spike", start |-> 60, end |-> 89, falseStart |-> 20,
                       durations |-> {20, 30, 40}, peaks |-> {50, 55, 60}],
   location |-> [trace |-> "ramp", starts |-> <<420, 60>>, durations |-> {20, 30, 45, 60},
                 magnitudes |-> {4, 6, 8, 10}],
   shape |-> [trace |-> "periodic", start |-> 60, end |-> 659,
              radii |-> {2, 3, 4, 5, 6, 8, 9, 10, 12}]]

\* The grids reduced to the preregistered points.
MCPreregistered ==
  [MCGrids EXCEPT !.timing_spike.shifts = {10}, !.timing_periodic.shifts = {15},
                  !.direction_bias.magnitudes = {5}, !.duration.durations = {30},
                  !.event_presence.durations = {30}, !.event_presence.peaks = {60},
                  !.location.durations = {60}, !.location.magnitudes = {8},
                  !.shape.radii = {10}]

MCProtocol ==
  [gates |-> [timing_spike |-> 10, timing_periodic |-> 10, direction_bias |-> 3,
              duration |-> 20, event_presence |-> 10, location |-> 0, shape |-> 2],
   preferred |-> [timing_spike |-> [shift |-> 10], timing_periodic |-> [shift |-> 15],
                  direction_bias |-> [magnitude |-> 5], duration |-> [duration |-> 30],
                  event_presence |-> [duration |-> 30, magnitude |-> 35],
                  location |-> [duration |-> 60, magnitude |-> 8],
                  shape |-> [radius |-> 10]]]

\* A controller log of a run of three seconds: a steady, a raised, and a dipping command.
MCCommands == {<<1, 1, 1>>, <<1, 2, 2>>, <<2, 1, 2>>}
\* One request in the first second, and one and a half in the others: the second of them
\* is carried.
MCDemand == <<2, 3, 3>>
MCScheduledIn == <<1, 1, 2>>
MCStudyCapacity == <<[replicas |-> 1, rps |-> 2], [replicas |-> 2, rps |-> 4]>>
MCRoundTrips == {<<20, 20>>, <<180, 0>>, <<0, 600>>}
\* Two pairs whose sides have the same two conditions, as the two timing pairs have.
MCConditionOf == [c \in {"p1", "p2"} \X {"a", "b"} |->
                    IF c[2] = "a" THEN "early_event" ELSE "late_event"]
MCSafetyCells == {<<"p1", "a">>, <<"p2", "b">>}
MCSafetyContrasts == {<<"p1", "early_event">>, <<"p2", "late_event">>}
MCDifferences == -2..2
MCPValues == -1..5
=============================================================================
