----------------------------- MODULE MCEngines ------------------------------
(* Constants for model checking the two engines.                           *)
EXTENDS Engines

MCLookup == <<[replicas |-> 1, rps |-> 10], [replicas |-> 2, rps |-> 20],
              [replicas |-> 3, rps |-> 30], [replicas |-> 5, rps |-> 40]>>

\* 11 is inside the tolerance of the first point, 12 is not; 40 needs more than
\* MaxReplicas; 42 exceeds the whole table.
MCWorkloads == {0, 11, 12, 40, 42}

MCSafetyLookup == <<[replicas |-> 1, rps |-> 10], [replicas |-> 2, rps |-> 20],
                    [replicas |-> 3, rps |-> 30]>>
\* 11 is inside the tolerance of the first point, 32 exceeds the table.
MCDemands == {11, 12, 30, 32}

MCLimits == [min |-> 2, max |-> 5, initial |-> 3, factor |-> 2, stabilization |-> 6,
             interval |-> 3, down |-> 2, up |-> 1]

\* Twice 5 and 8 need the minimum, twice 20 the table's last entry; 21 exceeds it.
MCLimitedWorkloads == {5, 8, 11, 20, 21}
=============================================================================
