---------------------------- MODULE MCController ----------------------------
(* Constants for model checking the controller.                            *)
EXTENDS Controller

MCLookup == <<[replicas |-> 1, rps |-> 10], [replicas |-> 2, rps |-> 20],
              [replicas |-> 3, rps |-> 30]>>

\* A table beyond MaxReplicas: a floor of 4 is legal for the engine only.
MCLongLookup == Append(MCLookup, [replicas |-> 4, rps |-> 40])
=============================================================================
