-------------------------- MODULE MCLoadGenerator --------------------------
(* Constants for model checking the load generator: two seconds of two      *)
(* ticks, the second one with two requests at the same time.                *)
EXTENDS LoadGenerator

MCSchedule == <<[second |-> 0, at |-> 1], [second |-> 1, at |-> 2], [second |-> 1, at |-> 2]>>
=============================================================================
