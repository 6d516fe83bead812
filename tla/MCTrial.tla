------------------------------ MODULE MCTrial ------------------------------
(* Constants for model checking the readiness trials.                      *)
EXTENDS Trial

MCCells == <<2, 3>>
=============================================================================
