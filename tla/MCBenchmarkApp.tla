--------------------------- MODULE MCBenchmarkApp ---------------------------
(* Symmetry for model checking the application: requests are alike.         *)
EXTENDS BenchmarkApp, TLC

Alike == Permutations(Requests)
=============================================================================
