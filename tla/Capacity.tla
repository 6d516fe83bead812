------------------------------ MODULE Capacity ------------------------------
(***************************************************************************)
(* The validated capacity lookup that the replica policy, the safety net   *)
(* and both Python reference engines read: a table of <replicas, requests  *)
(* per second> points.  Rates are integers in a unit small enough that the *)
(* code's comparison slack of 1e-9 is the integer Tolerance.               *)
(***************************************************************************)
EXTENDS Integers, Sequences, FiniteSetsExt

CONSTANT Tolerance

ASSUME ToleranceAssumption == Tolerance \in Nat

\* "No replica count": the error return of a lookup.
NoReplicas == 0

\* What Config.Validate demands of the table and the replica bounds.
IsCapacityLookup(lookup, min, max) ==
  /\ lookup \in Seq([replicas : Nat \ {0}, rps : Nat])
  /\ lookup # << >>
  /\ \A i, j \in DOMAIN lookup :
       i < j => /\ lookup[i].replicas < lookup[j].replicas
                /\ lookup[i].rps < lookup[j].rps
  /\ lookup[1].replicas <= min
  /\ max <= lookup[Len(lookup)].replicas

\* The points whose capacity holds the demand.
Fitting(lookup, demand) ==
  {i \in DOMAIN lookup : demand <= lookup[i].rps + Tolerance}

\* The first point that holds the demand; an error when none does.
RequiredReplicas(lookup, demand) ==
  IF demand < 0 \/ Fitting(lookup, demand) = {}
  THEN NoReplicas
  ELSE lookup[Min(Fitting(lookup, demand))].replicas

\* Replica counts the table names, and the capacity of one of them.
ListedReplicas(lookup) == {lookup[i].replicas : i \in DOMAIN lookup}

CapacityOf(lookup, replicas) ==
  lookup[CHOOSE i \in DOMAIN lookup : lookup[i].replicas = replicas].rps

Overloaded(lookup, demand, ready) == demand > CapacityOf(lookup, ready) + Tolerance
=============================================================================
