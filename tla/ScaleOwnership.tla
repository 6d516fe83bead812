--------------------------- MODULE ScaleOwnership ---------------------------
(***************************************************************************)
(* What "one controller owns scale writes" (STEP16.md, validity boundaries) *)
(* promises about the Deployment, whatever goroutine issues a command:      *)
(* commands take effect one at a time and in the order they were decided.   *)
(* A new command is decided only when the previous one has taken effect, or *)
(* when a scale call has failed and the Deployment is in doubt.             *)
(***************************************************************************)
EXTENDS Integers

CONSTANTS InitialReplicas

VARIABLES
  target,     \* the command decided last
  replicas,   \* the Deployment's spec.replicas
  doubtful    \* a scale call has failed: nothing more is promised

Init == target = InitialReplicas /\ replicas = InitialReplicas /\ doubtful = FALSE

\* Decide the next command.
Command ==
  /\ replicas = target \/ doubtful
  /\ target' \in Nat
  /\ UNCHANGED <<replicas, doubtful>>

\* The command takes effect.
TakeEffect ==
  /\ replicas # target
  /\ replicas' = target
  /\ UNCHANGED <<target, doubtful>>

\* A scale call fails, or an earlier one has: the Deployment may or may not
\* have changed.
Doubt ==
  /\ doubtful' = TRUE
  /\ replicas' \in Nat
  /\ UNCHANGED target

Next == Command \/ TakeEffect \/ Doubt

Spec == Init /\ [][Next]_<<target, replicas, doubtful>>
=============================================================================
