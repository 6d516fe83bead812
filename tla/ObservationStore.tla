-------------------------- MODULE ObservationStore --------------------------
(***************************************************************************)
(* The controller's store of demand observations                           *)
(* (controller/internal/safety/observations.go).  Submit checks an          *)
(* observation and takes it under the store's mutex; the handler then runs  *)
(* the safety evaluation outside of it and answers, so that observations of *)
(* two clients may be evaluated in either order.                            *)
(***************************************************************************)
EXTENDS Integers, Sequences

CONSTANT RunID   \* the run this controller was started for

VARIABLES
  latestSequence,  \* the last sequence number taken, -1 before the first
  inFlight,        \* observations taken and not yet evaluated
  evaluated        \* history: the observations evaluated

storeVars == <<latestSequence, inFlight, evaluated>>

\* The seeded fault: a window that was taken is taken again.
AcceptsAgain(observation) ==
  observation.run = RunID /\ observation.sequence <= latestSequence + 1

\* Observation.Validate holds for everything a publisher builds; what is left
\* are the run and the position in the sequence.
Accepts(observation) ==
  /\ observation.run = RunID
  /\ observation.sequence = latestSequence + 1

StoreInit == latestSequence = -1 /\ inFlight = {} /\ evaluated = << >>

Submit(observation) ==
  /\ Accepts(observation)
  /\ latestSequence' = observation.sequence
  /\ inFlight' = inFlight \cup {observation}
  /\ UNCHANGED evaluated

\* Status 409: nothing changes.
SubmitError(observation) == ~Accepts(observation) /\ UNCHANGED storeVars

\* The handler's callback, in its turn; whether it fails is for the answer to say.
Evaluate(observation) ==
  /\ observation \in inFlight
  /\ inFlight' = inFlight \ {observation}
  /\ evaluated' = Append(evaluated, observation)
  /\ UNCHANGED latestSequence
=============================================================================
