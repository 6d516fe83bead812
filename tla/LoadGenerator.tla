--------------------------- MODULE LoadGenerator ---------------------------
(***************************************************************************)
(* The load generator (monitoring/src/anfa_observability/loadgen.py) with   *)
(* its safety publisher (safety_observer.py).  The main thread submits      *)
(* scheduled requests to a bounded pool of workers; each worker notes its   *)
(* dispatch in the publisher's counts; the publisher thread finalizes one   *)
(* window after the other, a grace period after the window's end, and posts *)
(* the count to the controller.  It need not be the only client: a cell that *)
(* is tried again keeps its run id, so the publisher of an aborted attempt   *)
(* that is still alive posts under the same one.  Threads may be late at     *)
(* every step, requests slow, answers lost.                                  *)
(***************************************************************************)
EXTENDS ObservationStore, FiniteSetsExt

CONSTANTS
  Schedule,       \* rows [second, at]: source second and scheduled time
  SecondTicks,    \* ticks of the clock per second
  GraceTicks,     \* safety_observation_grace_ms
  MaxWorkers,     \* size of the thread pool
  StrayRuns,      \* run ids under which an earlier load generator may still post
  MaxTime         \* bound: how far the clock runs while a thread is late

\* load_schedule: not empty, in time order; a row lies in its source second.
ASSUME ScheduleAssumption ==
  /\ Schedule \in Seq([second : Nat, at : Nat]) /\ Schedule # << >>
  /\ \A i \in DOMAIN Schedule : Schedule[i].at \div SecondTicks = Schedule[i].second
  /\ \A i, j \in DOMAIN Schedule : i < j => Schedule[i].at <= Schedule[j].at
  /\ SecondTicks \in Nat \ {0} /\ GraceTicks \in Nat /\ MaxWorkers \in Nat \ {0}
  /\ MaxTime \in Nat

VARIABLES
  now,           \* monotonic clock, 0 at T0
  main,          \* submitting, waiting, joining, returned, failed
  submitted,     \* rows handed to the pool
  row,           \* state of each row
  dispatchedIn,  \* the second of the time stamp each worker took
  counts,        \* the publisher's dispatch counts, per source second
  publisher,     \* sleeping, finalized, posting, asked, answered, finished, stopped
  sequence,      \* the window the publisher is at
  count,         \* the count popped and not yet written
  status,        \* the answer to the current post
  published,     \* the counts in the observation file
  records,       \* posts answered with 202
  stray          \* the window an earlier publisher is at, Duration if there is none

threadVars == <<main, submitted, row, dispatchedIn>>
publisherVars == <<publisher, sequence, count, status, published, records>>
vars == <<now, threadVars, counts, publisherVars, stray, storeVars>>

Rows == DOMAIN Schedule
Duration == Max({Schedule[r].second : r \in Rows}) + 1
Windows == 0..(Duration - 1)

ScheduledIn(w) == {r \in Rows : Schedule[r].second = w}
RowsIn(state) == {r \in Rows : row[r] \in state}
Working == RowsIn({"started", "stamped", "requesting"})
Dispatched == RowsIn({"requesting", "logged", "failed"})

Init ==
  /\ now = 0 /\ main = "submitting" /\ submitted = 0
  /\ row = [r \in Rows |-> "queued"]
  /\ dispatchedIn = [r \in Rows |-> 0]
  /\ counts = [w \in Windows |-> 0]
  /\ publisher = "sleeping" /\ sequence = 0 /\ count = 0 /\ status = "none"
  /\ published = << >> /\ records = 0 /\ stray \in 0..Duration
  /\ StoreInit

Move(r, state) == row' = [row EXCEPT ![r] = state]

\* Time passes, whatever the threads are doing.
Tick ==
  /\ now < MaxTime
  /\ now' = now + 1
  /\ UNCHANGED <<threadVars, counts, publisherVars, stray, storeVars>>
-----------------------------------------------------------------------------
(* The main thread (execute).                                              *)

\* The next row is due; it goes to the pool's queue.
SubmitRow ==
  /\ main = "submitting" /\ submitted < Len(Schedule)
  /\ now >= Schedule[submitted + 1].at
  /\ submitted' = submitted + 1
  /\ main' = IF submitted' = Len(Schedule) THEN "waiting" ELSE main
  /\ UNCHANGED <<now, row, dispatchedIn, counts, publisherVars, stray, storeVars>>

\* Every future has a result.  The first error among them is raised.
AllResults ==
  /\ main = "waiting" /\ RowsIn({"logged", "failed"}) = Rows
  /\ main' = IF RowsIn({"failed"}) = {} THEN "joining" ELSE "failed"
  /\ UNCHANGED <<now, submitted, row, dispatchedIn, counts, publisherVars, stray, storeVars>>

\* The seeded fault: join without the re-raise.
JoinSilently ==
  /\ main = "joining" /\ publisher \in {"finished", "stopped"}
  /\ main' = "returned"
  /\ UNCHANGED <<now, submitted, row, dispatchedIn, counts, publisherVars, stray, storeVars>>

\* SafetyPublisher.join raises what stopped the publisher.
Join ==
  /\ main = "joining" /\ publisher \in {"finished", "stopped"}
  /\ main' = IF publisher = "finished" THEN "returned" ELSE "failed"
  /\ UNCHANGED <<now, submitted, row, dispatchedIn, counts, publisherVars, stray, storeVars>>
-----------------------------------------------------------------------------
(* A worker (run_request).  The pool takes rows in the order submitted.     *)

StartRow(r) ==
  /\ row[r] = "queued" /\ r <= submitted
  /\ \A q \in RowsIn({"queued"}) : r <= q
  /\ Cardinality(Working) < MaxWorkers
  /\ Move(r, "started")
  /\ UNCHANGED <<now, main, submitted, dispatchedIn, counts, publisherVars, stray, storeVars>>

StampDispatch(r) ==
  /\ row[r] = "started"
  /\ Move(r, "stamped")
  /\ dispatchedIn' = [dispatchedIn EXCEPT ![r] = now \div SecondTicks]
  /\ UNCHANGED <<now, main, submitted, counts, publisherVars, stray, storeVars>>

\* note_dispatch: counted under its source second, finalized or not.
NoteDispatch(r) ==
  /\ row[r] = "stamped"
  /\ Move(r, "requesting")
  /\ counts' = [counts EXCEPT ![Schedule[r].second] = @ + 1]
  /\ UNCHANGED <<now, main, submitted, dispatchedIn, publisherVars, stray, storeVars>>

\* Whatever the request's outcome, it is logged; only the log can fail.
FinishRow(r) ==
  /\ row[r] = "requesting"
  /\ Move(r, "logged") \/ Move(r, "failed")
  /\ UNCHANGED <<now, main, submitted, dispatchedIn, counts, publisherVars, stray, storeVars>>
-----------------------------------------------------------------------------
(* The publisher thread (SafetyPublisher._run).                            *)

\* The seeded fault: the deadline is taken from the start of the window.
DeadlineFromStart(w) == w * SecondTicks + GraceTicks

Deadline(w) == (w + 1) * SecondTicks + GraceTicks

\* The seeded fault: the count is read and left in place.
TakeCountLeaving(w) == count' = counts[w] /\ UNCHANGED counts

TakeCount(w) == count' = counts[w] /\ counts' = [counts EXCEPT ![w] = 0]

\* The window is over: its count is popped under the lock.
Finalize ==
  /\ publisher = "sleeping" /\ now >= Deadline(sequence)
  /\ TakeCount(sequence)
  /\ publisher' = "finalized"
  /\ UNCHANGED <<now, threadVars, sequence, status, published, records, stray, storeVars>>

\* It is appended to the observation file.
WriteObservation ==
  /\ publisher = "finalized"
  /\ published' = Append(published, count)
  /\ publisher' = "posting" /\ count' = 0
  /\ UNCHANGED <<now, threadVars, counts, sequence, status, records, stray, storeVars>>

\* What the publisher posts of a window, on its own connection.
Observation(w) ==
  [client |-> "publisher", run |-> RunID, sequence |-> w, count |-> published[w + 1]]

\* The controller gets the post and takes it, or refuses.
Post ==
  /\ publisher = "posting"
  /\ \/ /\ Submit(Observation(sequence))
        /\ publisher' = "asked" /\ UNCHANGED status
     \/ /\ SubmitError(Observation(sequence))
        /\ publisher' = "answered" /\ status' = 409
  /\ UNCHANGED <<now, threadVars, counts, sequence, count, published, records, stray>>

\* It evaluates an observation of the publisher, which may have given up on it.
Answer ==
  /\ \E observation \in inFlight :
       /\ observation.client = "publisher"
       /\ Evaluate(observation)
  /\ IF publisher = "asked"
       THEN publisher' = "answered" /\ status' \in {202, 500}
       ELSE UNCHANGED <<publisher, status>>
  /\ UNCHANGED <<now, threadVars, counts, sequence, count, published, records, stray>>

Accepted ==
  /\ publisher = "answered" /\ status = 202
  /\ records' = records + 1
  /\ sequence' = sequence + 1 /\ status' = "none"
  /\ publisher' = IF sequence' = Duration THEN "finished" ELSE "sleeping"
  /\ UNCHANGED <<now, threadVars, counts, count, published, stray, storeVars>>

\* The seeded fault: a failed post is tried again for ever.
PublisherRetries ==
  /\ publisher \in {"posting", "asked", "answered"}
  /\ publisher' = "posting" /\ status' = "none"
  /\ UNCHANGED <<now, threadVars, counts, sequence, count, published, records, stray, storeVars>>

\* The file cannot be written, the controller cannot be reached, refuses, or
\* does not answer within a second: the error ends the thread.
PublisherStops ==
  /\ publisher \in {"finalized", "posting", "asked", "answered"}
  /\ publisher' = "stopped" /\ status' = "none"
  /\ UNCHANGED <<now, threadVars, counts, sequence, count, published, records, stray, storeVars>>

\* The publisher of an earlier load generator, its windows those of its own T0.
\* One of the same cell has this run's id, and the counts of the same schedule.
StrayPost ==
  /\ stray < Duration /\ \A o \in inFlight : o.client # "stray"
  /\ \E observation \in [client : {"stray"}, run : StrayRuns, sequence : {stray},
                          count : 0..Cardinality(ScheduledIn(stray))] :
       \/ Submit(observation) /\ UNCHANGED stray
       \/ SubmitError(observation) /\ stray' = Duration
  /\ UNCHANGED <<now, threadVars, counts, publisherVars>>

\* Like every publisher it ends at the first answer that is not 202.
StrayAnswer ==
  /\ \E observation \in inFlight :
       /\ observation.client = "stray"
       /\ Evaluate(observation)
       /\ stray' \in {observation.sequence + 1, Duration}
  /\ UNCHANGED <<now, threadVars, counts, publisherVars>>

MainStep == SubmitRow \/ AllResults \/ Join
WorkerStep(r) == StartRow(r) \/ StampDispatch(r) \/ NoteDispatch(r) \/ FinishRow(r)
PublisherStep == Finalize \/ WriteObservation \/ Post \/ Answer \/ Accepted \/ PublisherStops

Next ==
  \/ Tick \/ MainStep \/ PublisherStep
  \/ \E r \in Rows : WorkerStep(r)
  \/ StrayPost \/ StrayAnswer

Spec == Init /\ [][Next]_vars

\* Time passes, threads are scheduled, and requests and posts end because both
\* have timeouts.
FairSpec ==
  /\ Spec /\ WF_vars(Tick) /\ WF_vars(MainStep) /\ WF_vars(PublisherStep)
  /\ \A r \in Rows : WF_vars(WorkerStep(r))
-----------------------------------------------------------------------------
CountOf(w) == IF w < Len(published) THEN published[w + 1]
              ELSE IF w = sequence THEN count ELSE 0

\* No dispatch is counted twice and none disappears: it is in its own window,
\* published or still in the counts (the publisher's lock and pop).
DispatchesConserved ==
  \A w \in Windows : CountOf(w) + counts[w] = Cardinality(ScheduledIn(w) \cap Dispatched)

\* The controller evaluates no window of this run twice; each the publisher has
\* recorded was evaluated with the count of the observation file, whoever else
\* posts under the run's id.
EvaluatesWhatWasPublished ==
  /\ \A i, j \in DOMAIN evaluated : evaluated[i].sequence = evaluated[j].sequence => i = j
  /\ \A w \in 0..(records - 1) : \E i \in DOMAIN evaluated : evaluated[i] = Observation(w)

\* What a load generator that returns writes beside its log.
Summary ==
  [scheduled |-> Len(Schedule), recorded |-> Cardinality(RowsIn({"logged"})),
   published |-> records]

\* observations_match_dispatch_log (validate_safety_run.py), on the files of a
\* run: the observation file and the request log.
MatchesDispatchLog ==
  /\ Len(published) = Duration
  /\ \A w \in Windows : published[w + 1] = Cardinality(ScheduledIn(w) \cap RowsIn({"logged"}))

\* A load generator that returns normally has logged every request and had every
\* window evaluated, in order, as it published it, none as an earlier attempt of
\* the cell did (STEP16.md: "Duplicate, missing, reordered, cross-run ... data
\* invalidates the run"); if moreover the validator accepts its files, each window
\* was evaluated with all the requests scheduled in it, late or not.
AcceptedRunObservesDemand ==
  main = "returned" =>
    /\ Summary.recorded = Summary.scheduled
    /\ Len(evaluated) = Duration /\ Summary.published = Duration
    /\ \A w \in Windows : evaluated[w + 1] = Observation(w)
    /\ MatchesDispatchLog =>
         \A w \in Windows : evaluated[w + 1].count = Cardinality(ScheduledIn(w))

\* A dispatch noted within the grace period after its second is never missed
\* (STEP16.md: windows are finalized 150 ms after their boundary).
PunctualDispatchIsObserved ==
  [][\A r \in Rows :
       /\ row[r] = "stamped" /\ row'[r] = "requesting"
       /\ now < (Schedule[r].second + 1) * SecondTicks + GraceTicks
       =>
         Schedule[r].second >= sequence /\ ~(publisher = "finalized" /\ Schedule[r].second = sequence)
    ]_vars

\* The count of a window is the number of requests dispatched in it
\* (experiments/safety/STEP16.md: "actual dispatch count in each completed
\* one-second window").
CountsActualDispatches ==
  \A i \in DOMAIN published :
    published[i] = Cardinality({r \in Dispatched : dispatchedIn[r] = i - 1})

\* The load generator always ends, whatever fails.
LoadGeneratorEnds == <>(main \in {"returned", "failed"})
=============================================================================
