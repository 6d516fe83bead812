------------------------- MODULE MeasurementProofs -------------------------
(***************************************************************************)
(* The two programs that measure.  The load generator and its publisher,    *)
(* for every schedule, size of the pool, grace period and interleaving of   *)
(* the threads: no dispatch is lost or counted twice, the controller        *)
(* evaluates what was published, and a run that is accepted observed the    *)
(* demand.  The readiness trials, for every campaign and any number of      *)
(* runners, Pods and faults: what a verdict says about the capacity that    *)
(* was there, and which trials the progress file counts.                    *)
(***************************************************************************)
EXTENDS LoadGenerator, Trial, NumberFacts, SequenceTheorems, FiniteSetTheorems

-----------------------------------------------------------------------------
(* The load generator: its schedule.                                       *)

\* Whole seconds are in the order of the times.
LEMMA DivMonotone ==
  ASSUME NEW a \in Nat, NEW b \in Nat, a <= b, NEW k \in Nat \ {0}
  PROVE  a \div k <= b \div k
OBVIOUS

\* The rows are numbered, and their source seconds are the windows.
LEMMA RowsAndWindows ==
  /\ Rows = 1..Len(Schedule) /\ Len(Schedule) \in Nat \ {0} /\ IsFiniteSet(Rows)
  /\ Duration \in Nat \ {0} /\ Windows = 0..(Duration - 1)
  /\ \A r \in Rows : Schedule[r] \in [second : Nat, at : Nat] /\ Schedule[r].second \in Windows
<1>1. PICK last : last = Len(Schedule)
  OBVIOUS
<1>2. last \in Nat \ {0} /\ Rows = 1..last /\ last \in Rows
      /\ \A r \in Rows : Schedule[r] \in [second : Nat, at : Nat]
  <2>1. PICK R : R = [second : Nat, at : Nat]
    OBVIOUS
  <2>2. Schedule \in Seq(R) /\ Schedule # << >>
    BY <2>1, ScheduleAssumption
  <2>3. last \in Nat /\ Rows = 1..last /\ last # 0
    BY <1>1, <2>2, LenProperties, EmptySeq DEF Rows
  <2>4. \A r \in 1..last : Schedule[r] \in R
    BY <1>1, <2>2, ElementOfSeq
  <2> QED BY <2>1, <2>3, <2>4
<1>3. IsFiniteSet(Rows)
  BY <1>2, FS_Interval
<1>4. PICK T : T = {Schedule[r].second : r \in Rows}
  OBVIOUS
<1>5. \A r \in Rows : Schedule[r].second <= Schedule[last].second
  <2> TAKE r \in Rows
  <2>1. Schedule[r].at <= Schedule[last].at
    <3>1. r = last \/ r < last
      BY <1>2
    <3>2. Schedule[r].at \in Nat
      BY <1>2
    <3>3. \A i, j \in Rows : i < j => Schedule[i].at <= Schedule[j].at
      BY ScheduleAssumption DEF Rows
    <3> QED BY <1>2, <3>1, <3>2, <3>3
  <2>2. Schedule[r].at \in Nat /\ Schedule[last].at \in Nat /\ SecondTicks \in Nat \ {0}
    BY <1>2, ScheduleAssumption
  <2>3. Schedule[r].at \div SecondTicks <= Schedule[last].at \div SecondTicks
    BY <2>1, <2>2, DivMonotone
  <2> QED BY <1>2, <2>3, ScheduleAssumption DEF Rows
<1>6. T \subseteq Nat /\ T # {} /\ Schedule[last].second \in Nat
      /\ \A y \in T : y <= Schedule[last].second
  BY <1>2, <1>4, <1>5
<1>7. Max(T) \in T /\ \A y \in T : y <= Max(T)
  BY <1>6, MaxNat
<1>8. Duration = Max(T) + 1 /\ Max(T) \in Nat
  BY <1>4, <1>6, <1>7 DEF Duration
<1>9. \A r \in Rows : Schedule[r].second \in 0..(Duration - 1)
  <2> TAKE r \in Rows
  <2>1. Schedule[r].second \in T /\ Schedule[r].second \in Nat
    BY <1>2, <1>4
  <2>2. Schedule[r].second <= Max(T)
    BY <1>7, <2>1
  <2> QED BY <1>8, <2>1, <2>2
<1> QED BY <1>1, <1>2, <1>3, <1>8, <1>9 DEF Windows
-----------------------------------------------------------------------------
(* An inductive invariant, in named parts.                                 *)

RowStates == {"queued", "started", "stamped", "requesting", "logged", "failed"}

\* The main thread only gets to the join, and returns, when every row is logged.
RowsOK ==
  /\ row \in [Rows -> RowStates]
  /\ main \in {"submitting", "waiting", "joining", "returned", "failed"}
  /\ main \in {"joining", "returned"} => \A r \in Rows : row[r] = "logged"

\* The publisher, between the window it has published last and the next.
PublisherOK ==
  /\ sequence \in Nat /\ count \in Nat /\ published \in Seq(Nat) /\ counts \in [Windows -> Nat]
  /\ publisher \in {"sleeping", "finalized", "posting", "asked", "answered", "finished", "stopped"}
  /\ publisher \in {"sleeping", "finalized"} => Len(published) = sequence
  /\ publisher \in {"posting", "asked", "answered"} => Len(published) = sequence + 1
  /\ publisher = "stopped" => Len(published) \in {sequence, sequence + 1}
  /\ publisher = "finished" => Len(published) = sequence
  /\ IF publisher = "finished" THEN sequence = Duration ELSE sequence < Duration
  /\ publisher \notin {"finalized", "stopped"} => count = 0

Observations == [client : {"publisher", "stray"}, run : {RunID}, sequence : Windows, count : Nat]

StoreTyped ==
  /\ evaluated \in Seq(Observations) /\ inFlight \in SUBSET Observations
  /\ latestSequence \in Int /\ latestSequence < Duration /\ stray \in 0..Duration

\* A window is taken once, by whomever it is posted.
EachOnce ==
  /\ \A i \in DOMAIN evaluated : evaluated[i].sequence <= latestSequence
  /\ \A o \in inFlight : o.sequence <= latestSequence
  /\ \A i, j \in DOMAIN evaluated : evaluated[i].sequence = evaluated[j].sequence => i = j
  /\ \A i \in DOMAIN evaluated, o \in inFlight : evaluated[i].sequence # o.sequence
  /\ \A o, q \in inFlight : o.sequence = q.sequence => o = q

IsEvaluated(observation) == \E i \in DOMAIN evaluated : evaluated[i] = observation

\* An answer of 202 stands for the publisher's own observation.
AnswersOK ==
  /\ records = sequence
  /\ \A w \in 0..(records - 1) : IsEvaluated(Observation(w))
  /\ publisher = "asked" =>
       \A o \in inFlight : o.client = "publisher" => o = Observation(sequence)
  /\ publisher = "answered" /\ status = 202 => IsEvaluated(Observation(sequence))

\* How many of the publisher's own windows the store has taken, and evaluated.
Answered == publisher = "answered" /\ status # 409
TakenOfOwn == IF publisher = "asked" \/ Answered THEN sequence + 1 ELSE sequence
EvaluatedOfOwn == IF Answered THEN sequence + 1 ELSE sequence

\* The store is ahead of the publisher, who will be refused, or nobody else has
\* been taken.
InOrder ==
  publisher # "stopped" =>
    /\ TakenOfOwn <= latestSequence + 1
    /\ latestSequence = TakenOfOwn - 1 =>
         /\ inFlight = IF publisher = "asked" THEN {Observation(sequence)} ELSE {}
         /\ Len(evaluated) = EvaluatedOfOwn
         /\ \A i \in 1..Len(evaluated) : evaluated[i] = Observation(i - 1)

StoreOK == StoreTyped /\ EachOnce /\ AnswersOK /\ InOrder

\* A run whose main thread has joined the publisher has been through all windows.
JoinedOK == main = "returned" => publisher = "finished"

\* The publisher is never ahead of the time of a window.
NotEarly ==
  /\ now \in Nat
  /\ \A w \in Windows :
       w < sequence \/ (w = sequence /\ publisher # "sleeping") => now >= Deadline(w)

LoadInvariant ==
  RowsOK /\ PublisherOK /\ StoreOK /\ JoinedOK /\ NotEarly /\ DispatchesConserved

\* A deadline is a number.
LEMMA DeadlineIsNat == ASSUME NEW w \in Nat PROVE Deadline(w) \in Nat
BY ScheduleAssumption DEF Deadline

\* A window counts finitely many rows.
LEMMA CountIsNat ==
  ASSUME NEW w PROVE IsFiniteSet(ScheduledIn(w) \cap Dispatched)
                     /\ Cardinality(ScheduledIn(w) \cap Dispatched) \in Nat
<1>1. ScheduledIn(w) \cap Dispatched \in SUBSET Rows
  BY DEF ScheduledIn
<1> QED BY <1>1, RowsAndWindows, FS_Subset, FS_CardinalityType

\* The first state.
LEMMA LoadInit == Init => LoadInvariant
<1> SUFFICES ASSUME Init PROVE LoadInvariant
  OBVIOUS
<1> USE RowsAndWindows
<1>1. RowsOK /\ JoinedOK
  BY DEF Init, RowsOK, RowStates, JoinedOK
<1>2. Len(published) = 0 /\ Len(evaluated) = 0 /\ published \in Seq(Nat)
      /\ evaluated \in Seq(Observations) /\ DOMAIN evaluated = {}
  BY EmptySeq, LenProperties DEF Init, StoreInit
<1>3. PublisherOK
  BY <1>2 DEF Init, PublisherOK
<1>4. StoreOK
  <2>1. /\ stray \in 0..Duration /\ records = 0 /\ sequence = 0 /\ latestSequence = -1
        /\ inFlight = {} /\ publisher = "sleeping"
    BY DEF Init, StoreInit
  <2>2. StoreTyped /\ EachOnce
    BY <1>2, <2>1 DEF StoreTyped, EachOnce
  <2>3. AnswersOK /\ InOrder
    BY <1>2, <2>1 DEF AnswersOK, InOrder, TakenOfOwn, EvaluatedOfOwn, Answered
  <2> QED BY <2>2, <2>3 DEF StoreOK
<1>5. NotEarly
  BY DEF Init, NotEarly
<1>6. DispatchesConserved
  <2> SUFFICES ASSUME NEW w \in Windows
               PROVE  CountOf(w) + counts[w] = Cardinality(ScheduledIn(w) \cap Dispatched)
    BY DEF DispatchesConserved
  <2>1. CountOf(w) = 0 /\ counts[w] = 0
    BY <1>2 DEF Init, CountOf
  <2>2. ScheduledIn(w) \cap Dispatched = {}
    <3>1. \A r \in Rows : row[r] = "queued"
      BY DEF Init
    <3>2. Dispatched = {}
      BY <3>1 DEF Dispatched, RowsIn
    <3> QED BY <3>2
  <2>3. Cardinality(ScheduledIn(w) \cap Dispatched) = 0
    BY <2>2, FS_EmptySet
  <2> QED BY ONLY <2>1, <2>3
<1> QED BY <1>1, <1>3, <1>4, <1>5, <1>6 DEF LoadInvariant
-----------------------------------------------------------------------------
(* The steps, part by part.                                                *)

\* What is said of the store is said of these variables.
LEMMA StoreStays ==
  ASSUME StoreOK,
         UNCHANGED <<publisher, status, sequence, published, records, stray, storeVars>>
  PROVE  StoreOK'
<1>1. \A w : Observation(w)' = Observation(w)
  BY DEF Observation
<1>2. StoreTyped' /\ EachOnce'
  BY DEF StoreOK, StoreTyped, EachOnce, Observations, storeVars
<1>3. AnswersOK'
  BY <1>1 DEF StoreOK, AnswersOK, IsEvaluated, storeVars
<1>4. InOrder'
  BY <1>1 DEF StoreOK, InOrder, TakenOfOwn, EvaluatedOfOwn, Answered, storeVars
<1> QED BY <1>2, <1>3, <1>4 DEF StoreOK

\* The clock and the main thread.
LEMMA MainKeeps ==
  ASSUME LoadInvariant, Tick \/ MainStep
  PROVE  LoadInvariant'
<1>1. UNCHANGED <<row, counts, publisherVars, stray, storeVars>>
  BY DEF Tick, MainStep, SubmitRow, AllResults, Join, threadVars, publisherVars
<1>2. PublisherOK' /\ StoreOK'
  BY <1>1, StoreStays DEF LoadInvariant, PublisherOK, publisherVars
<1>3. DispatchesConserved'
  <2>1. Dispatched' = Dispatched
    BY <1>1 DEF Dispatched, RowsIn
  <2>2. \A w : CountOf(w)' = CountOf(w)
    BY <1>1 DEF CountOf, publisherVars
  <2> QED BY <1>1, <2>1, <2>2 DEF LoadInvariant, DispatchesConserved
<1>4. NotEarly'
  <2>1. now' \in Nat /\ now' >= now
    <3>1. now \in Nat
      BY DEF LoadInvariant, NotEarly
    <3>2. now' = now \/ now' = now + 1
      BY DEF Tick, MainStep, SubmitRow, AllResults, Join
    <3> QED BY <3>1, <3>2
  <2>2. \A w \in Windows : Deadline(w) \in Nat
    <3> SUFFICES ASSUME NEW w \in Windows PROVE Deadline(w) \in Nat
      OBVIOUS
    <3>1. w \in Nat
      BY RowsAndWindows
    <3> QED BY <3>1, DeadlineIsNat
  <2> QED BY <1>1, <2>1, <2>2 DEF LoadInvariant, NotEarly, publisherVars, Deadline
<1>5. RowsOK' /\ JoinedOK'
  <2>1. CASE Tick
    BY <2>1 DEF Tick, threadVars, publisherVars, LoadInvariant, RowsOK, JoinedOK
  <2>2. CASE SubmitRow
    BY <2>2 DEF SubmitRow, publisherVars, LoadInvariant, RowsOK, JoinedOK
  <2>3. CASE AllResults
    <3>1. RowsIn({"failed"}) = {} => \A r \in Rows : row[r] = "logged"
      BY <2>3 DEF AllResults, RowsIn
    <3> QED BY <2>3, <3>1 DEF AllResults, publisherVars, LoadInvariant, RowsOK, JoinedOK
  <2>4. CASE Join
    BY <2>4 DEF Join, publisherVars, LoadInvariant, RowsOK, JoinedOK
  <2> QED BY <2>1, <2>2, <2>3, <2>4 DEF MainStep
<1> QED BY <1>2, <1>3, <1>4, <1>5 DEF LoadInvariant

\* A worker; only its note changes what is counted, and counts it once.
LEMMA WorkerKeeps ==
  ASSUME LoadInvariant, NEW r \in Rows, WorkerStep(r)
  PROVE  LoadInvariant'
<1>1. /\ UNCHANGED <<now, main, publisherVars, stray, storeVars>> /\ row[r] # "logged"
      /\ \E state \in RowStates : Move(r, state)
  BY DEF WorkerStep, StartRow, StampDispatch, NoteDispatch, FinishRow, RowStates
<1>2. RowsOK' /\ JoinedOK'
  BY <1>1 DEF LoadInvariant, RowsOK, JoinedOK, Move, publisherVars
<1>3. StoreOK' /\ NotEarly'
  BY <1>1, StoreStays DEF LoadInvariant, NotEarly, publisherVars, Deadline
<1>4. CASE NoteDispatch(r)
  <2>1. PICK v : v = Schedule[r].second
    OBVIOUS
  <2>2. v \in Windows /\ v \in Nat
    BY <2>1, RowsAndWindows
  <2>3. /\ counts \in [Windows -> Nat] /\ counts' \in [Windows -> Nat]
        /\ \A w \in Windows : counts'[w] = IF w = v THEN counts[w] + 1 ELSE counts[w]
    BY <1>4, <2>1, <2>2 DEF NoteDispatch, LoadInvariant, PublisherOK
  <2>4. PublisherOK'
    BY <1>1, <2>3 DEF LoadInvariant, PublisherOK, publisherVars
  <2>5. r \notin Dispatched /\ Dispatched' = Dispatched \cup {r}
    BY <1>4 DEF NoteDispatch, Move, Dispatched, RowsIn, LoadInvariant, RowsOK
  <2>6. ASSUME NEW w \in Windows
        PROVE  CountOf(w)' + counts'[w] = Cardinality(ScheduledIn(w) \cap Dispatched')
    <3>1. CountOf(w)' = CountOf(w) /\ CountOf(w) \in Nat
      BY <1>1, RowsAndWindows DEF CountOf, publisherVars, LoadInvariant, PublisherOK
    <3>2. CountOf(w) + counts[w] = Cardinality(ScheduledIn(w) \cap Dispatched)
      BY DEF LoadInvariant, DispatchesConserved
    <3>3. CASE w = v
      <4>1. ScheduledIn(w) \cap Dispatched' = (ScheduledIn(w) \cap Dispatched) \cup {r}
            /\ r \notin ScheduledIn(w) \cap Dispatched
        BY <2>1, <2>5, <3>3 DEF ScheduledIn
      <4>2. Cardinality(ScheduledIn(w) \cap Dispatched')
              = Cardinality(ScheduledIn(w) \cap Dispatched) + 1
        BY <4>1, CountIsNat, FS_AddElement
      <4> QED BY <2>3, <3>1, <3>2, <3>3, <4>2
    <3>4. CASE w # v
      <4>1. ScheduledIn(w) \cap Dispatched' = ScheduledIn(w) \cap Dispatched
        BY <2>1, <2>5, <3>4 DEF ScheduledIn
      <4> QED BY <2>3, <3>1, <3>2, <3>4, <4>1
    <3> QED BY <3>3, <3>4
  <2>7. DispatchesConserved'
    BY <2>6 DEF DispatchesConserved, ScheduledIn
  <2> QED BY <1>2, <1>3, <2>4, <2>7 DEF LoadInvariant
<1>5. CASE StartRow(r) \/ StampDispatch(r) \/ FinishRow(r)
  <2>1. counts' = counts /\ Dispatched' = Dispatched
    BY <1>5 DEF StartRow, StampDispatch, FinishRow, Move, Dispatched, RowsIn, LoadInvariant, RowsOK
  <2>2. PublisherOK'
    BY <1>1, <2>1 DEF LoadInvariant, PublisherOK, publisherVars
  <2>3. DispatchesConserved'
    BY <1>1, <2>1 DEF LoadInvariant, DispatchesConserved, CountOf, ScheduledIn, publisherVars
  <2> QED BY <1>2, <1>3, <2>2, <2>3 DEF LoadInvariant
<1> QED BY <1>4, <1>5 DEF WorkerStep

\* The publisher's steps leave the main thread and the rows alone, and so their part.
LEMMA ThreadsStay ==
  ASSUME LoadInvariant, UNCHANGED threadVars, main = "returned" => UNCHANGED publisher
  PROVE  RowsOK' /\ JoinedOK'
BY DEF LoadInvariant, RowsOK, JoinedOK, threadVars

\* A publisher that has not finished has not been joined.
LEMMA NotJoined ==
  ASSUME LoadInvariant, publisher # "finished"
  PROVE  main # "returned"
BY DEF LoadInvariant, JoinedOK

\* As long as the publisher has not posted, where it is makes no difference.
LEMMA StoreIdle ==
  ASSUME StoreOK, UNCHANGED <<sequence, published, records, stray, storeVars>>,
         publisher \in {"sleeping", "finalized", "posting"}, publisher' \in {"finalized", "posting"}
  PROVE  StoreOK'
<1>1. \A w : Observation(w)' = Observation(w)
  BY DEF Observation
<1>2. StoreTyped' /\ EachOnce'
  BY DEF StoreOK, StoreTyped, EachOnce, Observations, storeVars
<1>3. AnswersOK'
  BY <1>1 DEF StoreOK, AnswersOK, IsEvaluated, storeVars
<1>4. InOrder'
  BY <1>1 DEF StoreOK, InOrder, TakenOfOwn, EvaluatedOfOwn, Answered, storeVars
<1> QED BY <1>2, <1>3, <1>4 DEF StoreOK

\* The count of a window that is over is taken out of the counts.
LEMMA FinalizeKeeps ==
  ASSUME LoadInvariant, Finalize
  PROVE  LoadInvariant'
<1>1. /\ publisher = "sleeping" /\ now >= Deadline(sequence) /\ publisher' = "finalized"
      /\ count' = counts[sequence] /\ counts' = [counts EXCEPT ![sequence] = 0]
      /\ UNCHANGED <<now, threadVars, sequence, published, records, stray, storeVars>>
  BY DEF Finalize, TakeCount
<1>2. /\ sequence \in Windows /\ sequence \in Nat /\ sequence < Duration /\ Len(published) = sequence
      /\ count = 0 /\ counts \in [Windows -> Nat] /\ published \in Seq(Nat)
  BY <1>1, RowsAndWindows DEF LoadInvariant, PublisherOK
<1>3. /\ counts' \in [Windows -> Nat] /\ count' \in Nat
      /\ \A w \in Windows : counts'[w] = IF w = sequence THEN 0 ELSE counts[w]
  BY <1>1, <1>2
<1>4. RowsOK' /\ JoinedOK'
  BY <1>1, ThreadsStay, NotJoined
<1>5. PublisherOK'
  BY <1>1, <1>2, <1>3 DEF PublisherOK
<1>6. StoreOK'
  BY <1>1, StoreIdle DEF LoadInvariant
<1>7. NotEarly'
  <2> SUFFICES ASSUME NEW w \in Windows, w < sequence \/ w = sequence PROVE now >= Deadline(w)
    BY <1>1 DEF LoadInvariant, NotEarly, Deadline
  <2> QED BY <1>1 DEF LoadInvariant, NotEarly
<1>8. ASSUME NEW w \in Windows
      PROVE  CountOf(w)' + counts'[w] = Cardinality(ScheduledIn(w) \cap Dispatched')
  <2>1. Dispatched' = Dispatched
    BY <1>1 DEF Dispatched, RowsIn, threadVars
  <2>2. CountOf(w) + counts[w] = Cardinality(ScheduledIn(w) \cap Dispatched)
    BY DEF LoadInvariant, DispatchesConserved
  <2>3. CASE w = sequence
    <3>1. CountOf(w) = 0 /\ CountOf(w)' = counts[w] /\ counts'[w] = 0 /\ counts[w] \in Nat
      BY <1>1, <1>2, <1>3, <2>3 DEF CountOf
    <3> QED BY <2>1, <2>2, <3>1
  <2>4. CASE w # sequence
    <3>1. CountOf(w)' = CountOf(w) /\ counts'[w] = counts[w]
      BY <1>1, <1>2, <1>3, <2>4 DEF CountOf
    <3> QED BY <2>1, <2>2, <3>1
  <2> QED BY <2>3, <2>4
<1>9. DispatchesConserved'
  BY <1>8 DEF DispatchesConserved, ScheduledIn
<1> QED BY <1>4, <1>5, <1>6, <1>7, <1>9 DEF LoadInvariant

\* It is written to the observation file.
LEMMA WriteKeeps ==
  ASSUME LoadInvariant, WriteObservation
  PROVE  LoadInvariant'
<1>1. /\ publisher = "finalized" /\ publisher' = "posting" /\ count' = 0
      /\ published' = Append(published, count)
      /\ UNCHANGED <<now, threadVars, counts, sequence, records, stray, storeVars>>
  BY DEF WriteObservation
<1>2. /\ sequence \in Nat /\ sequence < Duration /\ Len(published) = sequence /\ count \in Nat
      /\ published \in Seq(Nat)
  BY <1>1 DEF LoadInvariant, PublisherOK
<1>3. /\ published' \in Seq(Nat) /\ Len(published') = sequence + 1
      /\ \A i \in 1..sequence : published'[i] = published[i]
      /\ published'[sequence + 1] = count
  BY <1>1, <1>2, AppendProperties
<1>4. RowsOK' /\ JoinedOK'
  BY <1>1, ThreadsStay, NotJoined
<1>5. PublisherOK'
  BY <1>1, <1>2, <1>3 DEF LoadInvariant, PublisherOK
<1>6. StoreOK'
  <2>1. \A w \in 0..(sequence - 1) : Observation(w)' = Observation(w)
    BY <1>1, <1>2, <1>3 DEF Observation
  <2>2. StoreTyped' /\ EachOnce'
    BY <1>1 DEF LoadInvariant, StoreOK, StoreTyped, EachOnce, Observations, storeVars
  <2>3. AnswersOK'
    BY <1>1, <2>1 DEF LoadInvariant, StoreOK, AnswersOK, IsEvaluated, storeVars
  <2>4. InOrder'
    <3>1. TakenOfOwn = sequence /\ TakenOfOwn' = sequence
          /\ EvaluatedOfOwn = sequence /\ EvaluatedOfOwn' = sequence
      BY <1>1 DEF TakenOfOwn, EvaluatedOfOwn, Answered
    <3>2. Len(evaluated) = sequence => \A i \in 1..Len(evaluated) : i - 1 \in 0..(sequence - 1)
      BY <1>2
    <3> QED BY <1>1, <2>1, <3>1, <3>2 DEF LoadInvariant, StoreOK, InOrder, storeVars
  <2> QED BY <2>2, <2>3, <2>4 DEF StoreOK
<1>7. NotEarly'
  BY <1>1 DEF LoadInvariant, NotEarly, Deadline
<1>8. ASSUME NEW w \in Windows
      PROVE  CountOf(w)' + counts'[w] = Cardinality(ScheduledIn(w) \cap Dispatched')
  <2>1. Dispatched' = Dispatched /\ counts' = counts
    BY <1>1 DEF Dispatched, RowsIn, threadVars
  <2>2. CountOf(w) + counts[w] = Cardinality(ScheduledIn(w) \cap Dispatched)
    BY DEF LoadInvariant, DispatchesConserved
  <2>3. w \in Nat
    BY RowsAndWindows
  <2>4. CountOf(w)' = CountOf(w)
    BY <1>1, <1>2, <1>3, <2>3 DEF CountOf
  <2> QED BY <2>1, <2>2, <2>4
<1>9. DispatchesConserved'
  BY <1>8 DEF DispatchesConserved, ScheduledIn
<1> QED BY <1>4, <1>5, <1>6, <1>7, <1>9 DEF LoadInvariant

\* An observation the store takes is the next one, and in flight.
LEMMA StoreTakes ==
  ASSUME StoreTyped, EachOnce, NEW o, Submit(o),
         o \in [client : {"publisher", "stray"}, run : {RunID} \cup StrayRuns,
                sequence : Windows, count : Nat]
  PROVE  /\ evaluated' \in Seq(Observations) /\ inFlight' \in SUBSET Observations
         /\ latestSequence' \in Int /\ latestSequence' < Duration /\ EachOnce'
         /\ latestSequence' = latestSequence + 1 /\ o.sequence = latestSequence + 1
         /\ evaluated' = evaluated /\ inFlight' = inFlight \cup {o}
<1>1. /\ o.run = RunID /\ o.sequence = latestSequence + 1 /\ latestSequence' = o.sequence
      /\ inFlight' = inFlight \cup {o} /\ evaluated' = evaluated
  BY DEF Submit, Accepts
<1>2. o.sequence \in Int /\ o.sequence < Duration
  BY RowsAndWindows
<1>3. o \in Observations
  BY <1>1 DEF Observations
<1>4. \A i \in DOMAIN evaluated : evaluated[i].sequence \in Int
  <2>1. \A q \in Observations : q.sequence \in Int
    BY RowsAndWindows DEF Observations
  <2> QED BY <2>1, ElementOfSeq, LenProperties DEF StoreTyped
<1>5. \A q \in inFlight : q.sequence \in Int
  BY RowsAndWindows DEF StoreTyped, Observations
<1>6. EachOnce'
  BY <1>1, <1>2, <1>4, <1>5 DEF EachOnce, StoreTyped
<1> QED BY <1>1, <1>2, <1>3, <1>6 DEF StoreTyped

\* One that is evaluated is no longer in flight, and stands after the others.
LEMMA StoreEvaluates ==
  ASSUME StoreTyped, EachOnce, NEW o \in inFlight, Evaluate(o)
  PROVE  /\ evaluated' \in Seq(Observations) /\ inFlight' \in SUBSET Observations
         /\ EachOnce' /\ latestSequence' = latestSequence /\ inFlight' = inFlight \ {o}
         /\ Len(evaluated) \in Nat /\ Len(evaluated') = Len(evaluated) + 1
         /\ \A i \in 1..Len(evaluated) : evaluated'[i] = evaluated[i]
         /\ evaluated'[Len(evaluated) + 1] = o /\ IsEvaluated(o)'
         /\ \A q : IsEvaluated(q) => IsEvaluated(q)'
<1>1. evaluated' = Append(evaluated, o) /\ inFlight' = inFlight \ {o}
      /\ latestSequence' = latestSequence /\ o \in Observations /\ evaluated \in Seq(Observations)
  BY DEF Evaluate, StoreTyped
<1>2. PICK n : n = Len(evaluated)
  OBVIOUS
<1>3. /\ n \in Nat /\ DOMAIN evaluated = 1..n
      /\ evaluated' \in Seq(Observations) /\ Len(evaluated') = n + 1
      /\ \A i \in 1..n : evaluated'[i] = evaluated[i]
      /\ evaluated'[n + 1] = o
  BY <1>1, <1>2, AppendProperties, LenProperties
<1>4. DOMAIN evaluated' = 1..(n + 1)
  BY <1>3, LenProperties
<1>5. \A i \in 1..(n + 1) : i \in 1..n \/ i = n + 1
  BY <1>3
<1>6. IsEvaluated(o)' /\ \A q : IsEvaluated(q) => IsEvaluated(q)'
  <2>1. n + 1 \in 1..(n + 1) /\ \A i \in 1..n : i \in 1..(n + 1)
    BY <1>3
  <2> QED BY <1>3, <1>4, <2>1 DEF IsEvaluated
<1>7. EachOnce'
  <2>1. /\ \A i \in 1..n : evaluated[i].sequence <= latestSequence /\ evaluated[i].sequence # o.sequence
        /\ o.sequence <= latestSequence
        /\ \A q \in inFlight' : q \in inFlight /\ q.sequence # o.sequence
    BY <1>1, <1>3 DEF EachOnce
  <2>2. \A i \in 1..(n + 1) : evaluated'[i].sequence <= latestSequence'
    BY <1>1, <1>3, <1>5, <2>1
  <2>3. \A i, j \in 1..(n + 1) : evaluated'[i].sequence = evaluated'[j].sequence => i = j
    BY <1>3, <1>5, <2>1 DEF EachOnce
  <2>4. \A i \in 1..(n + 1), q \in inFlight' : evaluated'[i].sequence # q.sequence
    BY <1>3, <1>5, <2>1 DEF EachOnce
  <2>5. /\ \A q \in inFlight' : q.sequence <= latestSequence'
        /\ \A q, v \in inFlight' : q.sequence = v.sequence => q = v
    BY <1>1 DEF EachOnce
  <2> QED BY <1>4, <2>2, <2>3, <2>4, <2>5 DEF EachOnce
<1>8. inFlight' \in SUBSET Observations
  BY <1>1 DEF StoreTyped
<1> QED BY <1>1, <1>2, <1>3, <1>6, <1>7, <1>8

\* The publisher's observation is taken, or refused because another's was.
LEMMA PostKeeps ==
  ASSUME LoadInvariant, Post
  PROVE  LoadInvariant'
<1>1. /\ publisher = "posting" /\ publisher' \in {"asked", "answered"}
      /\ UNCHANGED <<now, threadVars, counts, sequence, count, published, records, stray>>
  BY DEF Post
<1>2. /\ sequence \in Nat /\ sequence \in Windows /\ published[sequence + 1] \in Nat
      /\ StoreTyped /\ EachOnce /\ AnswersOK /\ InOrder /\ latestSequence \in Int
  BY <1>1, RowsAndWindows, LenProperties, ElementOfSeq
     DEF LoadInvariant, PublisherOK, StoreOK, StoreTyped
<1>3. \A w : Observation(w)' = Observation(w)
  BY <1>1 DEF Observation
<1>4. RowsOK' /\ JoinedOK'
  BY <1>1, ThreadsStay, NotJoined
<1>5. PublisherOK'
  BY <1>1 DEF LoadInvariant, PublisherOK
<1>6. TakenOfOwn = sequence /\ EvaluatedOfOwn = sequence
  BY <1>1 DEF TakenOfOwn, EvaluatedOfOwn, Answered
<1>7. StoreOK'
  <2>1. CASE Submit(Observation(sequence)) /\ publisher' = "asked"
    <3>1. PICK o : o = Observation(sequence)
      OBVIOUS
    <3>2. o \in [client : {"publisher", "stray"}, run : {RunID} \cup StrayRuns,
                 sequence : Windows, count : Nat]
          /\ o.sequence = sequence /\ Submit(o)
      BY <1>2, <2>1, <3>1 DEF Observation
    <3>3. /\ StoreTyped' /\ EachOnce' /\ latestSequence = sequence - 1 /\ latestSequence' = sequence
          /\ evaluated' = evaluated /\ inFlight' = inFlight \cup {o}
      <4>1. /\ evaluated' \in Seq(Observations) /\ inFlight' \in SUBSET Observations
            /\ latestSequence' \in Int /\ latestSequence' < Duration /\ EachOnce'
            /\ latestSequence' = latestSequence + 1 /\ o.sequence = latestSequence + 1
            /\ evaluated' = evaluated /\ inFlight' = inFlight \cup {o}
        BY <1>2, <3>2, StoreTakes
      <4>2. Observations' = Observations /\ Duration' = Duration
        BY DEF Observations
      <4> QED BY <1>1, <1>2, <3>2, <4>1, <4>2 DEF StoreTyped
    <3>4. /\ inFlight = {} /\ Len(evaluated) = sequence
          /\ \A i \in 1..Len(evaluated) : evaluated[i] = Observation(i - 1)
      BY <1>1, <1>2, <1>6, <3>3 DEF InOrder
    <3>5. AnswersOK'
      BY <1>1, <1>2, <1>3, <2>1, <3>1, <3>3, <3>4 DEF AnswersOK, IsEvaluated
    <3>6. TakenOfOwn' = sequence + 1 /\ EvaluatedOfOwn' = sequence
      BY <1>1, <2>1 DEF TakenOfOwn, EvaluatedOfOwn, Answered
    <3>7. InOrder'
      BY <1>2, <1>3, <1>1, <2>1, <3>1, <3>3, <3>4, <3>6 DEF InOrder
    <3> QED BY <3>3, <3>5, <3>7 DEF StoreOK
  <2>2. CASE SubmitError(Observation(sequence)) /\ publisher' = "answered" /\ status' = 409
    <3>1. UNCHANGED storeVars
      BY <2>2 DEF SubmitError
    <3>2. StoreTyped' /\ EachOnce'
      BY <1>1, <1>2, <3>1 DEF StoreTyped, EachOnce, Observations, storeVars
    <3>3. AnswersOK'
      BY <1>1, <1>2, <1>3, <2>2, <3>1 DEF AnswersOK, IsEvaluated, storeVars
    <3>4. TakenOfOwn' = sequence /\ EvaluatedOfOwn' = sequence
      BY <1>1, <2>2 DEF TakenOfOwn, EvaluatedOfOwn, Answered
    <3>5. InOrder'
      BY <1>1, <1>2, <1>3, <1>6, <2>2, <3>1, <3>4 DEF InOrder, storeVars
    <3> QED BY <3>2, <3>3, <3>5 DEF StoreOK
  <2> QED BY <2>1, <2>2 DEF Post
<1>8. NotEarly'
  BY <1>1 DEF LoadInvariant, NotEarly, Deadline
<1>9. DispatchesConserved'
  BY <1>1 DEF LoadInvariant, DispatchesConserved, CountOf, ScheduledIn, Dispatched, RowsIn, threadVars
<1> QED BY <1>4, <1>5, <1>7, <1>8, <1>9 DEF LoadInvariant

\* The controller evaluates it, and answers if the publisher still waits.
LEMMA AnswerKeeps ==
  ASSUME LoadInvariant, Answer
  PROVE  LoadInvariant'
<1>1. PICK o \in inFlight : o.client = "publisher" /\ Evaluate(o)
  BY DEF Answer
<1>2. /\ UNCHANGED <<now, threadVars, counts, sequence, count, published, records, stray>>
      /\ IF publisher = "asked" THEN publisher' = "answered" /\ status' \in {202, 500}
                                ELSE UNCHANGED <<publisher, status>>
  BY DEF Answer
<1>3. StoreTyped /\ EachOnce /\ AnswersOK /\ InOrder /\ sequence \in Nat /\ latestSequence \in Int
  BY DEF LoadInvariant, PublisherOK, StoreOK, StoreTyped
<1>4. /\ evaluated' \in Seq(Observations) /\ inFlight' \in SUBSET Observations
      /\ EachOnce' /\ latestSequence' = latestSequence /\ inFlight' = inFlight \ {o}
      /\ Len(evaluated) \in Nat /\ Len(evaluated') = Len(evaluated) + 1
      /\ \A i \in 1..Len(evaluated) : evaluated'[i] = evaluated[i]
      /\ evaluated'[Len(evaluated) + 1] = o /\ IsEvaluated(o)'
      /\ \A q : IsEvaluated(q) => IsEvaluated(q)'
  BY <1>1, <1>3, StoreEvaluates
<1>5. \A w : Observation(w)' = Observation(w)
  BY <1>2 DEF Observation
<1>6. RowsOK' /\ JoinedOK'
  <2>1. main = "returned" => publisher' = publisher
    BY <1>2, NotJoined
  <2> QED BY <1>2, <2>1, ThreadsStay
<1>7. PublisherOK'
  BY <1>2 DEF LoadInvariant, PublisherOK
<1>8. StoreTyped'
  BY <1>2, <1>3, <1>4 DEF StoreTyped, Observations
<1>9. AnswersOK'
  <2>1. /\ records' = sequence' /\ \A w \in 0..(records' - 1) : IsEvaluated(Observation(w))'
    BY <1>2, <1>3, <1>4, <1>5 DEF AnswersOK
  <2>2. CASE publisher = "asked"
    <3>1. o = Observation(sequence)
      BY <1>1, <1>3, <2>2 DEF AnswersOK
    <3>2. IsEvaluated(Observation(sequence))'
      BY <1>2, <1>4, <3>1 DEF Observation
    <3> QED BY <1>2, <2>1, <2>2, <3>2 DEF AnswersOK
  <2>3. CASE publisher # "asked"
    BY <1>2, <1>3, <1>4, <1>5, <2>1, <2>3 DEF AnswersOK
  <2> QED BY <2>2, <2>3
<1>10. InOrder'
  <2>1. CASE publisher = "asked"
    <3>1. o = Observation(sequence)
      BY <1>1, <1>3, <2>1 DEF AnswersOK
    <3>2. /\ TakenOfOwn = sequence + 1 /\ TakenOfOwn' = sequence + 1
          /\ EvaluatedOfOwn = sequence /\ EvaluatedOfOwn' = sequence + 1
      BY <1>2, <2>1 DEF TakenOfOwn, EvaluatedOfOwn, Answered
    <3>3. ASSUME latestSequence' = TakenOfOwn' - 1
          PROVE  /\ inFlight' = {} /\ Len(evaluated') = sequence + 1
                 /\ \A i \in 1..Len(evaluated') : evaluated'[i] = Observation(i - 1)'
      <4>1. /\ inFlight = {Observation(sequence)} /\ Len(evaluated) = sequence
            /\ \A i \in 1..Len(evaluated) : evaluated[i] = Observation(i - 1)
        BY <1>3, <1>4, <2>1, <3>2, <3>3 DEF InOrder
      <4>2. \A i \in 1..(sequence + 1) : i \in 1..sequence \/ (i = sequence + 1 /\ i - 1 = sequence)
        BY <1>3
      <4>3. \A i \in 1..(sequence + 1) : evaluated'[i] = Observation(i - 1)
        BY <1>4, <3>1, <4>1, <4>2
      <4> QED BY <1>4, <1>5, <3>1, <4>1, <4>3
    <3> QED BY <1>2, <1>3, <1>4, <2>1, <3>2, <3>3 DEF InOrder
  <2>2. CASE publisher # "asked"
    <3>1. publisher' = publisher /\ TakenOfOwn' = TakenOfOwn
      BY <1>2, <2>2 DEF TakenOfOwn, Answered
    <3>2. publisher # "stopped" => TakenOfOwn <= latestSequence + 1 /\ latestSequence # TakenOfOwn - 1
      BY <1>1, <1>3, <2>2 DEF InOrder
    <3> QED BY <1>4, <3>1, <3>2 DEF InOrder
  <2> QED BY <2>1, <2>2
<1>11. NotEarly'
  BY <1>2 DEF LoadInvariant, NotEarly, Deadline
<1>12. DispatchesConserved'
  BY <1>2 DEF LoadInvariant, DispatchesConserved, CountOf, ScheduledIn, Dispatched, RowsIn, threadVars
<1> QED BY <1>4, <1>6, <1>7, <1>8, <1>9, <1>10, <1>11, <1>12 DEF LoadInvariant, StoreOK

\* On to the next window.
LEMMA AcceptedKeeps ==
  ASSUME LoadInvariant, Accepted
  PROVE  LoadInvariant'
<1>1. /\ publisher = "answered" /\ status = 202
      /\ records' = records + 1 /\ sequence' = sequence + 1
      /\ publisher' = IF sequence + 1 = Duration THEN "finished" ELSE "sleeping"
      /\ UNCHANGED <<now, threadVars, counts, count, published, stray, storeVars>>
  BY DEF Accepted
<1>2. /\ sequence \in Nat /\ sequence < Duration /\ Duration \in Nat
      /\ Len(published) = sequence + 1 /\ count = 0
      /\ records = sequence /\ IsEvaluated(Observation(sequence))
      /\ \A w \in 0..(sequence - 1) : IsEvaluated(Observation(w))
  BY <1>1, RowsAndWindows DEF LoadInvariant, PublisherOK, StoreOK, AnswersOK
<1>3. RowsOK' /\ JoinedOK'
  BY <1>1, ThreadsStay, NotJoined
<1>4. PublisherOK'
  BY <1>1, <1>2 DEF LoadInvariant, PublisherOK
<1>5. StoreOK'
  <2>1. /\ \A w : Observation(w)' = Observation(w) /\ IsEvaluated(Observation(w))' = IsEvaluated(Observation(w))
        /\ publisher' \in {"finished", "sleeping"}
    BY <1>1 DEF Observation, IsEvaluated, storeVars
  <2>2. StoreTyped' /\ EachOnce'
    BY <1>1 DEF LoadInvariant, StoreOK, StoreTyped, EachOnce, Observations, storeVars
  <2>3. \A w \in 0..sequence : w \in 0..(sequence - 1) \/ w = sequence
    BY <1>2
  <2>4. AnswersOK'
    BY <1>1, <1>2, <2>1, <2>3 DEF AnswersOK
  <2>5. /\ TakenOfOwn = sequence + 1 /\ TakenOfOwn' = sequence + 1
        /\ EvaluatedOfOwn = sequence + 1 /\ EvaluatedOfOwn' = sequence + 1
    BY <1>1, <2>1 DEF TakenOfOwn, EvaluatedOfOwn, Answered
  <2>6. InOrder'
    BY <1>1, <2>1, <2>5 DEF LoadInvariant, StoreOK, InOrder, storeVars
  <2> QED BY <2>2, <2>4, <2>6 DEF StoreOK
<1>6. NotEarly'
  <2> SUFFICES ASSUME NEW w \in Windows,
                      w < sequence' \/ (w = sequence' /\ publisher' # "sleeping")
               PROVE  now >= Deadline(w)
    BY <1>1 DEF LoadInvariant, NotEarly, Deadline
  <2>1. w \in Nat /\ w < Duration
    BY RowsAndWindows
  <2>2. w < sequence \/ w = sequence
    BY <1>1, <1>2, <2>1
  <2> QED BY <1>1, <2>2 DEF LoadInvariant, NotEarly
<1>7. ASSUME NEW w \in Windows
      PROVE  CountOf(w)' + counts'[w] = Cardinality(ScheduledIn(w) \cap Dispatched')
  <2>1. Dispatched' = Dispatched /\ counts' = counts
    BY <1>1 DEF Dispatched, RowsIn, threadVars
  <2>2. CountOf(w) + counts[w] = Cardinality(ScheduledIn(w) \cap Dispatched)
    BY DEF LoadInvariant, DispatchesConserved
  <2>3. w \in Nat
    BY RowsAndWindows
  <2>4. CountOf(w)' = CountOf(w)
    BY <1>1, <1>2, <2>3 DEF CountOf
  <2> QED BY <2>1, <2>2, <2>4
<1>8. DispatchesConserved'
  BY <1>7 DEF DispatchesConserved, ScheduledIn
<1> QED BY <1>3, <1>4, <1>5, <1>6, <1>8 DEF LoadInvariant

\* The publisher gives up, where it is.
LEMMA StopKeeps ==
  ASSUME LoadInvariant, PublisherStops
  PROVE  LoadInvariant'
<1>1. /\ publisher \in {"finalized", "posting", "asked", "answered"} /\ publisher' = "stopped"
      /\ UNCHANGED <<now, threadVars, counts, sequence, count, published, records, stray, storeVars>>
  BY DEF PublisherStops
<1>2. RowsOK' /\ JoinedOK'
  BY <1>1, ThreadsStay, NotJoined
<1>3. PublisherOK'
  BY <1>1 DEF LoadInvariant, PublisherOK
<1>4. StoreOK'
  <2>1. \A w : Observation(w)' = Observation(w)
    BY <1>1 DEF Observation
  <2>2. StoreTyped' /\ EachOnce'
    BY <1>1 DEF LoadInvariant, StoreOK, StoreTyped, EachOnce, Observations, storeVars
  <2>3. AnswersOK' /\ InOrder'
    BY <1>1, <2>1 DEF LoadInvariant, StoreOK, AnswersOK, InOrder, IsEvaluated, storeVars
  <2> QED BY <2>2, <2>3 DEF StoreOK
<1>5. NotEarly'
  BY <1>1 DEF LoadInvariant, NotEarly, Deadline
<1>6. DispatchesConserved'
  BY <1>1 DEF LoadInvariant, DispatchesConserved, CountOf, ScheduledIn, Dispatched, RowsIn, threadVars
<1> QED BY <1>2, <1>3, <1>4, <1>5, <1>6 DEF LoadInvariant

\* An earlier publisher's observation may be taken, of this run's id too: the store
\* is ahead of the publisher from then on.
LEMMA StrayKeeps ==
  ASSUME LoadInvariant, StrayPost \/ StrayAnswer
  PROVE  LoadInvariant'
<1>1. UNCHANGED <<now, threadVars, counts, publisherVars>>
  BY DEF StrayPost, StrayAnswer
<1>2. /\ StoreTyped /\ EachOnce /\ AnswersOK /\ InOrder /\ sequence \in Nat
      /\ latestSequence \in Int /\ stray \in 0..Duration /\ Duration \in Nat
  BY RowsAndWindows DEF LoadInvariant, PublisherOK, StoreOK, StoreTyped
<1>3. /\ \A w : Observation(w)' = Observation(w)
      /\ TakenOfOwn' = TakenOfOwn /\ EvaluatedOfOwn' = EvaluatedOfOwn
      /\ UNCHANGED <<publisher, status, sequence, records>>
  BY <1>1 DEF Observation, TakenOfOwn, EvaluatedOfOwn, Answered, publisherVars
<1>4. TakenOfOwn \in Int
  BY <1>2 DEF TakenOfOwn
<1>5. StoreOK'
  <2>1. CASE StrayPost
    <3>1. Cardinality(ScheduledIn(stray)) \in Nat /\ stray \in Windows /\ stray < Duration
      BY <1>2, <2>1, RowsAndWindows, FS_Subset, FS_CardinalityType DEF ScheduledIn, StrayPost
    <3>2. PICK o \in [client : {"stray"}, run : StrayRuns, sequence : {stray},
                      count : 0..Cardinality(ScheduledIn(stray))] :
            (Submit(o) /\ UNCHANGED stray) \/ (SubmitError(o) /\ stray' = Duration)
      BY <2>1 DEF StrayPost
    <3>3. o \in [client : {"publisher", "stray"}, run : {RunID} \cup StrayRuns,
                 sequence : Windows, count : Nat] /\ o.client = "stray"
      BY <3>1, <3>2
    <3>4. CASE SubmitError(o) /\ stray' = Duration
      <4>1. UNCHANGED storeVars
        BY <3>4 DEF SubmitError
      <4>2. StoreTyped' /\ EachOnce'
        BY <1>2, <3>4, <4>1 DEF StoreTyped, EachOnce, Observations, storeVars
      <4>3. AnswersOK' /\ InOrder'
        BY <1>2, <1>3, <4>1 DEF AnswersOK, InOrder, IsEvaluated, storeVars
      <4> QED BY <4>2, <4>3 DEF StoreOK
    <3>5. CASE Submit(o) /\ UNCHANGED stray
      <4>1. /\ evaluated' \in Seq(Observations) /\ inFlight' \in SUBSET Observations
            /\ latestSequence' \in Int /\ latestSequence' < Duration /\ EachOnce'
            /\ latestSequence' = latestSequence + 1
            /\ evaluated' = evaluated /\ inFlight' = inFlight \cup {o}
        BY <1>2, <3>3, <3>5, StoreTakes
      <4>2. StoreTyped'
        BY <1>2, <3>5, <4>1 DEF StoreTyped, Observations
      <4>3. AnswersOK'
        BY <1>2, <1>3, <3>3, <4>1 DEF AnswersOK, IsEvaluated
      <4>4. InOrder'
        BY <1>2, <1>3, <1>4, <4>1 DEF InOrder
      <4> QED BY <4>1, <4>2, <4>3, <4>4 DEF StoreOK
    <3> QED BY <3>2, <3>4, <3>5
  <2>2. CASE StrayAnswer
    <3>1. PICK o \in inFlight : /\ o.client = "stray" /\ Evaluate(o)
                                /\ stray' \in {o.sequence + 1, Duration}
      BY <2>2 DEF StrayAnswer
    <3>2. /\ evaluated' \in Seq(Observations) /\ inFlight' \in SUBSET Observations
          /\ EachOnce' /\ latestSequence' = latestSequence /\ inFlight' = inFlight \ {o}
          /\ \A q : IsEvaluated(q) => IsEvaluated(q)'
      BY <1>2, <3>1, StoreEvaluates
    <3>3. stray' \in 0..Duration
      <4>1. o.sequence \in Windows
        BY <1>2, <3>1 DEF StoreTyped, Observations
      <4> QED BY <1>2, <3>1, <4>1, RowsAndWindows
    <3>4. StoreTyped'
      BY <1>2, <3>2, <3>3 DEF StoreTyped, Observations
    <3>5. AnswersOK'
      BY <1>2, <1>3, <3>2 DEF AnswersOK
    <3>6. InOrder'
      <4>1. Observation(sequence).client = "publisher"
        BY DEF Observation
      <4>2. publisher # "stopped" => TakenOfOwn <= latestSequence + 1 /\ latestSequence # TakenOfOwn - 1
        BY <1>2, <3>1, <4>1 DEF InOrder
      <4> QED BY <1>3, <3>2, <4>2 DEF InOrder
    <3> QED BY <3>2, <3>4, <3>5, <3>6 DEF StoreOK
  <2> QED BY <2>1, <2>2
<1>6. PublisherOK' /\ NotEarly' /\ RowsOK' /\ JoinedOK'
  <2>1. PublisherOK' /\ NotEarly'
    BY <1>1 DEF LoadInvariant, PublisherOK, NotEarly, Deadline, publisherVars
  <2>2. RowsOK' /\ JoinedOK'
    BY <1>1 DEF LoadInvariant, RowsOK, JoinedOK, threadVars, publisherVars
  <2> QED BY <2>1, <2>2
<1>7. DispatchesConserved'
  BY <1>1 DEF LoadInvariant, DispatchesConserved, CountOf, ScheduledIn, Dispatched, RowsIn,
       threadVars, publisherVars
<1> QED BY <1>5, <1>6, <1>7 DEF LoadInvariant

\* Every step.
LEMMA LoadStep ==
  ASSUME LoadInvariant, [Next]_vars
  PROVE  LoadInvariant'
<1>1. CASE UNCHANGED vars
  <2>1. RowsOK' /\ JoinedOK' /\ PublisherOK'
    BY <1>1 DEF vars, LoadInvariant, RowsOK, PublisherOK, JoinedOK, threadVars, publisherVars
  <2>2. StoreOK' /\ NotEarly'
    BY <1>1, StoreStays DEF vars, LoadInvariant, NotEarly, Deadline, publisherVars
  <2>3. DispatchesConserved'
    BY <1>1 DEF vars, LoadInvariant, DispatchesConserved, CountOf, ScheduledIn, Dispatched, RowsIn,
         threadVars, publisherVars
  <2> QED BY <2>1, <2>2, <2>3 DEF LoadInvariant
<1> QED BY <1>1, MainKeeps, WorkerKeeps, FinalizeKeeps, WriteKeeps, PostKeeps, AnswerKeeps, AcceptedKeeps,
          StopKeeps, StrayKeeps DEF Next, PublisherStep

\* The invariant, always.
THEOREM LoadGeneratorInvariant == Spec => []LoadInvariant
<1>1. LoadInvariant /\ [Next]_vars => LoadInvariant'
  BY LoadStep
<1> QED BY <1>1, LoadInit, PTL DEF Spec
-----------------------------------------------------------------------------
(* What the invariant says.                                                *)

\* A dispatch is counted in its own window, once, or waits there.
THEOREM NoDispatchIsLost == Spec => []DispatchesConserved
<1>1. LoadInvariant => DispatchesConserved
  BY DEF LoadInvariant
<1> QED BY <1>1, LoadGeneratorInvariant, PTL

\* The controller evaluates no window twice; and those the publisher has recorded, as
\* it published them.
THEOREM EvaluatedAsPublished == Spec => []EvaluatesWhatWasPublished
<1>1. LoadInvariant => EvaluatesWhatWasPublished
  BY DEF LoadInvariant, StoreOK, EachOnce, AnswersOK, IsEvaluated, EvaluatesWhatWasPublished
<1> QED BY <1>1, LoadGeneratorInvariant, PTL

\* A run that returns and is accepted had every window evaluated with all of its
\* requests.
THEOREM AcceptedRunsObservedDemand == Spec => []AcceptedRunObservesDemand
<1>1. ASSUME LoadInvariant, main = "returned"
      PROVE  /\ Summary.recorded = Summary.scheduled
             /\ Len(evaluated) = Duration /\ Summary.published = Duration
             /\ \A w \in Windows : evaluated[w + 1] = Observation(w)
             /\ MatchesDispatchLog =>
                  \A w \in Windows : evaluated[w + 1].count = Cardinality(ScheduledIn(w))
  <2>1. publisher = "finished" /\ RowsIn({"logged"}) = Rows
    BY <1>1 DEF LoadInvariant, JoinedOK, RowsOK, RowsIn
  <2>2. /\ Len(evaluated) = Duration /\ records = Duration /\ Duration \in Nat
        /\ \A i \in 1..Len(evaluated) : evaluated[i] = Observation(i - 1)
    <3>1. /\ sequence = Duration /\ records = sequence /\ Duration \in Nat
          /\ latestSequence \in Int /\ latestSequence < Duration /\ InOrder
      BY <1>1, <2>1, RowsAndWindows
         DEF LoadInvariant, PublisherOK, StoreOK, StoreTyped, AnswersOK
    <3>2. TakenOfOwn = Duration /\ EvaluatedOfOwn = Duration
      BY <2>1, <3>1 DEF TakenOfOwn, EvaluatedOfOwn, Answered
    <3>3. latestSequence = TakenOfOwn - 1
      BY <2>1, <3>1, <3>2 DEF InOrder
    <3> QED BY <2>1, <3>1, <3>2, <3>3 DEF InOrder
  <2>3. Cardinality(RowsIn({"logged"})) = Len(Schedule)
    <3>1. PICK n : n = Len(Schedule)
      OBVIOUS
    <3>2. n \in Nat \ {0} /\ RowsIn({"logged"}) = 1..n
      BY <2>1, <3>1, RowsAndWindows
    <3>3. Cardinality(1..n) = n
      BY <3>2, FS_Interval
    <3> QED BY <3>1, <3>2, <3>3
  <2>4. ASSUME NEW w \in Windows PROVE evaluated[w + 1] = Observation(w)
    <3>1. w + 1 \in 1..Len(evaluated) /\ (w + 1) - 1 = w
      BY <2>2, RowsAndWindows
    <3> QED BY <2>2, <3>1
  <2>5. ASSUME MatchesDispatchLog, NEW w \in Windows
        PROVE  evaluated[w + 1].count = Cardinality(ScheduledIn(w))
    <3>1. ScheduledIn(w) \cap RowsIn({"logged"}) = ScheduledIn(w)
      BY <2>1 DEF ScheduledIn
    <3>2. evaluated[w + 1].count = published[w + 1]
      <4>1. evaluated[w + 1] = Observation(w)
        BY <2>4
      <4>2. Observation(w).count = published[w + 1]
        BY DEF Observation
      <4> QED BY <4>1, <4>2
    <3>3. published[w + 1] = Cardinality(ScheduledIn(w) \cap RowsIn({"logged"}))
      BY <2>5 DEF MatchesDispatchLog
    <3> QED BY <3>1, <3>2, <3>3
  <2> QED BY <2>2, <2>3, <2>4, <2>5 DEF Summary
<1>2. LoadInvariant => AcceptedRunObservesDemand
  BY <1>1 DEF AcceptedRunObservesDemand
<1> QED BY <1>2, LoadGeneratorInvariant, PTL

\* A dispatch noted within the grace period after its second is in time.
THEOREM PunctualDispatchesAreObserved == Spec => PunctualDispatchIsObserved
<1>1. ASSUME LoadInvariant, NEW r \in Rows,
             now < (Schedule[r].second + 1) * SecondTicks + GraceTicks
      PROVE  /\ Schedule[r].second >= sequence
             /\ ~(publisher = "finalized" /\ Schedule[r].second = sequence)
  <2>1. PICK w : w = Schedule[r].second
    OBVIOUS
  <2>2. w \in Windows /\ w \in Nat /\ Deadline(w) \in Nat
    BY <2>1, RowsAndWindows, DeadlineIsNat
  <2>3. now < Deadline(w) /\ now \in Nat /\ sequence \in Nat
    BY <1>1, <2>1 DEF Deadline, LoadInvariant, NotEarly, PublisherOK
  <2>4. ~ (w < sequence \/ (w = sequence /\ publisher # "sleeping"))
    BY <1>1, <2>2, <2>3 DEF LoadInvariant, NotEarly
  <2> QED BY <2>1, <2>2, <2>3, <2>4
<1>2. LoadInvariant =>
        [\A r \in Rows :
           /\ row[r] = "stamped" /\ row'[r] = "requesting"
           /\ now < (Schedule[r].second + 1) * SecondTicks + GraceTicks
           =>
             Schedule[r].second >= sequence /\ ~(publisher = "finalized" /\ Schedule[r].second = sequence)
          ]_vars
  BY <1>1
<1> QED BY <1>2, LoadGeneratorInvariant, PTL DEF PunctualDispatchIsObserved
-----------------------------------------------------------------------------
(* The readiness trials.                                                   *)

USE DEF trialVars, clusterVars, runnerVars, laptopVars

-----------------------------------------------------------------------------
(* The inductive invariant, in named parts.                                *)

Labels == {"unused", "reset", "settle", "baseline", "scale", "poll", "judge", "final",
           "undo0", "undo1", "exit0", "exit1"}
ProgressRows == [cell : Nat, trial : Trials, valid : BOOLEAN]

TrialTyped ==
  /\ replicas \in Nat /\ stage \in [Pods -> {"none", "created", "ready"}]
  /\ pc \in [Trials -> Labels] /\ of \in [Trials -> Nat]
  /\ baseline \in [Trials -> SUBSET Pods] /\ observed \in [Trials -> SUBSET Pods]
  /\ ready \in [Trials -> SUBSET Pods] /\ answered \in [Trials -> SUBSET Pods]
  /\ served \in [Trials -> SUBSET Pods] /\ disturbed \in [Trials -> BOOLEAN]
  /\ station \in {"idle", "waiting", "fetching", "stopped", "complete"}
  /\ cell \in Nat \ {0}
  /\ fetched \in [Trials -> SUBSET {"summary", "rest"}]
  /\ rows \in Seq(ProgressRows)

Early == {"unused", "reset", "settle", "baseline", "scale"}

\* A runner has seen nothing before it scales, and what it sees afterwards is new.
Measures(r) ==
  /\ pc[r] # "unused" => of[r] \in DOMAIN Cells
  /\ pc[r] \in Early => observed[r] = {} /\ ready[r] = {} /\ served[r] = {}
  /\ observed[r] \cap baseline[r] = {} /\ served[r] \subseteq observed[r]

\* While nobody interferes, the Deployment is where the runner believes it is: settled
\* on the one Pod of the baseline, and then only growing up to the target.
Undisturbed(r) ==
  /\ pc[r] = "settle" => replicas = 1
  /\ pc[r] \in {"baseline", "scale"} =>
       replicas = 1 /\ Cardinality(Live) = 1 /\ Live = ReadyPods
  /\ pc[r] = "scale" => baseline[r] = Live
  /\ pc[r] \in {"poll", "judge"} =>
       /\ replicas = Target(r) /\ Cardinality(Live) <= replicas
       /\ Cardinality(baseline[r]) = 1 /\ baseline[r] \cup ready[r] \subseteq ReadyPods

RunnerOK(r) == Measures(r) /\ (~disturbed[r] => Undisturbed(r))
RunnersOK == \A r \in Trials : RunnerOK(r)

\* The script waits for a trial of a cell that is not done yet.
WaitingOK ==
  station \in {"waiting", "fetching"} =>
    /\ cell \in 1..Len(Cells) /\ ~Completed(cell)
    /\ current \in Trials /\ pc[current] # "unused" /\ of[current] = cell
    /\ station = "fetching" => pc[current] = "exit0"

\* Evidence is fetched from runners that ended well, and the script has no cell
\* behind it that is not done.
ProgressOK ==
  /\ \A r \in Trials : fetched[r] # {} => pc[r] = "exit0"
  /\ \A c \in 1..(cell - 1) : Completed(c)
  /\ station = "complete" => cell > Len(Cells)

\* The first half of CountedTrialsAreSound.
CountedOK ==
  \A i \in DOMAIN rows : rows[i].valid =>
    /\ of[rows[i].trial] = rows[i].cell /\ pc[rows[i].trial] = "exit0"
    /\ \A j \in DOMAIN rows : rows[j].valid /\ rows[j].cell = rows[i].cell => i = j

TrialInvariant == TrialTyped /\ RunnersOK /\ WaitingOK /\ ProgressOK /\ CountedOK
-----------------------------------------------------------------------------
(* Facts about the cells, the Pods and the progress file.                  *)

\* A target is two to four replicas.
LEMMA Targets ==
  ASSUME NEW r \in Trials, of[r] \in DOMAIN Cells
  PROVE  Target(r) \in 2..4
<1>1. PICK c : c = Cells
  OBVIOUS
<1>2. of[r] \in 1..Len(c) /\ c \in Seq(2..4)
  BY <1>1, CellsAssumption, LenProperties
<1>3. c[of[r]] \in 2..4
  BY <1>2, ElementOfSeq
<1> QED BY <1>1, <1>3 DEF Target

\* Every set of Pods is finite.
LEMMA PodsAreFinite ==
  ASSUME NEW P, P \subseteq Pods
  PROVE  IsFiniteSet(P) /\ Cardinality(P) \in Nat
<1>1. IsFiniteSet(1..MaxPods)
  BY TrialBoundsAssumption, FS_Interval
<1>2. IsFiniteSet(P)
  BY <1>1, FS_Subset DEF Pods
<1> QED BY <1>2, FS_CardinalityType

\* Live and Ready Pods.
LEMMA LivePods ==
  /\ Live \subseteq Pods /\ ReadyPods \subseteq Live
  /\ Cardinality(Live) \in Nat /\ IsFiniteSet(Live)
<1>1. Live \subseteq Pods /\ ReadyPods \subseteq Live
  BY DEF Live, ReadyPods
<1> QED BY <1>1, PodsAreFinite

\* A added added to the progress file.
LEMMA AddedRow ==
  ASSUME TrialTyped, NEW r \in Trials, NEW verdict \in BOOLEAN, AddRow(r, verdict)
  PROVE  \E n \in Nat : /\ rows' \in Seq(ProgressRows) /\ DOMAIN rows = 1..n /\ DOMAIN rows' = 1..(n + 1)
                        /\ \A i \in 1..n : rows'[i] = rows[i]
                        /\ rows'[n + 1] = [cell |-> cell, trial |-> r, valid |-> verdict]
<1>1. PICK n, added : n = Len(rows) /\ added = [cell |-> cell, trial |-> r, valid |-> verdict]
  OBVIOUS
<1>2. n \in Nat /\ DOMAIN rows = 1..n /\ added \in ProgressRows /\ rows \in Seq(ProgressRows)
  BY <1>1, LenProperties DEF TrialTyped, ProgressRows
<1>3. rows' = Append(rows, added)
  BY <1>1 DEF AddRow
<1>4. /\ rows' \in Seq(ProgressRows) /\ Len(rows') = n + 1
      /\ (\A i \in 1..n : rows'[i] = rows[i]) /\ rows'[n + 1] = added
  BY <1>1, <1>2, <1>3, AppendProperties
<1>5. DOMAIN rows' = 1..(n + 1)
  BY <1>4, LenProperties
<1> QED BY <1>1, <1>2, <1>4, <1>5

-----------------------------------------------------------------------------
(* The runners.                                                            *)

\* A runner that stands still is all right, as long as the Pods stay what they are and
\* nobody scales without its knowing.
LEMMA Bystander ==
  ASSUME TrialTyped, NEW r \in Trials, RunnerOK(r), UNCHANGED stage,
         UNCHANGED <<pc[r], of[r], baseline[r], observed[r], ready[r], served[r]>>,
         \/ UNCHANGED <<replicas, disturbed[r]>>
         \/ r \in Running /\ disturbed'[r]
         \/ r \notin Running
  PROVE  RunnerOK(r)'
<1>1. UNCHANGED <<Live, ReadyPods>>
  BY DEF Live, ReadyPods
<1>2. Measures(r)'
  BY DEF RunnerOK, Measures
<1>3. ASSUME ~disturbed'[r] PROVE Undisturbed(r)'
  <2>1. CASE r \notin Running
    BY <2>1 DEF Running, Undisturbed
  <2>2. CASE UNCHANGED <<replicas, disturbed[r]>>
    BY <1>1, <1>3, <2>2 DEF RunnerOK, Undisturbed, Target
  <2> QED BY <1>3, <2>1, <2>2
<1> QED BY <1>2, <1>3 DEF RunnerOK

\* A runner that scales disturbs every other one at work.
LEMMA ScaleDisturbs ==
  ASSUME TrialTyped, NEW q \in Trials, NEW wanted, Scale(q, wanted)
  PROVE  /\ replicas' = wanted /\ disturbed'[q] = disturbed[q]
         /\ \A r \in Trials \ {q} : r \in Running => disturbed'[r]
BY DEF Scale, TrialTyped

\* The Deployment does nothing behind an undisturbed runner's back.
LEMMA DeploymentKeepsRunners ==
  ASSUME TrialTyped, RunnersOK, Deployment
  PROVE  RunnersOK'
<1> SUFFICES ASSUME NEW r \in Trials PROVE RunnerOK(r)'
  BY DEF RunnersOK
<1>1. RunnerOK(r) /\ UNCHANGED <<runnerVars, laptopVars>>
  BY DEF RunnersOK, Deployment, CreatePod, BecomeReady, DeletePod, LosePod
<1>2. Measures(r)'
  BY <1>1 DEF RunnerOK, Measures
<1>3. ASSUME ~disturbed[r] PROVE Undisturbed(r)
  BY <1>1, <1>3 DEF RunnerOK
<1>4. CASE CreatePod
  <2>1. PICK p \in Pods \ Live : stage' = [stage EXCEPT ![p] = "created"]
    BY <1>4 DEF CreatePod, Fresh
  <2>2. Live' = Live \cup {p} /\ ReadyPods' = ReadyPods
    BY <2>1 DEF Live, ReadyPods, TrialTyped
  <2>3. Cardinality(Live') = Cardinality(Live) + 1 /\ Cardinality(Live) \in Nat
    BY <2>1, <2>2, LivePods, FS_AddElement
  <2>4. Cardinality(Live) < replicas /\ replicas' = replicas /\ disturbed' = disturbed
        /\ replicas \in Nat
    BY <1>4 DEF CreatePod, TrialTyped
  <2>5. ASSUME ~disturbed'[r] PROVE Undisturbed(r)'
    <3>1. Undisturbed(r) /\ pc[r] \notin {"baseline", "scale"}
      BY <1>3, <2>3, <2>4, <2>5 DEF Undisturbed
    <3> QED BY <1>1, <2>2, <2>3, <2>4, <3>1 DEF Undisturbed, Target
  <2> QED BY <1>2, <2>5 DEF RunnerOK
<1>5. ASSUME NEW p \in Pods, BecomeReady(p) PROVE RunnerOK(r)'
  <2>1. stage[p] = "created" /\ stage' = [stage EXCEPT ![p] = "ready"]
        /\ UNCHANGED <<replicas, disturbed>>
    BY <1>5 DEF BecomeReady
  <2>2. Live' = Live /\ ReadyPods' = ReadyPods \cup {p} /\ p \in Live /\ p \notin ReadyPods
    BY <2>1 DEF Live, ReadyPods, TrialTyped
  <2>3. ASSUME ~disturbed'[r] PROVE Undisturbed(r)'
    <3>1. Undisturbed(r)
      BY <1>3, <2>1, <2>3
    <3>2. pc[r] \notin {"baseline", "scale"}
      BY <2>2, <3>1 DEF Undisturbed
    <3> QED BY <1>1, <2>1, <2>2, <3>1, <3>2 DEF Undisturbed, Target
  <2> QED BY <1>2, <2>3 DEF RunnerOK
<1>6. ASSUME NEW p \in Pods, DeletePod(p) PROVE RunnerOK(r)'
  <2>1. Cardinality(Live) > replicas /\ UNCHANGED <<replicas, disturbed>> /\ replicas \in Nat
        /\ Cardinality(Live) \in Nat
    BY <1>6, LivePods DEF DeletePod, TrialTyped
  <2>2. ASSUME ~disturbed'[r] PROVE Undisturbed(r)'
    <3>1. Undisturbed(r) /\ pc[r] \notin {"baseline", "scale", "poll", "judge"}
      BY <1>3, <2>1, <2>2 DEF Undisturbed
    <3> QED BY <1>1, <2>1, <3>1 DEF Undisturbed
  <2> QED BY <1>2, <2>2 DEF RunnerOK
<1>7. ASSUME NEW p \in Pods, LosePod(p) PROVE RunnerOK(r)'
  <2>1. ASSUME ~disturbed'[r] PROVE Undisturbed(r)'
    <3>1. pc[r] \in {"unused", "exit0", "exit1"}
      BY <1>7, <2>1 DEF LosePod, Running, TrialTyped
    <3> QED BY <1>1, <3>1 DEF Undisturbed
  <2> QED BY <1>2, <2>1 DEF RunnerOK
<1> QED BY <1>4, <1>5, <1>6, <1>7 DEF Deployment

\* What a step of one runner leaves alone.
LEMMA OthersStand ==
  ASSUME TrialTyped, NEW q \in Trials, RunnerStep(q) \/ TimeOut(q) \/ Raise(q) \/ Probe(q),
         NEW r \in Trials \ {q}
  PROVE  /\ UNCHANGED <<stage, of, laptopVars>>
         /\ UNCHANGED <<pc[r], baseline[r], observed[r], ready[r], served[r]>>
         /\ \/ UNCHANGED <<replicas, disturbed[r]>>
            \/ r \in Running /\ disturbed'[r]
            \/ r \notin Running
<1> USE DEF TrialTyped, Goto
<1>1. CASE Settle(q) \/ TakeBaseline(q) \/ Poll(q) \/ Judge(q) \/ WriteEvidence(q)
           \/ TimeOut(q) \/ Probe(q)
  BY <1>1 DEF Settle, TakeBaseline, Poll, Judge, WriteEvidence, TimeOut, Probe
<1>2. CASE ResetFirst(q) \/ ScaleUp(q)
  BY <1>2, ScaleDisturbs DEF ResetFirst, ScaleUp
<1>3. CASE Raise(q)
  BY <1>3, ScaleDisturbs DEF Raise
<1>4. CASE Undo(q)
  BY <1>4, ScaleDisturbs DEF Undo
<1> QED BY <1>1, <1>2, <1>3, <1>4 DEF RunnerStep

\* A step keeps what its own runner relies on.
LEMMA RunnerKeepsItself ==
  ASSUME TrialTyped, NEW q \in Trials, RunnerOK(q),
         RunnerStep(q) \/ TimeOut(q) \/ Raise(q) \/ Probe(q)
  PROVE  RunnerOK(q)'
<1> USE DEF TrialTyped, Goto
<1>1. UNCHANGED <<stage, of>> /\ UNCHANGED <<Live, ReadyPods>>
  BY DEF RunnerStep, ResetFirst, Settle, TakeBaseline, ScaleUp, Poll, Judge, WriteEvidence, Undo,
     TimeOut, Raise, Probe, Live, ReadyPods
<1>2. Measures(q) /\ (~disturbed[q] => Undisturbed(q))
  BY DEF RunnerOK
<1>3. CASE ResetFirst(q)
  <2>1. /\ pc[q] = "reset" /\ pc'[q] = "settle" /\ replicas' = 1
        /\ UNCHANGED <<baseline, observed, ready, served>>
    BY <1>3, ScaleDisturbs DEF ResetFirst
  <2> QED BY <1>1, <1>2, <2>1 DEF RunnerOK, Measures, Undisturbed, Early
<1>4. CASE Settle(q)
  <2>1. /\ pc[q] = "settle" /\ pc'[q] = "baseline" /\ Cardinality(Live) = 1 /\ Live = ReadyPods
        /\ UNCHANGED <<replicas, disturbed, baseline, observed, ready, served>>
    BY <1>4 DEF Settle
  <2> QED BY <1>1, <1>2, <2>1 DEF RunnerOK, Measures, Undisturbed, Early
<1>5. CASE TakeBaseline(q)
  <2>1. /\ pc[q] = "baseline" /\ pc'[q] = "scale" /\ baseline'[q] = Live
        /\ UNCHANGED <<replicas, disturbed, observed, ready, served>>
    BY <1>5, LivePods DEF TakeBaseline
  <2> QED BY <1>1, <1>2, <2>1 DEF RunnerOK, Measures, Undisturbed, Early
<1>6. CASE ScaleUp(q)
  <2>1. /\ pc[q] = "scale" /\ pc'[q] = "poll" /\ replicas' = Target(q)
        /\ disturbed'[q] = disturbed[q]
        /\ UNCHANGED <<baseline, observed, ready, served>>
    BY <1>6, ScaleDisturbs DEF ScaleUp
  <2>2. Target(q) \in 2..4
    BY <1>2, <2>1, Targets DEF Measures
  <2>3. Target(q)' = Target(q)
    BY <1>1 DEF Target
  <2> QED BY <1>1, <1>2, <2>1, <2>2, <2>3 DEF RunnerOK, Measures, Undisturbed, Early
<1>7. CASE Poll(q)
  <2>1. /\ pc[q] = "poll" /\ pc'[q] = "judge"
        /\ observed'[q] = observed[q] \cup (Live \ baseline[q])
        /\ ready'[q] = ready[q] \cup (ReadyPods \ baseline[q])
        /\ UNCHANGED <<replicas, disturbed, baseline, served>>
    BY <1>7 DEF Poll
  <2>2. Target(q)' = Target(q)
    BY <1>1 DEF Target
  <2> QED BY <1>1, <1>2, <2>1, <2>2 DEF RunnerOK, Measures, Undisturbed, Early
<1>8. CASE Judge(q)
  <2>1. /\ pc[q] = "judge" /\ pc'[q] \in {"final", "poll"}
        /\ served'[q] = served[q] \cup RecordsOfNewPods(q)
        /\ UNCHANGED <<replicas, disturbed, baseline, observed, ready>>
    BY <1>8 DEF Judge
  <2>2. Target(q)' = Target(q)
    BY <1>1 DEF Target
  <2> QED BY <1>1, <1>2, <2>1, <2>2 DEF RunnerOK, Measures, Undisturbed, Early, RecordsOfNewPods
<1>9. CASE Probe(q)
  <2>1. UNCHANGED <<pc, replicas, disturbed, baseline, observed, ready, served>>
    BY <1>9 DEF Probe
  <2> QED BY <1>1, <1>2, <2>1 DEF RunnerOK, Measures, Undisturbed, Target
<1>10. CASE WriteEvidence(q) \/ TimeOut(q) \/ Raise(q)
  <2>1. /\ pc[q] # "unused" /\ pc'[q] \in {"undo0", "undo1"}
        /\ UNCHANGED <<baseline, observed, ready, served>>
    BY <1>10 DEF WriteEvidence, TimeOut, Raise
  <2> QED BY <1>1, <1>2, <2>1 DEF RunnerOK, Measures, Undisturbed, Early
<1>11. CASE Undo(q)
  <2>1. /\ pc[q] # "unused" /\ pc'[q] \in {"exit0", "exit1"}
        /\ baseline'[q] = {} /\ observed'[q] = {} /\ ready'[q] = {} /\ served'[q] = {}
    BY <1>11 DEF Undo
  <2> QED BY <1>1, <1>2, <2>1 DEF RunnerOK, Measures, Undisturbed, Early
<1> QED BY <1>3, <1>4, <1>5, <1>6, <1>7, <1>8, <1>9, <1>10, <1>11 DEF RunnerStep

\* A step of one runner, and what it means for all of them.
LEMMA RunnersKeepRunners ==
  ASSUME TrialTyped, RunnersOK, NEW q \in Trials,
         RunnerStep(q) \/ TimeOut(q) \/ Raise(q) \/ Probe(q)
  PROVE  RunnersOK'
<1> SUFFICES ASSUME NEW r \in Trials PROVE RunnerOK(r)'
  BY DEF RunnersOK
<1>1. RunnerOK(r)
  BY DEF RunnersOK
<1>2. CASE r = q
  BY <1>1, <1>2, RunnerKeepsItself
<1>3. CASE r # q
  BY <1>1, <1>3, OthersStand, Bystander
<1> QED BY <1>2, <1>3

\* The script touches no runner but the one it starts, and that one has seen nothing.
LEMMA LaptopKeepsRunners ==
  ASSUME TrialTyped, RunnersOK, Laptop
  PROVE  RunnersOK'
<1> SUFFICES ASSUME NEW r \in Trials PROVE RunnerOK(r)'
  BY DEF RunnersOK
<1>1. RunnerOK(r)
  BY DEF RunnersOK
<1>2. CASE UNCHANGED <<clusterVars, runnerVars, disturbed>>
  BY <1>1, <1>2, Bystander
<1>3. CASE StartTrial
  <2>1. PICK q \in Trials :
          /\ pc[q] = "unused" /\ pc' = [pc EXCEPT ![q] = "reset"] /\ of' = [of EXCEPT ![q] = cell]
          /\ disturbed' = [disturbed EXCEPT ![q] = Running # {}]
    BY <1>3 DEF StartTrial, Goto
  <2>2. UNCHANGED <<replicas, stage, baseline, observed, ready, answered, served>>
        /\ cell <= Len(Cells)
    BY <1>3 DEF StartTrial
  <2>3. CASE r # q
    BY <1>1, <2>1, <2>2, <2>3, Bystander DEF TrialTyped
  <2>4. CASE r = q
    <3>1. cell \in DOMAIN Cells
      BY <2>2, CellsAssumption, LenProperties DEF TrialTyped
    <3>2. pc'[q] = "reset" /\ of'[q] = cell
      BY <2>1 DEF TrialTyped
    <3> QED BY <1>1, <2>1, <2>2, <2>4, <3>1, <3>2
            DEF RunnerOK, Measures, Undisturbed, Early
  <2> QED BY <2>3, <2>4
<1> QED BY <1>2, <1>3
        DEF Laptop, NextCell, CampaignComplete, RecoverTrial, RunnerReturns, FetchSummary, FetchRest,
            TrialFails, LaptopDies, Resume
-----------------------------------------------------------------------------
(* The campaign script.                                                    *)

\* What the Deployment and the runners do to the script: nothing, and a runner that has
\* ended well stays so.
LEMMA RunnersMoveOn ==
  ASSUME TrialTyped,
         Deployment \/ \E q \in Trials : RunnerStep(q) \/ TimeOut(q) \/ Raise(q) \/ Probe(q)
  PROVE  /\ UNCHANGED <<of, laptopVars>>
         /\ \A r \in Trials : /\ pc[r] = "exit0" => pc'[r] = "exit0"
                              /\ pc[r] # "unused" => pc'[r] # "unused"
<1> USE DEF TrialTyped, Goto
<1>1. CASE Deployment
  BY <1>1 DEF Deployment, CreatePod, BecomeReady, DeletePod, LosePod
<1>2. ASSUME NEW q \in Trials, RunnerStep(q) \/ TimeOut(q) \/ Raise(q) \/ Probe(q)
      PROVE  /\ UNCHANGED <<of, laptopVars>>
             /\ \A r \in Trials : /\ pc[r] = "exit0" => pc'[r] = "exit0"
                                  /\ pc[r] # "unused" => pc'[r] # "unused"
  <2>1. UNCHANGED <<of, laptopVars>> /\ (\A r \in Trials \ {q} : pc'[r] = pc[r])
    BY <1>2 DEF RunnerStep, ResetFirst, Settle, TakeBaseline, ScaleUp, Poll, Judge, WriteEvidence,
       Undo, TimeOut, Raise, Probe
  <2>2. pc'[q] = pc[q] \/ (pc[q] # "exit0" /\ pc'[q] # "unused")
    BY <1>2 DEF RunnerStep, ResetFirst, Settle, TakeBaseline, ScaleUp, Poll, Judge, WriteEvidence,
       Undo, TimeOut, Raise, Probe
  <2> QED BY <2>1, <2>2
<1> QED BY <1>1, <1>2

\* A row more keeps the accounts, when it is not a second one of a cell and its trial
\* ended well.
LEMMA RowStep ==
  ASSUME TrialTyped, CountedOK, NEW r \in Trials, NEW verdict \in BOOLEAN, AddRow(r, verdict),
         UNCHANGED <<pc, of>>,
         verdict => of[r] = cell /\ pc[r] = "exit0" /\ ~Completed(cell)
  PROVE  rows' \in Seq(ProgressRows) /\ CountedOK' /\ \A c : Completed(c) => Completed(c)'
<1>1. PICK n \in Nat : /\ rows' \in Seq(ProgressRows) /\ DOMAIN rows = 1..n /\ DOMAIN rows' = 1..(n + 1)
                       /\ \A i \in 1..n : rows'[i] = rows[i]
                       /\ rows'[n + 1] = [cell |-> cell, trial |-> r, valid |-> verdict]
  BY AddedRow
<1>2. ASSUME NEW c, Completed(c) PROVE Completed(c)'
  <2>1. PICK i \in 1..n : rows[i].cell = c /\ rows[i].valid
    BY <1>1, <1>2 DEF Completed
  <2>2. i \in DOMAIN rows' /\ rows'[i] = rows[i]
    BY <1>1, <2>1
  <2> QED BY <2>1, <2>2 DEF Completed
<1>3. \A i \in 1..(n + 1) : i \in 1..n \/ i = n + 1
  BY <1>1
<1>4. ASSUME NEW i \in 1..(n + 1), rows'[i].valid
      PROVE  of[rows'[i].trial] = rows'[i].cell /\ pc[rows'[i].trial] = "exit0"
  <2>1. CASE i \in 1..n
    BY <1>1, <1>4, <2>1 DEF CountedOK
  <2>2. CASE i = n + 1
    BY <1>1, <1>4, <2>2
  <2> QED BY <1>3, <2>1, <2>2
<1>5. ASSUME NEW i \in 1..n, rows[i].valid, verdict PROVE rows[i].cell # cell
  BY <1>1, <1>5 DEF Completed
<1>6. ASSUME NEW i \in 1..(n + 1), NEW j \in 1..(n + 1), rows'[i].valid, rows'[j].valid,
             rows'[j].cell = rows'[i].cell
      PROVE  i = j
  <2>1. CASE i \in 1..n /\ j \in 1..n
    BY <1>1, <1>6, <2>1 DEF CountedOK
  <2>2. CASE i = n + 1 /\ j \in 1..n
    BY <1>1, <1>5, <1>6, <2>2
  <2>3. CASE j = n + 1 /\ i \in 1..n
    BY <1>1, <1>5, <1>6, <2>3
  <2> QED BY <1>3, <2>1, <2>2, <2>3
<1> QED BY <1>1, <1>2, <1>4, <1>6 DEF CountedOK

\* Every step of the script keeps its accounts.
LEMMA LaptopKeepsAccounts ==
  ASSUME TrialTyped, WaitingOK, ProgressOK, CountedOK, Laptop
  PROVE  rows' \in Seq(ProgressRows) /\ WaitingOK' /\ ProgressOK' /\ CountedOK'
<1>1. CASE NextCell
  <2>1. /\ Completed(cell) /\ cell' = cell + 1 /\ cell \in Nat \ {0} /\ station = "idle"
        /\ UNCHANGED <<pc, of, station, current, fetched, rows>>
    BY <1>1 DEF NextCell, TrialTyped
  <2>2. \A c \in 1..(cell' - 1) : c \in 1..(cell - 1) \/ c = cell
    BY <2>1
  <2>3. \A c : Completed(c)' <=> Completed(c)
    BY <2>1 DEF Completed
  <2> QED BY <2>1, <2>2, <2>3 DEF WaitingOK, ProgressOK, CountedOK, TrialTyped
<1>2. CASE CampaignComplete
  <2>1. /\ cell > Len(Cells) /\ station' = "complete"
        /\ UNCHANGED <<pc, of, cell, current, fetched, rows>>
    BY <1>2 DEF CampaignComplete
  <2>2. \A c : Completed(c)' <=> Completed(c)
    BY <2>1 DEF Completed
  <2> QED BY <2>1, <2>2 DEF WaitingOK, ProgressOK, CountedOK, TrialTyped
<1>3. CASE RecoverTrial
  <2>1. PICK r \in DirectoriesOf(cell) : (\A q \in DirectoriesOf(cell) : q <= r) /\ AddRow(r, TRUE)
    BY <1>3 DEF RecoverTrial
  <2>2. PICK s \in DirectoriesOf(cell) :
          "summary" \in fetched[s] /\ \A q \in DirectoriesOf(cell) : q <= s
    BY <1>3 DEF RecoverTrial, Recoverable, DirectoriesOf
  <2>3. r \in Trials /\ s \in Trials /\ r \in Nat /\ s \in Nat /\ of[r] = cell
    BY <2>1, <2>2, TrialBoundsAssumption DEF DirectoriesOf, Trials
  <2>4. r = s
    BY <2>1, <2>2, <2>3
  <2>5. pc[r] = "exit0"
    BY <2>2, <2>3, <2>4 DEF ProgressOK
  <2>6. ~Completed(cell) /\ station = "idle" /\ UNCHANGED <<pc, of, station, cell, current, fetched>>
    BY <1>3 DEF RecoverTrial
  <2>7. rows' \in Seq(ProgressRows) /\ CountedOK' /\ \A c : Completed(c) => Completed(c)'
    BY <2>1, <2>3, <2>5, <2>6, RowStep
  <2> QED BY <2>6, <2>7 DEF WaitingOK, ProgressOK
<1>4. CASE StartTrial
  <2>1. PICK q \in Trials :
          /\ pc[q] = "unused" /\ pc' = [pc EXCEPT ![q] = "reset"] /\ of' = [of EXCEPT ![q] = cell]
          /\ current' = q /\ station' = "waiting"
    BY <1>4 DEF StartTrial, Goto
  <2>2. UNCHANGED <<cell, fetched, rows>> /\ ~Completed(cell) /\ cell <= Len(Cells)
    BY <1>4 DEF StartTrial
  <2>3. pc'[q] = "reset" /\ of'[q] = cell
        /\ \A r \in Trials \ {q} : pc'[r] = pc[r] /\ of'[r] = of[r]
    BY <2>1 DEF TrialTyped
  <2>4. \A c : Completed(c)' <=> Completed(c)
    BY <2>2 DEF Completed
  <2>5. WaitingOK'
    <3>1. cell \in 1..Len(Cells)
      BY <2>2, CellsAssumption, LenProperties DEF TrialTyped
    <3> QED BY <2>1, <2>2, <2>3, <2>4, <3>1 DEF WaitingOK
  <2>6. ProgressOK'
    <3>1. \A r \in Trials : fetched'[r] # {} => pc'[r] = "exit0"
      BY <2>1, <2>2, <2>3 DEF ProgressOK
    <3> QED BY <2>1, <2>2, <2>4, <3>1 DEF ProgressOK
  <2>7. CountedOK'
    <3>1. \A i \in DOMAIN rows : rows[i].trial \in Trials
      <4>1. PICK R : R = rows
        OBVIOUS
      <4>2. R \in Seq(ProgressRows) /\ DOMAIN R = 1..Len(R)
        BY <4>1, LenProperties DEF TrialTyped
      <4>3. \A i \in DOMAIN R : R[i] \in ProgressRows
        BY <4>2, ElementOfSeq
      <4> QED BY <4>1, <4>3 DEF ProgressRows
    <3>2. ASSUME NEW i \in DOMAIN rows, rows[i].valid
          PROVE  of'[rows[i].trial] = rows[i].cell /\ pc'[rows[i].trial] = "exit0"
      <4>1. pc[rows[i].trial] = "exit0" /\ of[rows[i].trial] = rows[i].cell
        BY <3>2 DEF CountedOK
      <4> QED BY <2>1, <2>3, <3>1, <4>1
    <3> QED BY <2>2, <3>2 DEF CountedOK
  <2> QED BY <2>2, <2>5, <2>6, <2>7 DEF TrialTyped
<1>5. CASE RunnerReturns
  <2>1. /\ station = "waiting" /\ pc[current] = "exit0"
        /\ UNCHANGED <<pc, of, cell, current, fetched, rows>> /\ station' = "fetching"
    BY <1>5 DEF RunnerReturns
  <2>2. \A c : Completed(c)' <=> Completed(c)
    BY <2>1 DEF Completed
  <2> QED BY <2>1, <2>2 DEF WaitingOK, ProgressOK, CountedOK, TrialTyped
<1>6. CASE FetchSummary
  <2>1. /\ station = "fetching" /\ fetched' = [fetched EXCEPT ![current] = {"summary"}]
        /\ UNCHANGED <<pc, of, station, cell, current, rows>>
    BY <1>6 DEF FetchSummary
  <2>2. current \in Trials /\ pc[current] = "exit0"
    BY <2>1 DEF WaitingOK
  <2>3. \A r \in Trials : fetched'[r] # {} => pc'[r] = "exit0"
    BY <2>1, <2>2 DEF ProgressOK, TrialTyped
  <2>4. \A c : Completed(c)' <=> Completed(c)
    BY <2>1 DEF Completed
  <2> QED BY <2>1, <2>3, <2>4 DEF WaitingOK, ProgressOK, CountedOK, TrialTyped
<1>7. CASE FetchRest
  <2>1. /\ station = "fetching" /\ fetched' = [fetched EXCEPT ![current] = {"summary", "rest"}]
        /\ AddRow(current, TRUE) /\ station' = "idle" /\ UNCHANGED <<pc, of, cell, current>>
    BY <1>7 DEF FetchRest
  <2>2. current \in Trials /\ pc[current] = "exit0" /\ of[current] = cell /\ ~Completed(cell)
    BY <2>1 DEF WaitingOK
  <2>3. \A r \in Trials : fetched'[r] # {} => pc'[r] = "exit0"
    BY <2>1, <2>2 DEF ProgressOK, TrialTyped
  <2>4. rows' \in Seq(ProgressRows) /\ CountedOK' /\ \A c : Completed(c) => Completed(c)'
    BY <2>1, <2>2, RowStep
  <2> QED BY <2>1, <2>3, <2>4 DEF WaitingOK, ProgressOK
<1>8. CASE TrialFails
  <2>1. /\ station \in {"waiting", "fetching"} /\ AddRow(current, FALSE) /\ station' = "stopped"
        /\ UNCHANGED <<pc, of, cell, current, fetched>>
    BY <1>8 DEF TrialFails
  <2>2. current \in Trials
    BY <2>1 DEF WaitingOK
  <2>3. rows' \in Seq(ProgressRows) /\ CountedOK' /\ \A c : Completed(c) => Completed(c)'
    BY <2>1, <2>2, RowStep
  <2> QED BY <2>1, <2>3 DEF WaitingOK, ProgressOK
<1>9. CASE LaptopDies \/ Resume
  <2>1. /\ station' \in {"stopped", "idle"} /\ UNCHANGED <<pc, of, fetched, rows>>
        /\ (cell' = cell \/ cell' = 1)
    BY <1>9 DEF LaptopDies, Resume
  <2>2. \A c : Completed(c)' <=> Completed(c)
    BY <2>1 DEF Completed
  <2>3. \A c \in 1..(cell' - 1) : c \in 1..(cell - 1)
    BY <2>1 DEF TrialTyped
  <2> QED BY <2>1, <2>2, <2>3 DEF WaitingOK, ProgressOK, CountedOK, TrialTyped
<1> QED BY <1>1, <1>2, <1>3, <1>4, <1>5, <1>6, <1>7, <1>8, <1>9 DEF Laptop
-----------------------------------------------------------------------------
(* The invariant holds in every state.                                     *)

LEMMA TrialInvariantInit == TrialInit => TrialInvariant
<1> SUFFICES ASSUME TrialInit PROVE TrialInvariant
  OBVIOUS
<1>1. rows \in Seq(ProgressRows) /\ DOMAIN rows = {}
  BY EmptySeq, LenProperties DEF TrialInit
<1>2. TrialTyped
  BY <1>1 DEF TrialInit, TrialTyped, Labels
<1>3. RunnersOK
  BY DEF TrialInit, RunnersOK, RunnerOK, Measures, Undisturbed, Early
<1>4. WaitingOK /\ ProgressOK /\ CountedOK
  BY <1>1 DEF TrialInit, WaitingOK, ProgressOK, CountedOK
<1> QED BY <1>2, <1>3, <1>4 DEF TrialInvariant

\* Every variable stays in its range.
LEMMA TypeStep ==
  ASSUME TrialTyped, RunnersOK, WaitingOK, ProgressOK, CountedOK, TrialNext
  PROVE  TrialTyped'
<1>1. CASE Deployment
  <2>1. stage' \in [Pods -> {"none", "created", "ready"}] /\ disturbed' \in [Trials -> BOOLEAN]
    <3>1. stage \in [Pods -> {"none", "created", "ready"}] /\ disturbed \in [Trials -> BOOLEAN]
      BY DEF TrialTyped
    <3>2. CASE CreatePod
      <4>1. disturbed' = disturbed /\ \E p \in Pods : stage' = [stage EXCEPT ![p] = "created"]
        BY <3>2 DEF CreatePod, Fresh
      <4> QED BY <3>1, <4>1
    <3>3. ASSUME NEW p \in Pods, BecomeReady(p) \/ DeletePod(p)
          PROVE  /\ stage' \in [Pods -> {"none", "created", "ready"}]
                 /\ disturbed' \in [Trials -> BOOLEAN]
      BY <3>1, <3>3 DEF BecomeReady, DeletePod
    <3>4. ASSUME NEW p \in Pods, LosePod(p)
          PROVE  /\ stage' \in [Pods -> {"none", "created", "ready"}]
                 /\ disturbed' \in [Trials -> BOOLEAN]
      BY <3>1, <3>4 DEF LosePod
    <3> QED BY <1>1, <3>2, <3>3, <3>4 DEF Deployment
  <2>2. UNCHANGED <<replicas, runnerVars, laptopVars>>
    BY <1>1 DEF Deployment, CreatePod, BecomeReady, DeletePod, LosePod
  <2> QED BY <2>1, <2>2 DEF TrialTyped
<1>2. ASSUME NEW q \in Trials, RunnerStep(q) \/ TimeOut(q) \/ Raise(q) \/ Probe(q)
      PROVE  TrialTyped'
  <2>1. ASSUME NEW wanted \in Nat, Scale(q, wanted)
        PROVE  replicas' \in Nat /\ disturbed' \in [Trials -> BOOLEAN]
    <3>1. replicas' \in Nat
      BY <2>1 DEF Scale
    <3>2. disturbed' = [r \in Trials |-> disturbed[r] \/ r \in Running \ {q}]
      BY <2>1 DEF Scale
    <3>3. disturbed' \in [Trials -> BOOLEAN]
      BY <3>2
    <3> QED BY <3>1, <3>3
  <2>2. pc[q] = "scale" => Target(q) \in Nat
    <3>0. RunnersOK => (pc[q] # "unused" => of[q] \in DOMAIN Cells)
      BY DEF RunnersOK, RunnerOK, Measures
    <3>1. pc[q] = "scale" => Target(q) \in 2..4
      BY <3>0, Targets
    <3> QED BY <3>1
  <2>3. pc' \in [Trials -> Labels]
    <3>1. (\E label \in Labels : pc' = [pc EXCEPT ![q] = label]) \/ pc' = pc
      <4>1. ResetFirst(q) \/ Settle(q) \/ TakeBaseline(q) \/ ScaleUp(q)
            => \E label \in Labels : pc' = [pc EXCEPT ![q] = label]
        BY DEF ResetFirst, Settle, TakeBaseline, ScaleUp, Goto, Labels
      <4>2. Poll(q) \/ Judge(q) \/ WriteEvidence(q)
            => (\E label \in Labels : pc' = [pc EXCEPT ![q] = label]) \/ pc' = pc
        BY DEF Poll, Judge, WriteEvidence, Goto, Labels
      <4>3. Undo(q) \/ TimeOut(q) \/ Raise(q)
            => \E label \in Labels : pc' = [pc EXCEPT ![q] = label]
        BY DEF Undo, TimeOut, Raise, Goto, Labels
      <4>4. Probe(q) => pc' = pc
        BY DEF Probe
      <4> QED BY <1>2, <4>1, <4>2, <4>3, <4>4 DEF RunnerStep
    <3>2. pc \in [Trials -> Labels]
      BY DEF TrialTyped
    <3> QED BY <3>1, <3>2
  <2>4. /\ baseline' \in [Trials -> SUBSET Pods] /\ observed' \in [Trials -> SUBSET Pods]
        /\ ready' \in [Trials -> SUBSET Pods] /\ answered' \in [Trials -> SUBSET Pods]
        /\ served' \in [Trials -> SUBSET Pods]
    <3>1. Live \subseteq Pods /\ ReadyPods \subseteq Pods
          /\ (TrialTyped => RecordsOfNewPods(q) \subseteq Pods)
      BY DEF Live, ReadyPods, RecordsOfNewPods, TrialTyped
    <3>2. CASE TakeBaseline(q) \/ Poll(q) \/ Judge(q) \/ Probe(q)
      <4>1. /\ TakeBaseline(q) => baseline' = [baseline EXCEPT ![q] = Live]
                                  /\ UNCHANGED <<observed, ready, answered, served>>
            /\ Poll(q) => /\ observed' = [observed EXCEPT ![q] = observed[q] \cup (Live \ baseline[q])]
                          /\ ready' = [ready EXCEPT ![q] = ready[q] \cup (ReadyPods \ baseline[q])]
                          /\ UNCHANGED <<baseline, answered, served>>
            /\ Judge(q) => /\ served' = [served EXCEPT ![q] = served[q] \cup RecordsOfNewPods(q)]
                           /\ UNCHANGED <<baseline, observed, ready, answered>>
        BY DEF TakeBaseline, Poll, Judge
      <4>2. Probe(q) => /\ \E p \in ReadyPods : answered' = [answered EXCEPT ![q] = answered[q] \cup {p}]
                        /\ UNCHANGED <<baseline, observed, ready, served>>
        BY DEF Probe
      <4>3. CASE TakeBaseline(q)
        BY <3>1, <4>1, <4>3 DEF TrialTyped
      <4>4. CASE Poll(q)
        <5>1. observed[q] \cup (Live \ baseline[q]) \subseteq Pods
              /\ ready[q] \cup (ReadyPods \ baseline[q]) \subseteq Pods
          BY <3>1 DEF TrialTyped
        <5>2. observed' \in [Trials -> SUBSET Pods]
          BY <4>1, <4>4, <5>1 DEF TrialTyped
        <5>3. ready' \in [Trials -> SUBSET Pods]
          BY <4>1, <4>4, <5>1 DEF TrialTyped
        <5> QED BY <4>1, <4>4, <5>2, <5>3 DEF TrialTyped
      <4>5. CASE Judge(q)
        <5>1. served[q] \cup RecordsOfNewPods(q) \subseteq Pods
          BY <3>1 DEF TrialTyped
        <5>2. served' \in [Trials -> SUBSET Pods]
          BY <4>1, <4>5, <5>1 DEF TrialTyped
        <5> QED BY <4>1, <4>5, <5>2 DEF TrialTyped
      <4>6. CASE Probe(q)
        <5>1. PICK p \in ReadyPods : answered' = [answered EXCEPT ![q] = answered[q] \cup {p}]
          BY <4>2, <4>6
        <5>2. answered[q] \cup {p} \subseteq Pods
          BY <3>1, <5>1 DEF TrialTyped
        <5> QED BY <4>2, <4>6, <5>1, <5>2 DEF TrialTyped
      <4> QED BY <3>2, <4>3, <4>4, <4>5, <4>6
    <3>3. CASE Undo(q)
      BY <3>3 DEF Undo, TrialTyped
    <3>4. CASE ResetFirst(q) \/ Settle(q) \/ ScaleUp(q) \/ WriteEvidence(q) \/ TimeOut(q) \/ Raise(q)
      BY <3>4 DEF ResetFirst, Settle, ScaleUp, WriteEvidence, TimeOut, Raise, TrialTyped
    <3> QED BY <1>2, <3>2, <3>3, <3>4 DEF RunnerStep
  <2>5. replicas' \in Nat /\ disturbed' \in [Trials -> BOOLEAN]
    <3>1. CASE ResetFirst(q) \/ ScaleUp(q) \/ Undo(q)
      BY <2>1, <2>2, <3>1 DEF ResetFirst, ScaleUp, Undo, TrialTyped
    <3>2. CASE Raise(q)
      BY <2>1, <2>2, <3>2 DEF Raise, TrialTyped
    <3>3. CASE Settle(q) \/ TakeBaseline(q) \/ Poll(q) \/ Judge(q) \/ WriteEvidence(q)
               \/ TimeOut(q) \/ Probe(q)
      BY <3>3 DEF Settle, TakeBaseline, Poll, Judge, WriteEvidence, TimeOut, Probe, TrialTyped
    <3> QED BY <1>2, <3>1, <3>2, <3>3 DEF RunnerStep
  <2>6. stage' = stage /\ UNCHANGED <<of, laptopVars>>
    BY <1>2 DEF RunnerStep, ResetFirst, Settle, TakeBaseline, ScaleUp, Poll, Judge, WriteEvidence,
       Undo, TimeOut, Raise, Probe
  <2> QED BY <2>3, <2>4, <2>5, <2>6 DEF TrialTyped
<1>3. CASE Laptop
  <2>1. rows' \in Seq(ProgressRows)
    BY <1>3, LaptopKeepsAccounts
  <2>2. CASE StartTrial
    <3>1. PICK q \in Trials :
            /\ pc' = [pc EXCEPT ![q] = "reset"] /\ of' = [of EXCEPT ![q] = cell]
            /\ disturbed' = [disturbed EXCEPT ![q] = Running # {}]
      BY <2>2 DEF StartTrial, Goto
    <3>2. pc' \in [Trials -> Labels] /\ of' \in [Trials -> Nat]
          /\ disturbed' \in [Trials -> BOOLEAN]
      BY <3>1 DEF TrialTyped, Labels
    <3>3. /\ UNCHANGED <<replicas, stage, baseline, observed, ready, answered, served>>
          /\ UNCHANGED <<cell, fetched, rows>> /\ station' = "waiting"
      BY <2>2 DEF StartTrial
    <3> QED BY <3>2, <3>3 DEF TrialTyped
  <2>3. CASE FetchSummary \/ FetchRest
    <3>1. PICK what \in SUBSET {"summary", "rest"} :
            fetched' = [fetched EXCEPT ![current] = what]
      BY <2>3 DEF FetchSummary, FetchRest
    <3>2. fetched' \in [Trials -> SUBSET {"summary", "rest"}]
      BY <3>1 DEF TrialTyped
    <3>3. /\ UNCHANGED <<clusterVars, runnerVars, disturbed, cell>>
          /\ station' \in {station, "idle"}
      BY <2>3 DEF FetchSummary, FetchRest
    <3> QED BY <2>1, <3>2, <3>3 DEF TrialTyped
  <2>4. CASE \/ NextCell \/ CampaignComplete \/ RecoverTrial \/ RunnerReturns
             \/ TrialFails \/ LaptopDies \/ Resume
    <3>1. /\ UNCHANGED <<clusterVars, runnerVars, disturbed, fetched>>
          /\ station' \in {station, "complete", "fetching", "stopped", "idle"}
          /\ cell' \in {cell, cell + 1, 1}
      BY <2>4 DEF NextCell, CampaignComplete, RecoverTrial, RunnerReturns, TrialFails, LaptopDies,
         Resume
    <3> QED BY <2>1, <3>1 DEF TrialTyped
  <2> QED BY <1>3, <2>2, <2>3, <2>4 DEF Laptop
<1> QED BY <1>1, <1>2, <1>3 DEF TrialNext

LEMMA TrialInvariantStep == TrialInvariant /\ [TrialNext]_trialVars => TrialInvariant'
<1> SUFFICES ASSUME TrialInvariant, [TrialNext]_trialVars PROVE TrialInvariant'
  OBVIOUS
<1>1. CASE UNCHANGED trialVars
  <2>1. TrialTyped'
    BY <1>1 DEF TrialInvariant, TrialTyped
  <2>2. RunnersOK'
    BY <1>1, Bystander DEF TrialInvariant, RunnersOK
  <2>3. WaitingOK' /\ ProgressOK' /\ CountedOK'
    BY <1>1 DEF TrialInvariant, WaitingOK, ProgressOK, CountedOK, Completed
  <2> QED BY <2>1, <2>2, <2>3 DEF TrialInvariant
<1>2. CASE TrialNext
  <2>1. TrialTyped'
    BY <1>2, TypeStep DEF TrialInvariant
  <2>2. RunnersOK'
    BY <1>2, DeploymentKeepsRunners, RunnersKeepRunners, LaptopKeepsRunners
       DEF TrialInvariant, TrialNext
  <2>3. WaitingOK' /\ ProgressOK' /\ CountedOK'
    <3>1. CASE Laptop
      BY <3>1, LaptopKeepsAccounts DEF TrialInvariant
    <3>2. CASE Deployment \/ \E q \in Trials : RunnerStep(q) \/ TimeOut(q) \/ Raise(q) \/ Probe(q)
      <4>1. /\ UNCHANGED <<of, laptopVars>>
            /\ \A r \in Trials : /\ pc[r] = "exit0" => pc'[r] = "exit0"
                                 /\ pc[r] # "unused" => pc'[r] # "unused"
        BY <3>2, RunnersMoveOn DEF TrialInvariant
      <4>2. \A c : Completed(c)' <=> Completed(c)
        BY <4>1 DEF Completed
      <4>3. \A i \in DOMAIN rows : rows[i].trial \in Trials
        <5>1. PICK R : R = rows
          OBVIOUS
        <5>2. R \in Seq(ProgressRows) /\ DOMAIN R = 1..Len(R)
          BY <5>1, LenProperties DEF TrialInvariant, TrialTyped
        <5>3. \A i \in DOMAIN R : R[i] \in ProgressRows
          BY <5>2, ElementOfSeq
        <5> QED BY <5>1, <5>3 DEF ProgressRows
      <4> QED BY <4>1, <4>2, <4>3 DEF TrialInvariant, WaitingOK, ProgressOK, CountedOK
    <3> QED BY <1>2, <3>1, <3>2 DEF TrialNext
  <2> QED BY <2>1, <2>2, <2>3 DEF TrialInvariant
<1> QED BY <1>1, <1>2

LEMMA TrialInvariantHolds == TrialSpec => []TrialInvariant
BY TrialInvariantInit, TrialInvariantStep, PTL DEF TrialSpec

\* Every cell has at most one valid row, of a trial of that cell that ended without an
\* error, and a completed campaign has one for each.
THEOREM TrialsAreCountedOnce == TrialSpec => []CountedTrialsAreSound
<1>1. TrialInvariant => CountedTrialsAreSound
  <2> SUFFICES ASSUME TrialInvariant PROVE CountedTrialsAreSound
    OBVIOUS
  <2>1. CountedOK
    BY DEF TrialInvariant
  <2>2. ASSUME station = "complete", NEW c \in 1..Len(Cells)
        PROVE  \E i \in DOMAIN rows : rows[i].cell = c /\ rows[i].valid
    <3>1. Len(Cells) \in Nat /\ cell \in Nat /\ cell > Len(Cells)
      BY <2>2, CellsAssumption, LenProperties DEF TrialInvariant, TrialTyped, ProgressOK
    <3>2. c \in 1..(cell - 1)
      BY <3>1
    <3> QED BY <3>2 DEF TrialInvariant, ProgressOK, Completed
  <2> QED BY <2>1, <2>2 DEF CountedTrialsAreSound, CountedOK
<1> QED BY <1>1, TrialInvariantHolds, PTL

\* The verdict of a runner.
LEMMA VerdictStep ==
  TrialInvariant /\ [TrialNext]_trialVars =>
    [\A r \in Trials : pc[r] = "judge" /\ pc'[r] = "final" =>
       /\ Cardinality(served'[r]) = Target(r) - 1
       /\ served'[r] = ready[r] /\ served'[r] \cap baseline[r] = {}
       /\ ~disturbed[r] => ReadyPods = baseline[r] \cup served'[r]
                            /\ Cardinality(ReadyPods) = Target(r)]_trialVars
<1> SUFFICES ASSUME TrialInvariant, TrialNext, NEW r \in Trials, pc[r] = "judge", pc'[r] = "final"
             PROVE  /\ Cardinality(served'[r]) = Target(r) - 1
                    /\ served'[r] = ready[r] /\ served'[r] \cap baseline[r] = {}
                    /\ ~disturbed[r] => ReadyPods = baseline[r] \cup served'[r]
                                         /\ Cardinality(ReadyPods) = Target(r)
  OBVIOUS
<1> USE DEF TrialInvariant, TrialTyped
<1>1. Judge(r)
  <2>1. ~Deployment /\ ~Laptop
    BY DEF Deployment, CreatePod, BecomeReady, DeletePod, LosePod, Laptop, NextCell,
       CampaignComplete, RecoverTrial, StartTrial, RunnerReturns, FetchSummary, FetchRest,
       TrialFails, LaptopDies, Resume, Goto
  <2>2. PICK q \in Trials : RunnerStep(q) \/ TimeOut(q) \/ Raise(q) \/ Probe(q)
    BY <2>1 DEF TrialNext
  <2>3. q = r
    BY <2>2, OthersStand
  <2> QED BY <2>2, <2>3 DEF RunnerStep, ResetFirst, Settle, TakeBaseline, ScaleUp, Poll, Judge,
          WriteEvidence, Undo, TimeOut, Raise, Probe, Goto
<1>2. /\ served'[r] = served[r] \cup RecordsOfNewPods(r)
      /\ AllReady(r) /\ Cardinality(served'[r]) = Target(r) - 1
  BY <1>1 DEF Judge, Goto
<1>3. Measures(r) /\ (~disturbed[r] => Undisturbed(r))
  BY DEF RunnersOK, RunnerOK
<1>4. served'[r] \subseteq observed[r] /\ observed[r] \subseteq Pods
  BY <1>2, <1>3 DEF RecordsOfNewPods, Measures
<1>5. served'[r] = observed[r]
  <2>1. PICK S, T : S = observed[r] /\ T = served'[r]
    OBVIOUS
  <2>2. IsFiniteSet(S) /\ T \in SUBSET S /\ Cardinality(S) = Cardinality(T)
    BY <1>2, <1>4, <2>1, PodsAreFinite DEF AllReady
  <2> QED BY <2>1, <2>2, FS_Subset
<1>6. served'[r] = ready[r] /\ served'[r] \cap baseline[r] = {}
  BY <1>2, <1>3, <1>5 DEF AllReady, Measures
<1>7. ASSUME ~disturbed[r]
      PROVE  ReadyPods = baseline[r] \cup served'[r] /\ Cardinality(ReadyPods) = Target(r)
  <2>1. PICK B, S, U : B = baseline[r] /\ S = served'[r] /\ U = B \cup S
    OBVIOUS
  <2>2. Target(r) \in 2..4
    BY <1>3, Targets DEF Measures
  <2>3. /\ Cardinality(Live) <= Target(r) /\ Cardinality(B) = 1
        /\ B \cup ready[r] \subseteq ReadyPods
    BY <1>3, <1>7, <2>1 DEF Undisturbed
  <2>4. B \cap S = {} /\ U \subseteq ReadyPods
    BY <1>6, <2>1, <2>3
  <2>5. IsFiniteSet(B) /\ IsFiniteSet(S)
    BY <1>4, <2>1, PodsAreFinite
  <2>6. Cardinality(U) = Cardinality(B) + Cardinality(S) - Cardinality({})
    <3>1. Cardinality(B \cup S) = Cardinality(B) + Cardinality(S) - Cardinality(B \cap S)
      BY <2>5, FS_Union
    <3> QED BY <2>1, <2>4, <3>1
  <2>7. Cardinality(U) = Target(r)
    BY <1>2, <2>1, <2>2, <2>3, <2>6, FS_EmptySet
  <2>8. /\ IsFiniteSet(ReadyPods) /\ Cardinality(ReadyPods) \in Nat
        /\ Cardinality(ReadyPods) <= Cardinality(Live) /\ Cardinality(Live) \in Nat
    BY LivePods, FS_Subset, FS_CardinalityType
  <2>9. Cardinality(U) <= Cardinality(ReadyPods)
        /\ (Cardinality(ReadyPods) = Cardinality(U) => ReadyPods = U)
    BY <2>4, <2>8, FS_Subset
  <2> QED BY <2>1, <2>2, <2>3, <2>7, <2>8, <2>9
<1> QED BY <1>2, <1>6, <1>7

\* A trial is judged only on capacity that was there.
THEOREM TrialVerdictMeansCapacity == TrialSpec => VerdictMeansCapacity
BY TrialInvariantHolds, VerdictStep, PTL DEF TrialSpec, VerdictMeansCapacity
=============================================================================
