------------------------- MODULE BenchmarkAppProofs -------------------------
(***************************************************************************)
(* Proofs about the benchmark application.  Every counter is the size of a  *)
(* set of requests, so that what a scrape shows follows from inclusions.    *)
(***************************************************************************)
EXTENDS BenchmarkApp, FiniteSetTheorems, TLAPS

\* The requests each counter has counted.
Started == {r \in Requests : handler[r] \notin {"absent", "received"}}
Refused == {r \in Requests : reply[r] = "503"}
Succeeded == {r \in Requests : handler[r] = "completed" \/ reply[r] = "200"}
Observed == {r \in Requests : handler[r] = "observed"} \cup Succeeded
Seen == {r \in Requests : handler[r] = "done"}

\* Each counter is the size of its set.
CountersOK ==
  /\ workStarted = Cardinality(Started)
  /\ completed = [ok |-> Cardinality(Succeeded), refused |-> Cardinality(Refused)]
  /\ observed = Cardinality(Observed)
  /\ httpTotals = Cardinality(Seen)
  /\ active = Cardinality(InFlight)

\* A request has its reply from the moment it is written on.
RepliesOK ==
  /\ handler \in [Requests -> Places]
  /\ reply \in [Requests -> {"none", "200", "503"}] /\ stamp \in [Requests -> BOOLEAN]
  /\ \A r \in Requests : reply[r] = "503" => handler[r] \in {"returned", "done"}
  /\ \A r \in Requests : reply[r] = "200" => handler[r] \in {"responded", "returned", "done"}
  /\ \A r \in Requests : handler[r] \in {"responded", "returned", "done"} => reply[r] # "none"

\* The set of requests a counter is about grows by the request of the step.
LEMMA OneMore ==
  ASSUME NEW S, S \subseteq Requests, NEW r \in Requests, r \notin S
  PROVE  Cardinality(S \cup {r}) = Cardinality(S) + 1
BY RequestsAssumption, FS_Subset, FS_AddElement

\* What is smaller has fewer elements.
LEMMA Smaller ==
  ASSUME NEW S, NEW T, S \subseteq T, T \subseteq Requests
  PROVE  Cardinality(S) \in Nat /\ Cardinality(T) \in Nat /\ Cardinality(S) <= Cardinality(T)
BY RequestsAssumption, FS_Subset, FS_CardinalityType

\* Sets without a common element add up.
LEMMA DisjointUnion ==
  ASSUME NEW S, NEW T, S \cap T = {}, S \subseteq Requests, T \subseteq Requests
  PROVE  Cardinality(S \cup T) = Cardinality(S) + Cardinality(T)
<1>1. IsFiniteSet(S) /\ IsFiniteSet(T)
  BY RequestsAssumption, FS_Subset
<1>2. Cardinality(S \cup T) = Cardinality(S) + Cardinality(T) - Cardinality(S \cap T)
  BY <1>1, FS_Union
<1>3. Cardinality(S \cap T) = 0
  BY FS_EmptySet
<1> QED BY <1>1, <1>2, <1>3, FS_CardinalityType

\* What the counters say of each other at any moment.
CountersAgree ==
  /\ httpTotals <= completed.ok + completed.refused
  /\ completed.ok <= observed
  /\ observed + completed.refused <= workStarted

\* The counters of the application are in order because their sets are.
LEMMA CountersInOrder ==
  ASSUME CountersOK, RepliesOK
  PROVE  CountersAgree
<1>1. Seen \subseteq Succeeded \cup Refused /\ Succeeded \cap Refused = {}
  BY DEF Seen, Succeeded, Refused, RepliesOK
<1>2. Succeeded \subseteq Observed /\ Observed \subseteq Requests
  BY DEF Observed, Succeeded
<1>3. Observed \cap Refused = {} /\ Observed \cup Refused \subseteq Started /\ Started \subseteq Requests
  BY DEF Observed, Succeeded, Refused, Started, RepliesOK, Places
<1>4. Cardinality(Succeeded \cup Refused) = Cardinality(Succeeded) + Cardinality(Refused)
  BY <1>1, DisjointUnion DEF Succeeded, Refused
<1>5. Cardinality(Seen) <= Cardinality(Succeeded \cup Refused)
  BY <1>1, Smaller DEF Succeeded, Refused
<1>6. Cardinality(Succeeded) <= Cardinality(Observed)
  BY <1>2, Smaller
<1>7. Cardinality(Observed) + Cardinality(Refused) <= Cardinality(Started)
  <2>1. Cardinality(Observed \cup Refused) = Cardinality(Observed) + Cardinality(Refused)
    BY <1>3, DisjointUnion
  <2> QED BY <1>3, <2>1, Smaller
<1> QED BY <1>4, <1>5, <1>6, <1>7 DEF CountersOK, CountersAgree
-----------------------------------------------------------------------------
(* The steps of a request.                                                 *)

\* A step that leaves every set of requests alone leaves the counters alone.
LEMMA NothingCounted ==
  ASSUME CountersOK, UNCHANGED <<workStarted, completed, observed, httpTotals, active>>,
         Started' = Started, Refused' = Refused, Succeeded' = Succeeded,
         Observed' = Observed, Seen' = Seen, InFlight' = InFlight
  PROVE  CountersOK'
BY DEF CountersOK

\* The request's first step: workStarted.
LEMMA CountStep ==
  ASSUME CountersOK, RepliesOK, NEW r \in Requests, Count(r)
  PROVE  CountersOK'
<1>1. /\ Started' = Started \cup {r} /\ r \notin Started
      /\ Refused' = Refused /\ Succeeded' = Succeeded
      /\ Observed' = Observed /\ Seen' = Seen /\ InFlight' = InFlight
  BY DEF Count, At, Goto, Started, Refused, Succeeded, Observed, Seen, InFlight, RepliesOK,
         guarded, Places
<1>2. Cardinality(Started') = Cardinality(Started) + 1
  BY <1>1, OneMore DEF Started
<1> QED BY <1>1, <1>2 DEF CountersOK, Count, guarded

\* Being admitted or refused is not counted yet.
LEMMA AdmitStep ==
  ASSUME CountersOK, RepliesOK, NEW r \in Requests, Admit(r)
  PROVE  CountersOK'
<1>1. /\ Started' = Started /\ Refused' = Refused /\ Succeeded' = Succeeded
      /\ Observed' = Observed /\ Seen' = Seen /\ InFlight' = InFlight
  BY DEF Admit, At, Goto, Started, Refused, Succeeded, Observed, Seen, InFlight, RepliesOK, Places
<1> QED BY <1>1, NothingCounted DEF Admit, guarded, atomics

\* A refused request is completed with its 503.
LEMMA CompleteRefusedStep ==
  ASSUME CountersOK, RepliesOK, NEW r \in Requests, CompleteRefused(r)
  PROVE  CountersOK'
<1>1. /\ Refused' = Refused \cup {r} /\ r \notin Refused
      /\ Started' = Started /\ Succeeded' = Succeeded
      /\ Observed' = Observed /\ Seen' = Seen /\ InFlight' = InFlight
  BY DEF CompleteRefused, At, Goto, Started, Refused, Succeeded, Observed, Seen, InFlight,
         RepliesOK, Places
<1>2. Cardinality(Refused') = Cardinality(Refused) + 1
  BY <1>1, OneMore DEF Refused
<1> QED BY <1>1, <1>2 DEF CountersOK, CompleteRefused, atomics

\* An admitted request becomes active.
LEMMA StartWorkStep ==
  ASSUME CountersOK, RepliesOK, NEW r \in Requests, StartWork(r)
  PROVE  CountersOK'
<1>1. /\ InFlight' = InFlight \cup {r} /\ r \notin InFlight
      /\ Started' = Started /\ Refused' = Refused /\ Succeeded' = Succeeded
      /\ Observed' = Observed /\ Seen' = Seen
  BY DEF StartWork, At, Goto, Started, Refused, Succeeded, Observed, Seen, InFlight, RepliesOK,
         Places
<1>2. Cardinality(InFlight') = Cardinality(InFlight) + 1
  BY <1>1, OneMore DEF InFlight
<1> QED BY <1>1, <1>2 DEF CountersOK, StartWork, guarded

\* Its duration is observed.
LEMMA ObserveWorkDurationStep ==
  ASSUME CountersOK, RepliesOK, NEW r \in Requests, ObserveWorkDuration(r)
  PROVE  CountersOK'
<1>1. /\ Observed' = Observed \cup {r} /\ r \notin Observed
      /\ Started' = Started /\ Refused' = Refused /\ Succeeded' = Succeeded
      /\ Seen' = Seen /\ InFlight' = InFlight
  BY DEF ObserveWorkDuration, At, Goto, Started, Refused, Succeeded, Observed, Seen, InFlight,
         RepliesOK, Places
<1>2. Cardinality(Observed') = Cardinality(Observed) + 1
  BY <1>1, OneMore DEF Observed, Succeeded
<1> QED BY <1>1, <1>2 DEF CountersOK, ObserveWorkDuration, atomics

\* It is completed.
LEMMA CompleteWorkStep ==
  ASSUME CountersOK, RepliesOK, NEW r \in Requests, CompleteWork(r)
  PROVE  CountersOK'
<1>1. /\ Succeeded' = Succeeded \cup {r} /\ r \notin Succeeded
      /\ Started' = Started /\ Refused' = Refused /\ Observed' = Observed
      /\ Seen' = Seen /\ InFlight' = InFlight
  BY DEF CompleteWork, At, Goto, Started, Refused, Succeeded, Observed, Seen, InFlight,
         RepliesOK, Places
<1>2. Cardinality(Succeeded') = Cardinality(Succeeded) + 1
  BY <1>1, OneMore DEF Succeeded
<1> QED BY <1>1, <1>2 DEF CountersOK, CompleteWork, atomics

\* Writing the answer changes no set: it was completed before.
LEMMA RespondStep ==
  ASSUME CountersOK, RepliesOK, NEW r \in Requests, Respond(r)
  PROVE  CountersOK'
<1>1. /\ Started' = Started /\ Refused' = Refused /\ Succeeded' = Succeeded
      /\ Observed' = Observed /\ Seen' = Seen /\ InFlight' = InFlight
  BY DEF Respond, At, Goto, Started, Refused, Succeeded, Observed, Seen, InFlight, RepliesOK,
         Places
<1> QED BY <1>1, NothingCounted DEF Respond, guarded, atomics

\* It is no longer active.
LEMMA ReturnStep ==
  ASSUME CountersOK, RepliesOK, NEW r \in Requests, Return(r)
  PROVE  CountersOK'
<1>1. /\ InFlight = InFlight' \cup {r} /\ r \notin InFlight' /\ InFlight' \subseteq Requests
      /\ Started' = Started /\ Refused' = Refused /\ Succeeded' = Succeeded
      /\ Observed' = Observed /\ Seen' = Seen
  BY DEF Return, At, Goto, Started, Refused, Succeeded, Observed, Seen, InFlight, RepliesOK,
         Places
<1>2. Cardinality(InFlight) = Cardinality(InFlight') + 1 /\ Cardinality(InFlight') \in Nat
  BY <1>1, OneMore, Smaller
<1> QED BY <1>1, <1>2 DEF CountersOK, Return, guarded

\* The instrumented handler has seen it to its end.
LEMMA ObserveHTTPStep ==
  ASSUME CountersOK, RepliesOK, NEW r \in Requests, ObserveHTTP(r)
  PROVE  CountersOK'
<1>1. /\ Seen' = Seen \cup {r} /\ r \notin Seen
      /\ Started' = Started /\ Refused' = Refused /\ Succeeded' = Succeeded
      /\ Observed' = Observed /\ InFlight' = InFlight
  BY DEF ObserveHTTP, At, Goto, Started, Refused, Succeeded, Observed, Seen, InFlight,
         RepliesOK, Places
<1>2. Cardinality(Seen') = Cardinality(Seen) + 1
  BY <1>1, OneMore DEF Seen
<1> QED BY <1>1, <1>2 DEF CountersOK, ObserveHTTP, atomics

\* A request that has just arrived is in no set.
LEMMA ArriveStep ==
  ASSUME CountersOK, RepliesOK, NEW r \in Requests, Arrive(r)
  PROVE  CountersOK'
<1>1. /\ Started' = Started /\ Refused' = Refused /\ Succeeded' = Succeeded
      /\ Observed' = Observed /\ Seen' = Seen /\ InFlight' = InFlight
  BY DEF Arrive, At, Goto, Started, Refused, Succeeded, Observed, Seen, InFlight, RepliesOK,
         Places
<1> QED BY <1>1, NothingCounted DEF Arrive, guarded, atomics

\* Every other step leaves the requests and their counters alone.
LEMMA CountersOKStep ==
  ASSUME CountersOK, RepliesOK, [Next]_vars
  PROVE  CountersOK'
<1>1. CASE UNCHANGED <<handler, reply, atomics, guarded>>
  <2>1. /\ Started' = Started /\ Refused' = Refused /\ Succeeded' = Succeeded
        /\ Observed' = Observed /\ Seen' = Seen /\ InFlight' = InFlight
    BY <1>1 DEF Started, Refused, Succeeded, Observed, Seen, InFlight
  <2> QED BY <1>1, <2>1, NothingCounted DEF atomics, guarded
<1>2. MainStep \/ ScrapeStep \/ Signal \/ ListenerFails \/ UNCHANGED vars
        => UNCHANGED <<handler, reply, atomics, guarded>>
  BY DEF MainStep, Timer, Announce, TimerCancelled, ServeError, Drain, Shutdown,
         ShutdownComplete, ShutdownTimeout, ScrapeStep, ScrapeLock, ScrapeStarted, ScrapeRest,
         Signal, ListenerFails, vars, requestVars
<1>3. ASSUME NEW r \in Requests, Arrive(r) \/ RequestStep(r) PROVE CountersOK'
  BY <1>3, ArriveStep, CountStep, AdmitStep, CompleteRefusedStep, StartWorkStep,
     ObserveWorkDurationStep, CompleteWorkStep, RespondStep, ReturnStep, ObserveHTTPStep
     DEF RequestStep
<1> QED BY <1>1, <1>2, <1>3 DEF Next
-----------------------------------------------------------------------------
(* The inductive invariant.                                                *)

\* While a scrape is under way it has the mutex, so that what it has not read
\* yet stays below the started requests it has read.
ScrapeOK ==
  /\ scraping \in {"idle", "locked", "loaded"}
  /\ mu = IF scraping = "idle" THEN "free" ELSE "scrape"
  /\ scrape \in [started : Nat, completed : [ok : Nat, refused : Nat], observed : Nat, http : Nat]
  /\ scraping = "loaded" => observed + completed.refused <= scrape.started
  /\ ScrapeIsConsistent

\* Whoever has been admitted was admitted after the time of readiness was noted.
ReadinessOK ==
  /\ life \in {"warming", "announced", "serving", "draining", "closing", "exited", "failed"}
  /\ cancelled \in BOOLEAN /\ serveFailed \in BOOLEAN
  /\ ready \in BOOLEAN /\ accepting \in BOOLEAN /\ readyAt \in BOOLEAN
  /\ life = "announced" \/ accepting => readyAt
  /\ \A r \in Requests :
       handler[r] \in {"admitted", "working", "observed", "completed"} => readyAt
  /\ ServedAfterReady

\* A process that has ended without an error has no request left.
ExitOK ==
  life = "exited" => \A r \in Requests : handler[r] \in {"absent", "done"}

BenchmarkInvariant == CountersOK /\ RepliesOK /\ ScrapeOK /\ ReadinessOK /\ ExitOK

\* The counters are numbers.
LEMMA CountersAreNat ==
  ASSUME CountersOK
  PROVE  /\ workStarted \in Nat /\ observed \in Nat /\ httpTotals \in Nat
         /\ completed \in [ok : Nat, refused : Nat]
<1>1. /\ Started \subseteq Requests /\ Refused \subseteq Requests /\ Succeeded \subseteq Requests
      /\ Observed \subseteq Requests /\ Seen \subseteq Requests
  BY DEF Started, Refused, Succeeded, Observed, Seen
<1> QED BY <1>1, Smaller DEF CountersOK

\* No request, no count.
LEMMA BenchmarkInit == Init => BenchmarkInvariant
<1> SUFFICES ASSUME Init PROVE BenchmarkInvariant
  OBVIOUS
<1>1. Started = {} /\ Refused = {} /\ Succeeded = {} /\ Observed = {} /\ Seen = {} /\ InFlight = {}
  BY DEF Init, Started, Refused, Succeeded, Observed, Seen, InFlight
<1>2. CountersOK
  BY <1>1, FS_EmptySet DEF Init, CountersOK
<1>3. RepliesOK /\ ExitOK
  BY DEF Init, RepliesOK, Places, ExitOK
<1>4. ScrapeOK
  BY DEF Init, ScrapeOK, ScrapeIsConsistent
<1>5. ReadinessOK
  BY DEF Init, ReadinessOK, ServedAfterReady
<1> QED BY <1>2, <1>3, <1>4, <1>5 DEF BenchmarkInvariant

\* Replies are written in order.
LEMMA RepliesOKStep ==
  ASSUME RepliesOK, readyAt \in BOOLEAN, [Next]_vars
  PROVE  RepliesOK'
<1>1. CASE UNCHANGED requestVars
  BY <1>1 DEF RepliesOK, requestVars
<1>2. MainStep \/ ScrapeStep \/ Signal \/ ListenerFails \/ UNCHANGED vars => UNCHANGED requestVars
  BY DEF MainStep, Timer, Announce, TimerCancelled, ServeError, Drain, Shutdown,
         ShutdownComplete, ShutdownTimeout, ScrapeStep, ScrapeLock, ScrapeStarted, ScrapeRest,
         Signal, ListenerFails, vars
<1>3. ASSUME NEW r \in Requests, Arrive(r) PROVE RepliesOK'
  BY <1>3 DEF Arrive, RepliesOK, Places, At, Goto
<1>4. ASSUME NEW r \in Requests, Count(r) \/ Admit(r) \/ StartWork(r) \/ ObserveWorkDuration(r)
      PROVE RepliesOK'
  BY <1>4 DEF Count, Admit, StartWork, ObserveWorkDuration, RepliesOK, Places, At, Goto
<1>5. ASSUME NEW r \in Requests, CompleteWork(r) \/ Return(r) \/ ObserveHTTP(r) PROVE RepliesOK'
  BY <1>5 DEF CompleteWork, Return, ObserveHTTP, RepliesOK, Places, At, Goto
<1>6. ASSUME NEW r \in Requests, CompleteRefused(r) \/ Respond(r) PROVE RepliesOK'
  BY <1>6 DEF CompleteRefused, Respond, RepliesOK, Places, At, Goto
<1> QED BY <1>1, <1>2, <1>3, <1>4, <1>5, <1>6 DEF Next, RequestStep
-----------------------------------------------------------------------------
\* A step of a request that changes what a scrape reads waits for the mutex.
LEMMA ScrapeOKStep ==
  ASSUME ScrapeOK, CountersOK, RepliesOK, [Next]_vars
  PROVE  ScrapeOK'
<1>1. CASE UNCHANGED <<scrapeVars, guarded>>
  BY <1>1 DEF ScrapeOK, ScrapeIsConsistent, scrapeVars, guarded
<1>2. CASE mu = "free" /\ UNCHANGED scrapeVars
  BY <1>2 DEF ScrapeOK, ScrapeIsConsistent, scrapeVars
<1>3. CASE ScrapeLock
  BY <1>3 DEF ScrapeLock, ScrapeOK, ScrapeIsConsistent, guarded
<1>4. CASE ScrapeStarted
  BY <1>4, CountersInOrder, CountersAreNat
     DEF ScrapeStarted, ScrapeOK, ScrapeIsConsistent, CountersAgree, guarded
<1>5. CASE ScrapeRest
  BY <1>5, CountersInOrder, CountersAreNat
     DEF ScrapeRest, ScrapeOK, ScrapeIsConsistent, CountersAgree, guarded
<1>6. MainStep \/ Signal \/ ListenerFails \/ UNCHANGED vars => UNCHANGED <<scrapeVars, guarded>>
  BY DEF MainStep, Timer, Announce, TimerCancelled, ServeError, Drain, Shutdown,
         ShutdownComplete, ShutdownTimeout, Signal, ListenerFails, vars
<1>7. ASSUME NEW r \in Requests,
             Arrive(r) \/ Count(r) \/ Admit(r) \/ StartWork(r) \/ Respond(r) \/ Return(r)
      PROVE  UNCHANGED <<scrapeVars, guarded>>
  BY <1>7 DEF Arrive, Count, Admit, StartWork, Respond, Return
<1>8. ASSUME NEW r \in Requests,
             CompleteRefused(r) \/ ObserveWorkDuration(r) \/ CompleteWork(r) \/ ObserveHTTP(r)
      PROVE  mu = "free" /\ UNCHANGED scrapeVars
  BY <1>8 DEF CompleteRefused, ObserveWorkDuration, CompleteWork, ObserveHTTP
<1> QED BY <1>1, <1>2, <1>3, <1>4, <1>5, <1>6, <1>7, <1>8 DEF Next, RequestStep, ScrapeStep

\* readyAt is noted before acceptance and never forgotten.
LEMMA ReadinessOKStep ==
  ASSUME ReadinessOK, RepliesOK, [Next]_vars
  PROVE  ReadinessOK'
<1> USE DEF ReadinessOK, ServedAfterReady
<1>1. CASE UNCHANGED <<life, cancelled, serveFailed, ready, accepting, readyAt>>
           /\ UNCHANGED requestVars
  BY <1>1 DEF requestVars
<1>2. CASE MainStep \/ Signal \/ ListenerFails
  <2>1. CASE Timer
    BY <2>1 DEF Timer, requestVars
  <2>2. CASE Announce
    BY <2>2 DEF Announce, requestVars
  <2>3. CASE TimerCancelled
    BY <2>3 DEF TimerCancelled, requestVars
  <2>4. CASE ServeError
    BY <2>4 DEF ServeError, requestVars
  <2>5. CASE Drain
    BY <2>5 DEF Drain, requestVars
  <2>6. CASE Shutdown
    BY <2>6 DEF Shutdown, requestVars
  <2>7. CASE ShutdownComplete
    BY <2>7 DEF ShutdownComplete, requestVars
  <2>8. CASE ShutdownTimeout
    BY <2>8 DEF ShutdownTimeout, requestVars
  <2>9. CASE Signal
    BY <2>9 DEF Signal, requestVars
  <2>10. CASE ListenerFails
    BY <2>10 DEF ListenerFails, requestVars
  <2> QED BY <1>2, <2>1, <2>2, <2>3, <2>4, <2>5, <2>6, <2>7, <2>8, <2>9, <2>10 DEF MainStep
<1>3. ScrapeStep \/ UNCHANGED vars =>
        UNCHANGED <<life, cancelled, serveFailed, ready, accepting, readyAt>>
        /\ UNCHANGED requestVars
  BY DEF ScrapeStep, ScrapeLock, ScrapeStarted, ScrapeRest, vars, mainVars
<1>4. ASSUME NEW r \in Requests,
             Arrive(r) \/ Count(r) \/ Admit(r) \/ StartWork(r) \/ ObserveWorkDuration(r)
      PROVE  ReadinessOK'
  BY <1>4 DEF Arrive, Count, Admit, StartWork, ObserveWorkDuration, RepliesOK, At, Goto, mainVars
<1>5. ASSUME NEW r \in Requests,
             CompleteWork(r) \/ Return(r) \/ ObserveHTTP(r)
      PROVE  ReadinessOK'
  BY <1>5 DEF CompleteWork, Return, ObserveHTTP, RepliesOK, At, Goto, mainVars
<1>6. ASSUME NEW r \in Requests, CompleteRefused(r) \/ Respond(r)
      PROVE  ReadinessOK'
  BY <1>6 DEF CompleteRefused, Respond, RepliesOK, At, Goto, mainVars
<1> QED BY <1>1, <1>2, <1>3, <1>4, <1>5, <1>6 DEF Next, RequestStep

\* The process ends without an error only when every connection is idle, and
\* after that nothing happens.
LEMMA ExitOKStep ==
  ASSUME ExitOK, [Next]_vars
  PROVE  ExitOK'
<1>1. CASE life = "exited"
  <2>1. UNCHANGED <<life, handler>>
    BY <1>1 DEF Next, vars, Running, MainStep, Timer, Announce, TimerCancelled, ServeError, Drain,
         Shutdown, ShutdownComplete, ShutdownTimeout, Signal, ListenerFails, ScrapeStep,
         ScrapeLock, ScrapeStarted, ScrapeRest, RequestStep, Arrive, Count, Admit,
         CompleteRefused, StartWork, ObserveWorkDuration, CompleteWork, Respond, Return,
         ObserveHTTP, mainVars, requestVars
  <2> QED BY <1>1, <2>1 DEF ExitOK
<1>2. CASE life # "exited" /\ ShutdownComplete
  BY <1>2 DEF ShutdownComplete, ExitOK, requestVars
<1>3. CASE life # "exited" /\ ~ShutdownComplete
  <2>1. life' # "exited"
    BY <1>3 DEF Next, vars, MainStep, Timer, Announce, TimerCancelled, ServeError, Drain,
         Shutdown, ShutdownTimeout, Signal, ListenerFails, ScrapeStep,
         ScrapeLock, ScrapeStarted, ScrapeRest, RequestStep, Arrive, Count, Admit,
         CompleteRefused, StartWork, ObserveWorkDuration, CompleteWork, Respond, Return,
         ObserveHTTP, mainVars
  <2> QED BY <2>1 DEF ExitOK
<1> QED BY <1>1, <1>2, <1>3

\* The parts together are inductive.
LEMMA BenchmarkStep == BenchmarkInvariant /\ [Next]_vars => BenchmarkInvariant'
<1> SUFFICES ASSUME BenchmarkInvariant, [Next]_vars PROVE BenchmarkInvariant'
  OBVIOUS
<1>1. CountersOK /\ RepliesOK /\ ScrapeOK /\ ReadinessOK /\ ExitOK
  BY DEF BenchmarkInvariant
<1>2. readyAt \in BOOLEAN
  BY <1>1 DEF ReadinessOK
<1>3. CountersOK' /\ RepliesOK' /\ ScrapeOK' /\ ReadinessOK' /\ ExitOK'
  BY <1>1, <1>2, CountersOKStep, RepliesOKStep, ScrapeOKStep, ReadinessOKStep, ExitOKStep
<1> QED BY <1>3 DEF BenchmarkInvariant

\* So the invariant always holds.
LEMMA BenchmarkAlways == Spec => []BenchmarkInvariant
BY BenchmarkInit, BenchmarkStep, PTL DEF Spec
-----------------------------------------------------------------------------
\* Every variable stays in its range, whatever requests arrive, and the gauge
\* of active requests is their number.
THEOREM BenchmarkTypeCorrect == Spec => []BenchmarkTypeOK
<1>1. BenchmarkInvariant => BenchmarkTypeOK
  BY CountersAreNat DEF BenchmarkInvariant, BenchmarkTypeOK, CountersOK, RepliesOK, ScrapeOK,
     ReadinessOK
<1> QED BY <1>1, BenchmarkAlways, PTL

\* No scrape, at whatever moment, shows an effect without its cause.
THEOREM BenchmarkScrapeIsConsistent == Spec => []ScrapeIsConsistent
<1>1. BenchmarkInvariant => ScrapeIsConsistent
  BY DEF BenchmarkInvariant, ScrapeOK
<1> QED BY <1>1, BenchmarkAlways, PTL

\* Whatever is answered with 200 was admitted after readiness.
THEOREM BenchmarkServedAfterReady == Spec => []ServedAfterReady
<1>1. BenchmarkInvariant => ServedAfterReady
  BY DEF BenchmarkInvariant, ReadinessOK
<1> QED BY <1>1, BenchmarkAlways, PTL

\* A graceful end leaves no request unanswered and no counter behind.
THEOREM BenchmarkCleanExit == Spec => []CleanExitAnswersAll
<1>1. ASSUME BenchmarkInvariant, life = "exited" PROVE CleanExitAnswersAll
  <2>1. CountersOK /\ RepliesOK /\ \A r \in Requests : handler[r] \in {"absent", "done"}
    BY <1>1 DEF BenchmarkInvariant, ExitOK
  <2>2. \A r \in Requests : handler[r] # "absent" => reply[r] # "none"
    BY <2>1 DEF RepliesOK
  <2>3. /\ Started = Succeeded \cup Refused /\ Succeeded \cap Refused = {}
        /\ Observed = Succeeded /\ Seen = Started /\ InFlight = {}
    BY <2>1 DEF Started, Succeeded, Refused, Observed, Seen, InFlight, RepliesOK
  <2>4. Cardinality(Started) = Cardinality(Succeeded) + Cardinality(Refused)
    BY <2>3, DisjointUnion DEF Succeeded, Refused
  <2> QED BY <2>1, <2>2, <2>3, <2>4, FS_EmptySet DEF CountersOK, CleanExitAnswersAll
<1>2. BenchmarkInvariant => CleanExitAnswersAll
  BY <1>1 DEF CleanExitAnswersAll
<1> QED BY <1>2, BenchmarkAlways, PTL
=============================================================================
