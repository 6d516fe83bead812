---------------------------- MODULE BenchmarkApp ----------------------------
(***************************************************************************)
(* The benchmark application (app/cmd/benchmark-app/main.go).  The main     *)
(* goroutine announces readiness, waits for a signal, drains and shuts the  *)
(* server down; every request has a goroutine of its own, and so has a      *)
(* scrape of the metrics, which reads counters kept in atomics while it     *)
(* holds the mutex of the others.                                           *)
(***************************************************************************)
EXTENDS Integers, FiniteSets

CONSTANTS Requests   \* the requests for /work that may arrive

ASSUME RequestsAssumption == IsFiniteSet(Requests)

VARIABLES
  life,          \* where the main goroutine is
  cancelled,     \* the signal context is done
  serveFailed,   \* Serve has returned an error
  ready, accepting,
  readyAt,       \* the time of readiness is known
  handler,       \* where the goroutine of each request is
  reply,         \* the status of each request, "none" at first
  stamp,         \* X-Benchmark-Ready-At is a time of readiness
  mu,            \* the metrics' mutex: "free" or "scrape" between two steps
  workStarted, active,              \* atomics
  completed, observed, httpTotals,  \* under the mutex; /work only
  scraping, scrape                  \* where a scrape is; the last one

mainVars == <<life, cancelled, serveFailed, ready, accepting, readyAt>>
requestVars == <<handler, reply, stamp>>
atomics == <<workStarted, active>>
guarded == <<completed, observed, httpTotals>>
scrapeVars == <<mu, scraping, scrape>>
vars == <<mainVars, requestVars, atomics, guarded, scrapeVars>>

Init ==
  /\ life = "warming" /\ cancelled = FALSE /\ serveFailed = FALSE
  /\ ready = FALSE /\ accepting = FALSE /\ readyAt = FALSE
  /\ handler = [r \in Requests |-> "absent"]
  /\ reply = [r \in Requests |-> "none"]
  /\ stamp = [r \in Requests |-> FALSE]
  /\ mu = "free" /\ scraping = "idle"
  /\ workStarted = 0 /\ active = 0
  /\ completed = [ok |-> 0, refused |-> 0] /\ observed = 0 /\ httpTotals = 0
  /\ scrape = [started |-> 0, completed |-> completed, observed |-> 0, http |-> 0]

Running == life \notin {"exited", "failed"}
-----------------------------------------------------------------------------
(* The main goroutine (run).                                               *)

\* READY_DELAY is over: first the time, then readiness, ...
Timer ==
  /\ life = "warming"
  /\ life' = "announced" /\ readyAt' = TRUE /\ ready' = TRUE
  /\ UNCHANGED <<cancelled, serveFailed, accepting, requestVars, atomics, guarded, scrapeVars>>

\* ... and only then are requests accepted.
Announce ==
  /\ life = "announced"
  /\ life' = "serving" /\ accepting' = TRUE
  /\ UNCHANGED <<cancelled, serveFailed, ready, readyAt, requestVars, atomics, guarded, scrapeVars>>

\* The signal before READY_DELAY is over: the second select, never ready.
TimerCancelled ==
  /\ life = "warming" /\ cancelled
  /\ life' = "serving"
  /\ UNCHANGED <<cancelled, serveFailed, ready, accepting, readyAt, requestVars, atomics,
                 guarded, scrapeVars>>

\* Serve has failed: the process ends at once.
ServeError ==
  /\ life \in {"warming", "serving"} /\ serveFailed
  /\ life' = "failed"
  /\ UNCHANGED <<cancelled, serveFailed, ready, accepting, readyAt, requestVars, atomics,
                 guarded, scrapeVars>>

Drain ==
  /\ life = "serving" /\ cancelled
  /\ life' = "draining" /\ ready' = FALSE
  /\ UNCHANGED <<cancelled, serveFailed, accepting, readyAt, requestVars, atomics, guarded,
                 scrapeVars>>

\* DRAIN_DELAY is over; Shutdown closes the listener.
Shutdown ==
  /\ life = "draining"
  /\ life' = "closing" /\ accepting' = FALSE
  /\ UNCHANGED <<cancelled, serveFailed, ready, readyAt, requestVars, atomics, guarded,
                 scrapeVars>>

\* The seeded fault: Close instead of Shutdown.
ShutdownCompleteAtOnce ==
  /\ life = "closing"
  /\ life' = "exited"
  /\ UNCHANGED <<cancelled, serveFailed, ready, accepting, readyAt, requestVars, atomics,
                 guarded, scrapeVars>>

\* Shutdown returns when every connection is idle.
ShutdownComplete ==
  /\ life = "closing"
  /\ \A r \in Requests : handler[r] \in {"absent", "done"}
  /\ scraping = "idle"
  /\ life' = "exited"
  /\ UNCHANGED <<cancelled, serveFailed, ready, accepting, readyAt, requestVars, atomics,
                 guarded, scrapeVars>>

\* SHUTDOWN_TIMEOUT is over: the remaining connections are cut.
ShutdownTimeout ==
  /\ life = "closing"
  /\ life' = "failed"
  /\ UNCHANGED <<cancelled, serveFailed, ready, accepting, readyAt, requestVars, atomics,
                 guarded, scrapeVars>>
-----------------------------------------------------------------------------
(* The goroutine of a request (instrument and work).                       *)

At(r, place) == handler[r] = place
Goto(r, place) == handler' = [handler EXCEPT ![r] = place]

Count(r) ==
  /\ Running /\ At(r, "received")
  /\ workStarted' = workStarted + 1
  /\ Goto(r, "counted")
  /\ UNCHANGED <<mainVars, reply, stamp, active, guarded, scrapeVars>>

\* accepting.Load: go on, or answer 503.
Admit(r) ==
  /\ Running /\ At(r, "counted")
  /\ Goto(r, IF accepting THEN "admitted" ELSE "refused")
  /\ UNCHANGED <<mainVars, reply, stamp, atomics, guarded, scrapeVars>>

CompleteRefused(r) ==
  /\ Running /\ At(r, "refused") /\ mu = "free"
  /\ completed' = [completed EXCEPT !.refused = @ + 1]
  /\ reply' = [reply EXCEPT ![r] = "503"]
  /\ Goto(r, "returned")
  /\ UNCHANGED <<mainVars, stamp, atomics, observed, httpTotals, scrapeVars>>

StartWork(r) ==
  /\ Running /\ At(r, "admitted")
  /\ active' = active + 1
  /\ Goto(r, "working")
  /\ UNCHANGED <<mainVars, reply, stamp, workStarted, guarded, scrapeVars>>

\* The hash chain is done: its duration, in a critical section of its own.
ObserveWorkDuration(r) ==
  /\ Running /\ At(r, "working") /\ mu = "free"
  /\ observed' = observed + 1
  /\ Goto(r, "observed")
  /\ UNCHANGED <<mainVars, reply, stamp, atomics, completed, httpTotals, scrapeVars>>

CompleteWork(r) ==
  /\ Running /\ At(r, "observed") /\ mu = "free"
  /\ completed' = [completed EXCEPT !.ok = @ + 1]
  /\ Goto(r, "completed")
  /\ UNCHANGED <<mainVars, reply, stamp, atomics, observed, httpTotals, scrapeVars>>

\* The headers and the body.
Respond(r) ==
  /\ Running /\ At(r, "completed")
  /\ reply' = [reply EXCEPT ![r] = "200"] /\ stamp' = [stamp EXCEPT ![r] = readyAt]
  /\ Goto(r, "responded")
  /\ UNCHANGED <<mainVars, atomics, guarded, scrapeVars>>

\* The deferred decrement.
Return(r) ==
  /\ Running /\ At(r, "responded")
  /\ active' = active - 1
  /\ Goto(r, "returned")
  /\ UNCHANGED <<mainVars, reply, stamp, workStarted, guarded, scrapeVars>>

ObserveHTTP(r) ==
  /\ Running /\ At(r, "returned") /\ mu = "free"
  /\ httpTotals' = httpTotals + 1
  /\ Goto(r, "done")
  /\ UNCHANGED <<mainVars, reply, stamp, atomics, completed, observed, scrapeVars>>
-----------------------------------------------------------------------------
(* A scrape (serve): it holds the mutex from beginning to end, but the      *)
(* atomics go on changing.                                                  *)

\* The seeded fault: the mutex is not taken.
ScrapeWithoutLock ==
  /\ Running /\ scraping = "idle" /\ mu = "free"
  /\ scraping' = "locked"
  /\ UNCHANGED <<mainVars, requestVars, atomics, guarded, mu, scrape>>

\* Also while the server shuts down: the scrape's request came before.
ScrapeLock ==
  /\ Running /\ scraping = "idle" /\ mu = "free"
  /\ scraping' = "locked" /\ mu' = "scrape"
  /\ UNCHANGED <<mainVars, requestVars, atomics, guarded, scrape>>

ScrapeStarted ==
  /\ Running /\ scraping = "locked"
  /\ scraping' = "loaded"
  /\ scrape' = [scrape EXCEPT !.started = workStarted]
  /\ UNCHANGED <<mainVars, requestVars, atomics, guarded, mu>>

ScrapeRest ==
  /\ Running /\ scraping = "loaded"
  /\ scraping' = "idle" /\ mu' = "free"
  /\ scrape' = [scrape EXCEPT !.completed = completed, !.observed = observed,
                              !.http = httpTotals]
  /\ UNCHANGED <<mainVars, requestVars, atomics, guarded>>
-----------------------------------------------------------------------------
\* External: a request reaches the server while it listens.
Arrive(r) ==
  /\ Running /\ life # "closing" /\ ~serveFailed
  /\ At(r, "absent")
  /\ Goto(r, "received")
  /\ UNCHANGED <<mainVars, reply, stamp, atomics, guarded, scrapeVars>>

\* External: SIGTERM, and an error of the listener.
Signal ==
  /\ Running /\ ~cancelled
  /\ cancelled' = TRUE
  /\ UNCHANGED <<life, serveFailed, ready, accepting, readyAt, requestVars, atomics, guarded,
                 scrapeVars>>

ListenerFails ==
  /\ Running /\ life # "closing" /\ ~serveFailed
  /\ serveFailed' = TRUE
  /\ UNCHANGED <<life, cancelled, ready, accepting, readyAt, requestVars, atomics, guarded,
                 scrapeVars>>

MainStep == \/ Timer \/ Announce \/ TimerCancelled \/ ServeError \/ Drain
            \/ Shutdown \/ ShutdownComplete \/ ShutdownTimeout

RequestStep(r) ==
  \/ Count(r) \/ Admit(r) \/ CompleteRefused(r) \/ StartWork(r) \/ ObserveWorkDuration(r)
  \/ CompleteWork(r) \/ Respond(r) \/ Return(r) \/ ObserveHTTP(r)

ScrapeStep == ScrapeLock \/ ScrapeStarted \/ ScrapeRest

Next ==
  \/ MainStep \/ ScrapeStep \/ Signal \/ ListenerFails
  \/ \E r \in Requests : Arrive(r) \/ RequestStep(r)

Spec == Init /\ [][Next]_vars
-----------------------------------------------------------------------------
Places == {"absent", "received", "counted", "admitted", "refused", "working", "observed",
           "completed", "responded", "returned", "done"}
InFlight == {r \in Requests : handler[r] \in {"working", "observed", "completed", "responded"}}

\* Every variable is in its range, the gauge of active requests counts the
\* requests at work, and the mutex is held by the scrape under way.
BenchmarkTypeOK ==
  /\ life \in {"warming", "announced", "serving", "draining", "closing", "exited", "failed"}
  /\ {cancelled, serveFailed, ready, accepting, readyAt} \subseteq BOOLEAN
  /\ handler \in [Requests -> Places]
  /\ reply \in [Requests -> {"none", "200", "503"}] /\ stamp \in [Requests -> BOOLEAN]
  /\ mu = IF scraping = "idle" THEN "free" ELSE "scrape"
  /\ scraping \in {"idle", "locked", "loaded"}
  /\ {workStarted, observed, httpTotals, completed.ok, completed.refused} \subseteq Nat
  /\ active = Cardinality(InFlight)

\* A scrape never shows an effect without its cause, although it reads the
\* started requests apart from the rest: requests seen end to end are completed,
\* completed ones are started, and the count of the duration histogram is never
\* ahead of the durations (metrics.serve).
ScrapeIsConsistent ==
  scraping = "idle" =>
    /\ scrape.http <= scrape.completed.ok + scrape.completed.refused
    /\ scrape.completed.ok <= scrape.observed
    /\ scrape.observed + scrape.completed.refused <= scrape.started

\* A process that ends without an error has answered every request it received,
\* and its counters agree, whenever the signal came (run, graceful shutdown).
CleanExitAnswersAll ==
  life = "exited" =>
    /\ \A r \in Requests : handler[r] # "absent" => reply[r] # "none"
    /\ workStarted = completed.ok + completed.refused
    /\ observed = completed.ok /\ httpTotals = workStarted /\ active = 0

\* Only a process that has been ready does work, and its answers carry the time
\* of readiness, which the main goroutine writes without a lock
\* (X-Benchmark-Ready-At).
ServedAfterReady ==
  \A r \in Requests : reply[r] = "200" => stamp[r] /\ readyAt
=============================================================================
