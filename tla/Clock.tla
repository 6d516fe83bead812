------------------------------- MODULE Clock --------------------------------
(***************************************************************************)
(* The clock attestations around a run (monitoring/src/anfa_observability/  *)
(* clock.py) and the gate of the completeness report on them (validate.py). *)
(* Every source is asked for its time; its skew is the difference to the    *)
(* midpoint of the request.  Times are milliseconds.                        *)
(***************************************************************************)
EXTENDS Integers, FiniteSetsExt

CONSTANTS
  Sources,       \* the nodes and Prometheus
  Skews,         \* skews a source's clock may have
  RoundTrips,    \* a request's way there and back: <<there, back>>
  Limit,         \* maximum_skew_ms
  TrustedWithin  \* a source answering slower does not enter the correction

ASSUME ClockAssumption ==
  /\ IsFiniteSet(Sources) /\ Skews \subseteq Int /\ RoundTrips \subseteq Nat \X Nat
  /\ Limit \in Nat /\ TrustedWithin \in Nat

VARIABLES
  skew,       \* external: the true skew of every source
  preflight,  \* clock-preflight.json, or none yet
  postflight  \* clock-postflight.json, or none yet

clockVars == <<skew, preflight, postflight>>

None == [mode |-> "none"]

ClockInit == skew = [s \in Sources |-> 0] /\ preflight = None /\ postflight = None
-----------------------------------------------------------------------------
\* midpoint_measure, prometheus_measure: of several requests the quickest counts.
RoundTripTime(t) == t[1] + t[2]
Quickest(trips) == CHOOSE t \in trips : \A u \in trips : RoundTripTime(t) <= RoundTripTime(u)

\* The source reads its clock when the request is there; the midpoint is the guess.
Sample(off, t) == [rtt |-> RoundTripTime(t), skew |-> off + (t[1] - t[2]) \div 2]

\* median, of the skews of a set of sources.
Median(m, S) ==
  LET Below(s) == Cardinality({r \in S : m[r].skew < m[s].skew})
      UpTo(s) == Cardinality({r \in S : m[r].skew <= m[s].skew})
      At(k) == m[CHOOSE s \in S : Below(s) < k /\ k <= UpTo(s)].skew
      n == Cardinality(S)
  IN  (At((n + 1) \div 2) + At(n \div 2 + 1)) \div 2

Close(x, y) == x - y \in (-Limit)..Limit
Within(m, S, center) == \A s \in S : Close(m[s].skew, center)

\* What a runner whose clock is off deducts: the median of the sources it trusts.
TrustedSources(m) == {s \in Sources : m[s].rtt <= TrustedWithin}
Correction(m) == IF TrustedSources(m) = {} THEN 0 ELSE Median(m, TrustedSources(m))

\* preflight: in step with the runner as they are, or once the median is deducted.
Attestation(m) ==
  LET native == Within(m, Sources, 0)
      corrected == TrustedSources(m) # {} /\ Within(m, TrustedSources(m), Correction(m))
  IN  [mode |-> IF native THEN "native_sync" ELSE "measured_offset_correction",
       correction |-> Correction(m), corrected |-> corrected, sources |-> m,
       passed |-> \/ native
                  \/ /\ Cardinality(TrustedSources(m)) >= 2 /\ Correction(m) \in -10000..10000
                     /\ corrected]

QuickestTrips == {Quickest(trips) : trips \in (SUBSET RoundTrips) \ {{}}}

Attested ==
  {Attestation([s \in Sources |-> Sample(skew[s], t[s])]) : t \in [Sources -> QuickestTrips]}

Preflight ==
  /\ preflight = None
  /\ preflight' \in Attested
  /\ UNCHANGED <<skew, postflight>>

\* External: clocks are off, and are stepped during the run.
ClockSteps ==
  /\ postflight = None
  /\ skew' \in [Sources -> Skews]
  /\ UNCHANGED <<preflight, postflight>>

Postflight ==
  /\ preflight # None /\ postflight = None
  /\ postflight' \in Attested
  /\ UNCHANGED <<skew, preflight>>

ClockNext == Preflight \/ ClockSteps \/ Postflight
-----------------------------------------------------------------------------
\* The drift gate: the postflight passed and its correction is the preflight's.
\* The seeded fault: a correction that shrank is no drift.
NotGrown ==
  postflight.passed /\ postflight.correction - preflight.correction <= Limit

Undrifted ==
  postflight.passed /\ Close(postflight.correction, preflight.correction)

\* check_run: the clock checks of the report.  The drift gate applies only to a run
\* that deducts a correction.
ClockIsValid ==
  \/ preflight.mode = "native_sync"
  \/ preflight.passed /\ preflight.corrected /\ Undrifted
-----------------------------------------------------------------------------
\* When the report accepts the clocks of a run that deducts the preflight's
\* correction, the deduction was still right at the end of it: no source the
\* postflight trusts is then off by more than the residual and the drift the gates
\* allow and by what the midpoint cannot tell, half a round trip (rounded up).  (Two
\* gates add up, and a postflight that passes as native may leave twice the limit
\* between a source and the median.)
CorrectionHeld ==
  (postflight # None /\ preflight.mode = "measured_offset_correction" /\ ClockIsValid) =>
    \A s \in Sources :
      LET m == postflight.sources[s]
      IN  m.rtt <= TrustedWithin =>
            LET bound == 3 * Limit + (m.rtt + 1) \div 2
            IN  skew[s] - preflight.correction \in (-bound)..bound
=============================================================================
