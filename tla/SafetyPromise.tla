--------------------------- MODULE SafetyPromise ---------------------------
(***************************************************************************)
(* What the reactive safety net promises, stated on the whole history of   *)
(* observation windows and without the engine's counters                   *)
(* (experiments/safety/STEP16.md, "Fixed algorithm", rules 3 to 7):        *)
(* an intervention starts when PersistenceWindows windows in a row were    *)
(* overloaded, lasts until HoldWindows windows in a row were quiet, and    *)
(* the floor is the largest requirement that triggered it.                 *)
(***************************************************************************)
EXTENDS Integers, Sequences, FiniteSetsExt

CONSTANTS FloorMin, PersistenceWindows, HoldWindows, Windows

VARIABLES
  windows,   \* every evaluated window: [overload, needed, required]
  floor,     \* the safety floor in force
  active     \* an intervention is in force

\* The windows that complete a run of overloaded ones.
Triggers(w) ==
  {i \in DOMAIN w : /\ i >= PersistenceWindows
                    /\ \A j \in (i - PersistenceWindows + 1)..i : w[j].overload}

Quiet(w, i) == ~w[i].needed /\ i \notin Triggers(w)

\* The quiet windows it takes to end an intervention: one even if the hold is 0.
QuietRun == Max({1, HoldWindows})

\* The windows that complete a run of quiet ones begun after window i.
Releases(w, i) ==
  {k \in DOMAIN w : /\ k >= i + QuietRun
                    /\ \A j \in (k - QuietRun + 1)..k : Quiet(w, j)}

\* The triggers no quiet run has ended yet.
Standing(w) == {i \in Triggers(w) : Releases(w, i) = {}}

PromisedFloor(w) == Max({FloorMin} \cup {w[i].required : i \in Standing(w)})

Init == windows = << >> /\ floor = FloorMin /\ active = FALSE

Observe(window) ==
  /\ windows' = Append(windows, window)
  /\ active' = (Standing(windows') # {})
  /\ floor' = PromisedFloor(windows')

Next == \E window \in Windows : Observe(window)

Spec == Init /\ [][Next]_<<windows, floor, active>>
=============================================================================
