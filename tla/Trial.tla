------------------------------- MODULE Trial -------------------------------
(***************************************************************************)
(* The readiness trials (experiments/readiness-profiling): the cloud       *)
(* runner with its main and its probe thread                               *)
(* (scripts/step6-cloud-runner.py), the Deployment it scales (external,    *)
(* as the runner uses it), and the campaign script on a laptop that starts *)
(* the trials, fetches their evidence and keeps the progress file          *)
(* (scripts/run-step6-cloud-campaign.ps1).  A laptop that dies or loses    *)
(* its connection leaves the runner behind.                                *)
(***************************************************************************)
EXTENDS Naturals, FiniteSets, Sequences

CONSTANTS
  Cells,        \* the target replica counts of the campaign, in its order
  MaxTrials,    \* bound: runners started
  MaxPods,      \* bound: Pods created
  MaxFaults     \* bound: failed calls, lost Pods and connections, dead laptops

ASSUME CellsAssumption == Cells \in Seq(2..4)
ASSUME TrialBoundsAssumption ==
  MaxTrials \in Nat \ {0} /\ MaxPods \in Nat /\ MaxFaults \in Nat

Trials == 1..MaxTrials
Pods == 1..MaxPods

VARIABLES
  replicas, stage,     \* spec.replicas, and how far each Pod has come
  pc, of,              \* where the runner of each trial is, the cell it is for
  baseline,            \* the Pods it found before scaling
  observed, ready,     \* the new Pods it has seen, and seen Ready
  answered, served,    \* the Pods in its probe records since scale_sent, and
                       \* those it has counted as serving
  disturbed,           \* history: a Pod was lost or another runner scaled meanwhile
  station, cell,       \* where the campaign script is, the index of its cell
  current,             \* the trial it waits for
  fetched,             \* the evidence of each trial on the laptop
  rows,                \* the progress file
  faults

clusterVars == <<replicas, stage>>
runnerVars == <<pc, of, baseline, observed, ready, answered, served>>
laptopVars == <<station, cell, current, fetched, rows>>
trialVars == <<clusterVars, runnerVars, laptopVars, disturbed, faults>>

Target(r) == Cells[of[r]]
Live == {p \in Pods : stage[p] \in {"created", "ready"}}
ReadyPods == {p \in Pods : stage[p] = "ready"}

\* Names nobody remembers stand for new Pods.
Fresh == {p \in Pods \ Live :
            \A r \in Trials : p \notin baseline[r] \cup observed[r] \cup answered[r]}

Running == {r \in Trials : pc[r] \notin {"unused", "exit0", "exit1"}}

Fault == faults < MaxFaults /\ faults' = faults + 1

TrialInit ==
  /\ replicas = 1 /\ stage = [p \in Pods |-> IF p = 1 THEN "ready" ELSE "none"]
  /\ pc = [r \in Trials |-> "unused"] /\ of = [r \in Trials |-> 1]
  /\ baseline = [r \in Trials |-> {}] /\ observed = [r \in Trials |-> {}]
  /\ ready = [r \in Trials |-> {}] /\ answered = [r \in Trials |-> {}]
  /\ served = [r \in Trials |-> {}]
  /\ disturbed = [r \in Trials |-> FALSE]
  /\ station = "idle" /\ cell = 1 /\ current = 0
  /\ fetched = [r \in Trials |-> {}] /\ rows = << >> /\ faults = 0

-----------------------------------------------------------------------------
(* The Deployment and its Pods. *)

CreatePod ==
  /\ Cardinality(Live) < replicas
  /\ \E p \in Fresh : (\A q \in Fresh : p <= q) /\ stage' = [stage EXCEPT ![p] = "created"]
  /\ UNCHANGED <<replicas, runnerVars, laptopVars, disturbed, faults>>

BecomeReady(p) ==
  /\ stage[p] = "created" /\ stage' = [stage EXCEPT ![p] = "ready"]
  /\ UNCHANGED <<replicas, runnerVars, laptopVars, disturbed, faults>>

DeletePod(p) ==
  /\ Cardinality(Live) > replicas /\ p \in Live
  /\ stage' = [stage EXCEPT ![p] = "none"]
  /\ UNCHANGED <<replicas, runnerVars, laptopVars, disturbed, faults>>

LosePod(p) ==
  /\ Fault /\ p \in Live
  /\ stage' = [stage EXCEPT ![p] = "none"]
  /\ disturbed' = [r \in Trials |-> disturbed[r] \/ r \in Running]
  /\ UNCHANGED <<replicas, runnerVars, laptopVars>>

-----------------------------------------------------------------------------
(* The runner of trial r. *)

Goto(r, label) == pc' = [pc EXCEPT ![r] = label]

\* kubectl scale, which disturbs every other runner.
Scale(r, count) ==
  /\ replicas' = count
  /\ disturbed' = [q \in Trials |-> disturbed[q] \/ q \in Running \ {r}]

\* A call that raises (a scale request may still have been heard), or in the end a
\* time stamp that is missing: the invalid-trial record, then the finally block.
Raise(r) ==
  /\ Fault /\ Goto(r, "undo1")
  /\ \/ /\ pc[r] \in {"reset", "settle", "baseline", "scale", "poll", "final"}
        /\ UNCHANGED <<replicas, disturbed>>
     \/ pc[r] = "scale" /\ Scale(r, Target(r))
  /\ UNCHANGED <<stage, of, baseline, observed, ready, answered, served, laptopVars>>

ResetFirst(r) ==
  /\ pc[r] = "reset" /\ Scale(r, 1) /\ Goto(r, "settle")
  /\ UNCHANGED <<stage, of, baseline, observed, ready, answered, served,
                 laptopVars, faults>>

\* wait_exact_ready(1): exactly one Pod, and it is Ready.
Settle(r) ==
  /\ pc[r] = "settle" /\ Cardinality(Live) = 1 /\ Live = ReadyPods /\ Goto(r, "baseline")
  /\ UNCHANGED <<clusterVars, of, baseline, observed, ready, answered, served,
                 laptopVars, disturbed, faults>>

\* After the recovery sleep: whatever is there now is the baseline.
TakeBaseline(r) ==
  /\ pc[r] = "baseline" /\ baseline' = [baseline EXCEPT ![r] = Live] /\ Goto(r, "scale")
  /\ UNCHANGED <<clusterVars, of, observed, ready, answered, served,
                 laptopVars, disturbed, faults>>

\* scale_sent and the scale request.
ScaleUp(r) ==
  /\ pc[r] = "scale" /\ Scale(r, Target(r)) /\ Goto(r, "poll")
  /\ UNCHANGED <<stage, of, baseline, observed, ready, answered, served,
                 laptopVars, faults>>

\* The seeded fault: the polling loop has no deadline.
TimeOutOfSettling(r) ==
  /\ pc[r] = "settle" /\ Goto(r, "undo1")
  /\ UNCHANGED <<clusterVars, of, baseline, observed, ready, answered, served,
                 laptopVars, disturbed, faults>>

\* The deadline of a loop that waits, met at the head of the loop.
TimeOut(r) ==
  /\ pc[r] \in {"settle", "poll"} /\ Goto(r, "undo1")
  /\ UNCHANGED <<clusterVars, of, baseline, observed, ready, answered, served,
                 laptopVars, disturbed, faults>>

\* get_pods of one cycle: what has been seen stays seen.
Poll(r) ==
  /\ pc[r] = "poll"
  /\ observed' = [observed EXCEPT ![r] = @ \cup (Live \ baseline[r])]
  /\ ready' = [ready EXCEPT ![r] = @ \cup (ReadyPods \ baseline[r])]
  /\ Goto(r, "judge")
  /\ UNCHANGED <<clusterVars, of, baseline, answered, served,
                 laptopVars, disturbed, faults>>

\* The probe thread: an answer of a Ready Pod, recorded after scale_sent.
Probe(r) ==
  /\ pc[r] \in {"poll", "judge"}
  /\ \E p \in ReadyPods \ answered[r] : answered' = [answered EXCEPT ![r] = @ \cup {p}]
  /\ UNCHANGED <<clusterVars, pc, of, baseline, observed, ready, served,
                 laptopVars, disturbed, faults>>

\* The seeded fault: the records of the baseline Pod are counted as well.
AllRecords(r) == answered[r]

\* The snapshot of the probe records, of the new Pods only.
RecordsOfNewPods(r) == answered[r] \cap observed[r]

AllReady(r) == Cardinality(observed[r]) = Target(r) - 1 /\ observed[r] = ready[r]

\* The rest of the cycle: the verdict, or the next cycle.
Judge(r) ==
  /\ pc[r] = "judge"
  /\ served' = [served EXCEPT ![r] = @ \cup RecordsOfNewPods(r)]
  /\ IF AllReady(r) /\ Cardinality(served'[r]) = Target(r) - 1
     THEN Goto(r, "final") ELSE Goto(r, "poll")
  /\ UNCHANGED <<clusterVars, of, baseline, observed, ready, answered,
                 laptopVars, disturbed, faults>>

\* trial-summary.json with "valid": true, then the last evidence; a call that
\* raises now leaves an invalid-trial record beside it (Raise).
WriteEvidence(r) ==
  /\ pc[r] = "final" /\ Goto(r, "undo0")
  /\ UNCHANGED <<clusterVars, of, baseline, observed, ready, answered, served,
                 laptopVars, disturbed, faults>>

\* The finally block, back to one replica, and the exit code.
Undo(r) ==
  /\ \/ pc[r] = "undo0" /\ Scale(r, 1) /\ Goto(r, "exit0") /\ UNCHANGED faults
     \/ pc[r] = "undo1" /\ Scale(r, 1) /\ Goto(r, "exit1") /\ UNCHANGED faults
     \/ pc[r] \in {"undo0", "undo1"} /\ Fault /\ Goto(r, "exit1")
        /\ UNCHANGED <<replicas, disturbed>>
  /\ baseline' = [baseline EXCEPT ![r] = {}] /\ observed' = [observed EXCEPT ![r] = {}]
  /\ ready' = [ready EXCEPT ![r] = {}] /\ answered' = [answered EXCEPT ![r] = {}]
  /\ served' = [served EXCEPT ![r] = {}]
  /\ UNCHANGED <<stage, of, laptopVars>>

-----------------------------------------------------------------------------
(* The campaign script. *)

\* The seeded fault: any row of the cell counts as its completion.
AnyRow(c) == \E i \in DOMAIN rows : rows[i].cell = c

Completed(c) == \E i \in DOMAIN rows : rows[i].cell = c /\ rows[i].valid

AddRow(r, verdict) == rows' = Append(rows, [cell |-> cell, trial |-> r, valid |-> verdict])

DirectoriesOf(c) == {r \in Trials : pc[r] # "unused" /\ of[r] = c}

\* The newest directory of a cell holds a summary.
Recoverable(c) ==
  \E r \in DirectoriesOf(c) : "summary" \in fetched[r] /\ \A q \in DirectoriesOf(c) : q <= r

NextCell ==
  /\ station = "idle" /\ cell <= Len(Cells) /\ Completed(cell)
  /\ cell' = cell + 1
  /\ UNCHANGED <<clusterVars, runnerVars, station, current, fetched, rows, disturbed, faults>>

CampaignComplete ==
  /\ station = "idle" /\ cell > Len(Cells) /\ station' = "complete"
  /\ UNCHANGED <<clusterVars, runnerVars, cell, current, fetched, rows, disturbed, faults>>

RecoverTrial ==
  /\ station = "idle" /\ cell <= Len(Cells) /\ ~Completed(cell) /\ Recoverable(cell)
  /\ \E r \in DirectoriesOf(cell) : (\A q \in DirectoriesOf(cell) : q <= r) /\ AddRow(r, TRUE)
  /\ UNCHANGED <<clusterVars, runnerVars, station, cell, current, fetched, disturbed, faults>>

StartTrial ==
  /\ station = "idle" /\ cell <= Len(Cells) /\ ~Completed(cell) /\ ~Recoverable(cell)
  /\ \E r \in Trials :
       /\ pc[r] = "unused" /\ \A q \in Trials : q < r => pc[q] # "unused"
       /\ Goto(r, "reset") /\ of' = [of EXCEPT ![r] = cell]
       /\ current' = r /\ station' = "waiting"
       /\ disturbed' = [disturbed EXCEPT ![r] = Running # {}]
  /\ UNCHANGED <<clusterVars, baseline, observed, ready, answered, served, cell,
                 fetched, rows, faults>>

\* The runner has returned 0: the evidence is fetched, the summary first.
RunnerReturns ==
  /\ station = "waiting" /\ pc[current] = "exit0" /\ station' = "fetching"
  /\ UNCHANGED <<clusterVars, runnerVars, cell, current, fetched, rows, disturbed, faults>>

FetchSummary ==
  /\ station = "fetching" /\ fetched[current] = {}
  /\ fetched' = [fetched EXCEPT ![current] = {"summary"}]
  /\ UNCHANGED <<clusterVars, runnerVars, station, cell, current, rows, disturbed, faults>>

FetchRest ==
  /\ station = "fetching" /\ fetched[current] = {"summary"}
  /\ fetched' = [fetched EXCEPT ![current] = {"summary", "rest"}]
  /\ AddRow(current, TRUE) /\ station' = "idle"
  /\ UNCHANGED <<clusterVars, runnerVars, cell, current, disturbed, faults>>

\* An exit code, a lost connection or a failed copy: an invalid row, and the end.
TrialFails ==
  /\ \/ station = "waiting" /\ pc[current] = "exit1" /\ UNCHANGED faults
     \/ station \in {"waiting", "fetching"} /\ Fault
  /\ AddRow(current, FALSE) /\ station' = "stopped"
  /\ UNCHANGED <<clusterVars, runnerVars, cell, current, fetched, disturbed>>

LaptopDies ==
  /\ Fault /\ station \in {"waiting", "fetching"} /\ station' = "stopped"
  /\ UNCHANGED <<clusterVars, runnerVars, cell, current, fetched, rows, disturbed>>

\* The script is started again, from its first cell and the progress file.
Resume ==
  /\ station = "stopped" /\ station' = "idle" /\ cell' = 1 /\ current' = 0
  /\ UNCHANGED <<clusterVars, runnerVars, fetched, rows, disturbed, faults>>

-----------------------------------------------------------------------------
RunnerStep(r) ==
  \/ ResetFirst(r) \/ Settle(r) \/ TakeBaseline(r) \/ ScaleUp(r) \/ Poll(r)
  \/ Judge(r) \/ WriteEvidence(r) \/ Undo(r)

Deployment ==
  CreatePod \/ \E p \in Pods : BecomeReady(p) \/ DeletePod(p) \/ LosePod(p)

Laptop ==
  \/ NextCell \/ CampaignComplete \/ RecoverTrial \/ StartTrial \/ RunnerReturns
  \/ FetchSummary \/ FetchRest \/ TrialFails \/ LaptopDies \/ Resume

TrialNext ==
  \/ Deployment \/ Laptop
  \/ \E r \in Trials : RunnerStep(r) \/ TimeOut(r) \/ Raise(r) \/ Probe(r)

TrialSpec == TrialInit /\ [][TrialNext]_trialVars

\* A runner that is not killed goes on, and a loop that returns to its head again
\* and again meets its deadline.
TrialFairSpec ==
  TrialSpec /\ \A r \in Trials :
    WF_trialVars(RunnerStep(r)) /\ SF_trialVars(TimeOut(r))
-----------------------------------------------------------------------------
\* A trial is judged only on capacity that was there: as many new Pods as it asked
\* for were Ready and answered; and unless a Pod was lost or another runner scaled
\* meanwhile, they and the one of the baseline are the Ready Pods of the verdict.
VerdictMeansCapacity ==
  [][\A r \in Trials : pc[r] = "judge" /\ pc'[r] = "final" =>
       /\ Cardinality(served'[r]) = Target(r) - 1
       /\ served'[r] = ready[r] /\ served'[r] \cap baseline[r] = {}
       /\ ~disturbed[r] => ReadyPods = baseline[r] \cup served'[r]
                            /\ Cardinality(ReadyPods) = Target(r)]_trialVars

\* What the horizon is computed from: whatever failed, was interrupted or was left
\* behind, a cell has at most one valid row, of a trial of that cell whose runner
\* ended without an error; a completed campaign has one for every cell.
CountedTrialsAreSound ==
  /\ \A i \in DOMAIN rows : rows[i].valid =>
       /\ of[rows[i].trial] = rows[i].cell /\ pc[rows[i].trial] = "exit0"
       /\ \A j \in DOMAIN rows : rows[j].valid /\ rows[j].cell = rows[i].cell => i = j
  /\ station = "complete" =>
       \A c \in 1..Len(Cells) : \E i \in DOMAIN rows : rows[i].cell = c /\ rows[i].valid

\* However calls fail and Pods come and go, a runner ends, within its deadlines.
TrialEnds ==
  \A r \in Trials : pc[r] # "unused" ~> pc[r] \in {"exit0", "exit1"}

\* "Pilots and interrupted directories are preserved but excluded"
\* (tools/build_step6_cloud_report.py:147): a counted trial has all its evidence.
InterruptedTrialsAreExcluded ==
  \A i \in DOMAIN rows : rows[i].valid => fetched[rows[i].trial] = {"summary", "rest"}
=============================================================================
