------------------------------ MODULE Campaign ------------------------------
(***************************************************************************)
(* The campaign state managers (experiments/primary/tools/campaign.py and   *)
(* its twin of experiments/safety) and the scripts that drive them          *)
(* (run-one-final-cloud.ps1).  Every command is a process of its own: it    *)
(* loads the state file, refuses or changes what it loaded, and replaces    *)
(* the file atomically.  Nothing locks the file in between.                 *)
(***************************************************************************)
EXTENDS Integers, Sequences, FiniteSetsExt

CONSTANTS
  Runs,         \* number of cells of the execution matrix, in execution order
  Runners,      \* invocations of the run-one script
  MaxAttempts,  \* bound: attempts of a cell
  Serial        \* the operator never has two commands under way at once

ASSUME CampaignAssumption ==
  /\ Runs \in Nat \ {0} /\ MaxAttempts \in Nat /\ Serial \in BOOLEAN
  /\ "operator" \notin Runners

Processes == Runners \cup {"operator"}
NoAttempt == [run |-> 0, attempt |-> 0]
Idle == [place |-> "off", mine |-> NoAttempt]
NoCommand == [under |-> "none"]

VARIABLES
  file,       \* campaign-state.json
  hand,       \* the state each process is about to save
  runner,     \* where each script is, and the attempt it has claimed
  evidenced   \* history: attempts whose evidence passed the validation

vars == <<file, hand, runner, evidenced>>

PendingCell == [status |-> "pending", attempts |-> << >>, valid |-> 0]

Init ==
  /\ file = [paused |-> TRUE, active |-> NoAttempt, cells |-> [r \in 1..Runs |-> PendingCell]]
  /\ hand = [p \in Processes |-> NoCommand]
  /\ runner = [p \in Processes |-> Idle]
  /\ evidenced = {}
-----------------------------------------------------------------------------
(* The commands, as operators on the loaded state.                         *)

CanResume(s) == s.active = NoAttempt
Resume(s) == [s EXCEPT !.paused = FALSE]
Pause(s) == [s EXCEPT !.paused = TRUE]

Open(s) == {r \in 1..Runs : s.cells[r].status \notin {"valid", "claimed", "running"}}
NextRun(s) == Min(Open(s))

\* The seeded fault: any number of attempts may be active.
CanClaimAlways(s, r) == ~s.paused /\ Open(s) # {} /\ r = NextRun(s)

CanClaim(s, r) ==
  /\ ~s.paused /\ s.active = NoAttempt
  /\ Open(s) # {} /\ r = NextRun(s)

NextAttempt(s, r) == [run |-> r, attempt |-> Len(s.cells[r].attempts) + 1]

\* The seeded fault: the last attempt's record is used again.
ClaimReusing(s, r) ==
  [s EXCEPT !.cells[r].attempts = IF @ = << >> THEN <<"claimed">> ELSE [@ EXCEPT ![Len(@)] = "claimed"],
            !.cells[r].status = "claimed", !.active = NextAttempt(s, r)]

Claim(s, r) ==
  LET cell == s.cells[r]
  IN  [paused |-> s.paused, active |-> NextAttempt(s, r),
       cells |-> [s.cells EXCEPT ![r] =
         [status |-> "claimed", attempts |-> Append(cell.attempts, "claimed"),
          valid |-> cell.valid]]]

\* The seeded fault: the number of the attempt is not compared.
IsActiveRun(s, a) == s.active # NoAttempt /\ s.active.run = a.run

IsActive(s, a) == s.active # NoAttempt /\ s.active = a

\* The record a command changes is the last one of the cell, whatever number
\* the command was given.
LastOf(s, r) == s.cells[r].attempts[Len(s.cells[r].attempts)]
Mark(s, r, status, valid) ==
  LET attempts == s.cells[r].attempts
  IN  [s.cells EXCEPT ![r] =
         [status |-> status, attempts |-> [attempts EXCEPT ![Len(attempts)] = status],
          valid |-> valid]]

CanStart(s, a) == IsActive(s, a) /\ LastOf(s, a.run) = "claimed"
Start(s, a) == [s EXCEPT !.cells = Mark(s, a.run, "running", s.cells[a.run].valid)]

CanFinish(s, a) == IsActive(s, a) /\ LastOf(s, a.run) \in {"claimed", "running"}
Finish(s, a, result) ==
  LET counted == IF result = "valid" THEN a.attempt ELSE s.cells[a.run].valid
  IN  [paused |-> TRUE, active |-> NoAttempt, cells |-> Mark(s, a.run, result, counted)]
-----------------------------------------------------------------------------
(* A command: load and change, then save.                                  *)

\* The process has loaded the file and is about to save "state"; with the
\* saved file it moves on to "next".
Issue(p, state, next) ==
  /\ hand[p] = NoCommand
  /\ Serial => \A q \in Processes : hand[q] = NoCommand
  /\ hand' = [hand EXCEPT ![p] = [under |-> "way", state |-> state, next |-> next]]
  /\ UNCHANGED <<file, runner, evidenced>>

\* The command exits with an error, and the script goes on at "place".
Refused(p, place) ==
  /\ hand[p] = NoCommand
  /\ runner' = [runner EXCEPT ![p].place = place]
  /\ UNCHANGED <<file, hand, evidenced>>

Save(p) ==
  /\ hand[p] # NoCommand
  /\ file' = hand[p].state
  /\ runner' = [runner EXCEPT ![p] = hand[p].next]
  /\ hand' = [hand EXCEPT ![p] = NoCommand]
  /\ UNCHANGED evidenced

At(p, place) == runner[p].place = place
Moved(p, place) == [runner[p] EXCEPT !.place = place]
-----------------------------------------------------------------------------
(* The script: resume, claim, start, collect and validate, finish.         *)

\* The script is started, again if it has ended, and resumes the campaign.
ScriptResume(p) ==
  /\ runner[p].place \in {"off", "passed", "failed", "dead"}
  /\ CanResume(file)
  /\ Issue(p, Resume(file), [place |-> "resumed", mine |-> NoAttempt])

\* It names a run, or takes the next one: a claim out of order is refused, and
\* the script ends with the campaign resumed.
ScriptClaim(p) ==
  /\ At(p, "resumed")
  /\ \E r \in 1..Runs :
       IF CanClaim(file, r)
       THEN /\ Len(file.cells[r].attempts) < MaxAttempts
            /\ Issue(p, Claim(file, r), [place |-> "claimed", mine |-> NextAttempt(file, r)])
       ELSE Refused(p, "failed")

ScriptStart(p) ==
  /\ At(p, "claimed")
  /\ IF CanStart(file, runner[p].mine)
     THEN Issue(p, Start(file, runner[p].mine), Moved(p, "running"))
     ELSE Refused(p, "failing")

\* The evidence of the run is collected and passes the validation, or not.
EvidencePasses(p) ==
  /\ At(p, "running") /\ hand[p] = NoCommand
  /\ runner' = [runner EXCEPT ![p].place = "validated"]
  /\ evidenced' = evidenced \cup {runner[p].mine}
  /\ UNCHANGED <<file, hand>>

EvidenceFails(p) == At(p, "running") /\ Refused(p, "failing")

\* A valid result that cannot be recorded makes the script record an invalid one.
ScriptFinish(p) ==
  /\ At(p, "validated")
  /\ IF CanFinish(file, runner[p].mine)
     THEN Issue(p, Finish(file, runner[p].mine, "valid"), Moved(p, "passed"))
     ELSE Refused(p, "failing")

ScriptFinishInvalid(p) ==
  /\ At(p, "failing")
  /\ IF CanFinish(file, runner[p].mine)
     THEN Issue(p, Finish(file, runner[p].mine, "invalid"), Moved(p, "failed"))
     ELSE Refused(p, "failed")

\* The script dies; the command it had under way dies with it or still saves.
Dies(p) ==
  /\ runner[p].place \notin {"off", "passed", "failed", "dead"}
  /\ \/ UNCHANGED file
     \/ hand[p] # NoCommand /\ file' = hand[p].state
  /\ runner' = [runner EXCEPT ![p] = [Idle EXCEPT !.place = "dead"]]
  /\ hand' = [hand EXCEPT ![p] = NoCommand]
  /\ UNCHANGED evidenced

\* External: the operator pauses, resumes, or aborts the active attempt - one
\* whose script is dead, or one that is still running.
OperatorCommands ==
  \/ Issue("operator", Pause(file), Idle)
  \/ CanResume(file) /\ Issue("operator", Resume(file), Idle)
  \/ CanFinish(file, file.active) /\ Issue("operator", Finish(file, file.active, "aborted"), Idle)

Next ==
  \/ \E p \in Processes : Save(p)
  \/ \E p \in Runners :
       \/ ScriptResume(p) \/ ScriptClaim(p) \/ ScriptStart(p)
       \/ EvidencePasses(p) \/ EvidenceFails(p)
       \/ ScriptFinish(p) \/ ScriptFinishInvalid(p)
       \/ Dies(p)
  \/ OperatorCommands

Spec == Init /\ [][Next]_vars
-----------------------------------------------------------------------------
Unsettled == {"claimed", "running"}

\* One attempt at most is claimed or running, it is the one the file names as
\* active, and no two scripts work on the same attempt
\* (STEP-15-FRAMEWORK-REPORT.md:16: "The manager enforces one active attempt").
\* So whatever died, the active attempt can be aborted.
SingleActiveAttempt ==
  /\ \A r \in 1..Runs : \A n \in DOMAIN file.cells[r].attempts :
       file.cells[r].attempts[n] \in Unsettled <=> file.active = [run |-> r, attempt |-> n]
  /\ \A p, q \in Runners :
       p # q /\ runner[p].mine # NoAttempt => runner[p].mine # runner[q].mine

\* Attempts are only ever added, and a settled one never changes; nor does the
\* choice of the valid attempt of a cell ("immutable attempt history").
HistoryIsImmutable ==
  [][\A r \in 1..Runs :
       LET before == file.cells[r]
           after == file'.cells[r]
       IN  /\ Len(before.attempts) <= Len(after.attempts)
           /\ \A n \in DOMAIN before.attempts :
                before.attempts[n] \notin Unsettled => after.attempts[n] = before.attempts[n]
           /\ before.valid # 0 => after.valid = before.valid]_vars

\* The attempt a cell counts as valid is one whose evidence was validated, and a
\* script that reports a passed run has it recorded, although the operator may
\* have aborted the attempt and another script taken the cell meanwhile.
AcceptedOnEvidence ==
  /\ \A r \in 1..Runs : LET n == file.cells[r].valid IN
       n # 0 => file.cells[r].attempts[n] = "valid" /\ [run |-> r, attempt |-> n] \in evidenced
  /\ \A p \in Runners : At(p, "passed") =>
       file.cells[runner[p].mine.run].valid = runner[p].mine.attempt
=============================================================================
