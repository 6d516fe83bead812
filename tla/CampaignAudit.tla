---------------------------- MODULE CampaignAudit ----------------------------
(***************************************************************************)
(* What the auditors make of a campaign: finalize_campaign.py, from the     *)
(* state file and the evidence on disk, at any time and while scripts run,  *)
(* and attempt_audit of analyze_step19_campaign.py, from the directories.   *)
(***************************************************************************)
EXTENDS Campaign

Attempt(r, n) == [run |-> r, attempt |-> n]

\* The rows of completed-runs.csv: accepted cells whose evidence is there, valid.
Completed ==
  {r \in 1..Runs : /\ file.cells[r].status = "valid"
                   /\ Attempt(r, file.cells[r].valid) \in evidenced}

\* The seeded fault: aborted attempts are forgotten.
InvalidAttempts ==
  {a \in {Attempt(r, n) : r \in Completed, n \in 1..MaxAttempts} :
     /\ a.attempt \in DOMAIN file.cells[a.run].attempts
     /\ file.cells[a.run].attempts[a.attempt] = "invalid"}

\* The rows of failed-attempts.csv, of completed cells only.
FailedAttempts ==
  {a \in {Attempt(r, n) : r \in Completed, n \in 1..MaxAttempts} :
     /\ a.attempt \in DOMAIN file.cells[a.run].attempts
     /\ file.cells[a.run].attempts[a.attempt] \in {"invalid", "aborted"}}

\* "passed" of final-campaign-audit.json.
AuditPasses ==
  /\ Completed = 1..Runs
  /\ file.active = NoAttempt
  /\ file.paused

\* final-campaign-audit.json.
Audit ==
  [passed |-> AuditPasses, valid |-> Cardinality(Completed),
   failedOrAborted |-> Cardinality(FailedAttempts),
   cellsWithRetries |-> Cardinality({a.run : a \in FailedAttempts})]

\* The disposition of an attempt's directory.
Disposition(a) ==
  CASE file.cells[a.run].valid = a.attempt -> "retained"
    [] file.cells[a.run].valid # a.attempt /\ a \in evidenced -> "superseded"
    [] OTHER -> "technical_invalid"
-----------------------------------------------------------------------------
\* What was ever claimed.
EveryAttempt ==
  {a \in {Attempt(r, n) : r \in 1..Runs, n \in 1..MaxAttempts} :
     a.attempt \in DOMAIN file.cells[a.run].attempts}

\* A campaign that is over - every cell valid, and paused - passes the audit, and
\* an audit that passes accounts for every attempt ever claimed, however many scripts
\* died and were aborted: each is listed as failed or is the one its cell completed
\* with, which no later attempt follows, the counts of the audit add up, and the audit of the directories retains
\* exactly those (finalize_campaign.py, "Failed attempts preserved; the identical
\* matrix cell was repeated until one attempt passed all frozen checks").
AuditAccountsForEveryAttempt ==
  /\ (\A r \in 1..Runs : file.cells[r].status = "valid") /\ file.paused => AuditPasses
  /\ Audit.passed =>
       /\ Audit.valid + Audit.failedOrAborted = Cardinality(EveryAttempt)
       /\ Audit.cellsWithRetries
            = Cardinality({r \in 1..Runs : Len(file.cells[r].attempts) > 1})
  /\ AuditPasses => \A r \in 1..Runs : \A n \in DOMAIN file.cells[r].attempts :
       LET completes == n = Len(file.cells[r].attempts)
       IN  /\ completes <=> Disposition(Attempt(r, n)) = "retained"
           /\ ~completes <=> Attempt(r, n) \in FailedAttempts
=============================================================================
