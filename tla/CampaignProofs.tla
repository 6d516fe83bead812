--------------------------- MODULE CampaignProofs ---------------------------
(***************************************************************************)
(* The campaign with one command at a time: one active attempt, a history   *)
(* that is never rewritten, and valid results that rest on evidence, for    *)
(* any number of cells, scripts and attempts, and wherever a script dies.   *)
(***************************************************************************)
EXTENDS CampaignAudit, NumberFacts, SequenceTheorems, FiniteSetTheorems, FunctionTheorems

Settled == {"valid", "invalid", "aborted"}
Marks == Unsettled \cup Settled
Attempts == [run : 1..Runs, attempt : Nat \ {0}]
CellStates == [status : Marks \cup {"pending"}, attempts : Seq(Marks), valid : Nat]
States == [paused : BOOLEAN, active : {NoAttempt} \cup Attempts, cells : [1..Runs -> CellStates]]

Exists(s, a) == a \in Attempts /\ a.attempt \in DOMAIN s.cells[a.run].attempts

\* A cell is consistent by itself: its status is that of its last attempt, only the
\* last can be unsettled or valid, and a valid one is the one that counts.
CellOK(c) ==
  /\ Len(c.attempts) <= MaxAttempts
  /\ c.status = IF c.attempts = << >> THEN "pending" ELSE c.attempts[Len(c.attempts)]
  /\ \A n \in DOMAIN c.attempts : c.attempts[n] \in Unsettled \cup {"valid"} => n = Len(c.attempts)
  /\ c.valid = IF c.status = "valid" THEN Len(c.attempts) ELSE 0

\* A state a command may load or save: besides, the active attempt is the one that
\* is unsettled.
StateOK(s) ==
  /\ s \in States
  /\ \A r \in 1..Runs : CellOK(s.cells[r])
  /\ s.active # NoAttempt => Exists(s, s.active)
  /\ \A r \in 1..Runs : \A n \in DOMAIN s.cells[r].attempts :
       s.cells[r].attempts[n] \in Unsettled <=> s.active = [run |-> r, attempt |-> n]

\* The attempts that count have their evidence.
RestsOnEvidence(s) ==
  \A r \in 1..Runs : s.cells[r].valid # 0 => [run |-> r, attempt |-> s.cells[r].valid] \in evidenced

\* What a command may do to the history of a cell, and of all of them.
CellKept(before, after) ==
  /\ Len(before.attempts) <= Len(after.attempts)
  /\ \A n \in DOMAIN before.attempts :
       before.attempts[n] \notin Unsettled => after.attempts[n] = before.attempts[n]
  /\ before.valid # 0 => after.valid = before.valid

HistoryKept(s, t) == \A r \in 1..Runs : CellKept(s.cells[r], t.cells[r])
-----------------------------------------------------------------------------
(* Each command, on a consistent state.                                    *)

\* The next run is one that is open.
LEMMA NextRunIsOpen ==
  ASSUME NEW s, Open(s) # {}
  PROVE  NextRun(s) \in Open(s)
BY MinNat, CampaignAssumption DEF NextRun, Open

\* An attempt that exists is not before the first one.
LEMMA NoAttemptExists ==
  ASSUME NEW s PROVE ~ Exists(s, NoAttempt)
BY DEF Exists, Attempts, NoAttempt

\* Pausing and resuming change nothing else.
LEMMA PauseKeeps ==
  ASSUME NEW s, StateOK(s), NEW t, t \in {Pause(s), Resume(s)}
  PROVE  /\ StateOK(t) /\ HistoryKept(s, t)
         /\ \A r \in 1..Runs : t.cells[r] = s.cells[r]
<1>1. t \in States /\ t.cells = s.cells /\ t.active = s.active
  BY DEF StateOK, States, Pause, Resume
<1> QED BY <1>1 DEF StateOK, Exists, HistoryKept, CellKept

\* A command that replaces one cell - the active one, if there is one - by a
\* consistent one that keeps its history leads to a consistent state, if the cell's
\* unsettled attempt becomes the active one.
LEMMA ReplaceCell ==
  ASSUME NEW s, StateOK(s), NEW r \in 1..Runs, NEW c \in CellStates, CellOK(c),
         CellKept(s.cells[r], c), s.active # NoAttempt => s.active.run = r,
         NEW active,
         active # NoAttempt => /\ active \in Attempts /\ active.run = r
                               /\ active.attempt \in DOMAIN c.attempts,
         \A n \in DOMAIN c.attempts :
           c.attempts[n] \in Unsettled <=> active = [run |-> r, attempt |-> n],
         NEW t, t \in [paused : BOOLEAN, active : {active}, cells : {[s.cells EXCEPT ![r] = c]}]
  PROVE  /\ StateOK(t) /\ HistoryKept(s, t)
         /\ \A q \in 1..Runs : t.cells[q] = IF q = r THEN c ELSE s.cells[q]
<1>1. s \in States /\ s.cells \in [1..Runs -> CellStates]
  BY DEF StateOK, States
<1>2. t \in States /\ t.active = active
      /\ \A q \in 1..Runs : t.cells[q] = IF q = r THEN c ELSE s.cells[q]
  <2>0. PICK p \in BOOLEAN, k \in {[s.cells EXCEPT ![r] = c]} :
          t = [paused |-> p, active |-> active, cells |-> k]
    OBVIOUS
  <2>1. /\ t.paused \in BOOLEAN /\ t.active = active /\ t.cells = [s.cells EXCEPT ![r] = c]
        /\ t = [paused |-> t.paused, active |-> t.active, cells |-> t.cells]
    BY <2>0
  <2>2. /\ t.cells \in [1..Runs -> CellStates]
        /\ \A q \in 1..Runs : t.cells[q] = IF q = r THEN c ELSE s.cells[q]
    <3>1. s.cells \in [1..Runs -> CellStates]
      BY <1>1
    <3>2. t.cells = [s.cells EXCEPT ![r] = c]
      BY Zenon, <2>1
    <3>3. DOMAIN s.cells = 1..Runs
      BY <3>1
    <3>4. t.cells \in [1..Runs -> CellStates]
      BY <3>1, <3>2
    <3>5. ASSUME NEW q \in 1..Runs PROVE t.cells[q] = IF q = r THEN c ELSE s.cells[q]
      BY <3>2, <3>3
    <3> QED BY Zenon, <3>4, <3>5
  <2>3. t.active \in {NoAttempt} \cup Attempts
    BY <2>1
  <2> QED BY <2>1, <2>2, <2>3 DEF States
<1>3. \A q \in 1..Runs : CellOK(t.cells[q])
  BY <1>2 DEF StateOK
<1>4. t.active # NoAttempt => Exists(t, t.active)
  BY <1>2 DEF Exists
<1>5. ASSUME NEW q \in 1..Runs, NEW n \in DOMAIN t.cells[q].attempts
      PROVE  t.cells[q].attempts[n] \in Unsettled <=> t.active = [run |-> q, attempt |-> n]
  <2>1. CASE q = r
    BY <2>1, <1>2, <1>5
  <2>2. CASE q # r
    <3>1. s.active # [run |-> q, attempt |-> n] /\ t.active # [run |-> q, attempt |-> n]
      BY <2>2, <1>2 DEF NoAttempt
    <3>2. t.cells[q] = s.cells[q] /\ n \in DOMAIN s.cells[q].attempts
      BY <2>2, <1>2, <1>5
    <3> QED BY <3>1, <3>2 DEF StateOK
  <2> QED BY <2>1, <2>2
<1>6. HistoryKept(s, t)
  <2> SUFFICES ASSUME NEW q \in 1..Runs PROVE CellKept(s.cells[q], t.cells[q])
    BY DEF HistoryKept
  <2>1. s.cells[q].attempts \in Seq(Marks)
    BY <1>1 DEF CellStates
  <2>2. Len(s.cells[q].attempts) <= Len(s.cells[q].attempts)
    BY <2>1
  <2> QED BY <1>2, <2>2 DEF CellKept
<1> QED BY <1>2, <1>3, <1>4, <1>5, <1>6 DEF StateOK

\* Claiming adds an attempt to an open cell.
LEMMA ClaimKeeps ==
  ASSUME NEW s, StateOK(s), NEW r \in 1..Runs, CanClaim(s, r),
         Len(s.cells[r].attempts) < MaxAttempts
  PROVE  /\ StateOK(Claim(s, r)) /\ HistoryKept(s, Claim(s, r))
         /\ \A q \in 1..Runs : Claim(s, r).cells[q].valid = s.cells[q].valid
         /\ Exists(Claim(s, r), NextAttempt(s, r)) /\ ~ Exists(s, NextAttempt(s, r))
<1>1. s.cells[r] \in CellStates /\ s.paused \in BOOLEAN
  BY DEF StateOK, States
<1>2. PICK old : old = s.cells[r].attempts
  OBVIOUS
<1>3. old \in Seq(Marks) /\ s.cells[r].valid \in Nat /\ Len(old) \in Nat
      /\ DOMAIN old = 1..Len(old)
  BY <1>1, <1>2 DEF CellStates
<1>4. PICK longer : longer = Append(old, "claimed")
  OBVIOUS
<1>5. "claimed" \in Marks
  BY DEF Marks, Unsettled
<1>6. /\ longer \in Seq(Marks) /\ longer # << >> /\ Len(longer) = Len(old) + 1
      /\ DOMAIN longer = 1..(Len(old) + 1)
      /\ \A n \in 1..Len(old) : longer[n] = old[n]
      /\ longer[Len(old) + 1] = "claimed"
  BY <1>3, <1>4, <1>5, AppendProperties, LenProperties
<1>7. PICK c : c = [status |-> "claimed", attempts |-> longer, valid |-> s.cells[r].valid]
  OBVIOUS
<1>8. c \in CellStates /\ c.attempts = longer /\ c.status = "claimed" /\ c.valid = s.cells[r].valid
  BY <1>3, <1>5, <1>6, <1>7 DEF CellStates
<1>9. s.active = NoAttempt /\ s.cells[r].status \notin {"valid", "claimed", "running"}
  BY NextRunIsOpen DEF CanClaim, Open
<1>10. CellOK(s.cells[r]) /\ s.cells[r].valid = 0
  BY <1>9 DEF StateOK, CellOK
<1>11. \A n \in 1..Len(old) : old[n] \notin Unsettled /\ old[n] # "valid"
  <2> TAKE n \in 1..Len(old)
  <2>1. old # << >>
    BY <1>3, EmptySeq
  <2>2. old[n] \in Unsettled \cup {"valid"} => n = Len(old) /\ s.cells[r].status = old[Len(old)]
    BY <1>2, <1>3, <1>10, <2>1 DEF CellOK
  <2> QED BY <2>2, <1>9 DEF Unsettled
<1>12. CellOK(c)
  <2>1. Len(longer) <= MaxAttempts
    BY <1>2, <1>3, <1>6, CampaignAssumption
  <2>2. \A n \in DOMAIN longer : longer[n] \in Unsettled \cup {"valid"} => n = Len(longer)
    BY <1>3, <1>6, <1>11
  <2>3. longer[Len(longer)] = "claimed" /\ longer # << >>
    BY <1>6
  <2>4. c.valid = 0 /\ c.status = "claimed" /\ c.attempts = longer
    BY <1>8, <1>10
  <2> QED BY <2>1, <2>2, <2>3, <2>4 DEF CellOK
<1>13. CellKept(s.cells[r], c)
  BY <1>2, <1>3, <1>6, <1>8 DEF CellKept
<1>14. PICK a : a = NextAttempt(s, r)
  OBVIOUS
<1>15. a = [run |-> r, attempt |-> Len(old) + 1] /\ a \in Attempts /\ a.run = r
       /\ a.attempt = Len(old) + 1
  BY <1>2, <1>3, <1>14 DEF NextAttempt, Attempts
<1>16. \A n \in DOMAIN c.attempts : c.attempts[n] \in Unsettled <=> a = [run |-> r, attempt |-> n]
  BY <1>3, <1>6, <1>8, <1>11, <1>15 DEF Unsettled
<1>17. Claim(s, r) = [paused |-> s.paused, active |-> a, cells |-> [s.cells EXCEPT ![r] = c]]
  BY <1>2, <1>4, <1>7, <1>14 DEF Claim
<1>18. a.attempt \in DOMAIN c.attempts
  BY <1>3, <1>6, <1>8, <1>15
<1>19. /\ StateOK(Claim(s, r)) /\ HistoryKept(s, Claim(s, r))
       /\ \A q \in 1..Runs : Claim(s, r).cells[q] = IF q = r THEN c ELSE s.cells[q]
  <2>1. s.active # NoAttempt => s.active.run = r
    BY <1>9
  <2>2. a # NoAttempt => a \in Attempts /\ a.run = r /\ a.attempt \in DOMAIN c.attempts
    BY <1>15, <1>18
  <2>3. c \in CellStates
    BY <1>8
  <2>4. PICK t : t = Claim(s, r)
    OBVIOUS
  <2>5. t \in [paused : BOOLEAN, active : {a}, cells : {[s.cells EXCEPT ![r] = c]}]
    BY <1>1, <1>17, <2>4
  <2>6. /\ StateOK(t) /\ HistoryKept(s, t)
        /\ \A q \in 1..Runs : t.cells[q] = IF q = r THEN c ELSE s.cells[q]
    BY ONLY StateOK(s), <2>1, <2>2, <2>3, <2>5, <1>12, <1>13, <1>16, r \in 1..Runs, ReplaceCell
  <2> QED BY <2>4, <2>6
<1>20. Exists(Claim(s, r), a)
  BY <1>15, <1>18, <1>19 DEF Exists
<1>21. ~ Exists(s, a)
  BY <1>2, <1>3, <1>15 DEF Exists
<1> QED BY <1>8, <1>14, <1>19, <1>20, <1>21

\* The active attempt is the last one of its cell, which has no valid one.
LEMMA ActiveIsLast ==
  ASSUME NEW s, StateOK(s), NEW a, IsActive(s, a)
  PROVE  /\ a \in Attempts /\ a.run \in 1..Runs /\ a # NoAttempt /\ s.active = a
         /\ s.cells[a.run] \in CellStates /\ s.cells[a.run].attempts \in Seq(Marks)
         /\ s.cells[a.run].attempts # << >>
         /\ a.attempt = Len(s.cells[a.run].attempts) /\ a.attempt \in Nat \ {0}
         /\ a.attempt <= MaxAttempts
         /\ a = [run |-> a.run, attempt |-> a.attempt]
         /\ s.cells[a.run].valid = 0
         /\ \A n \in DOMAIN s.cells[a.run].attempts :
              n # a.attempt => s.cells[a.run].attempts[n] \in {"invalid", "aborted"}
<1>1. a \in Attempts /\ a # NoAttempt /\ s.active = a /\ Exists(s, a)
  BY DEF IsActive, StateOK, Exists
<1>2. a.run \in 1..Runs /\ a.attempt \in Nat \ {0} /\ a = [run |-> a.run, attempt |-> a.attempt]
  BY <1>1 DEF Attempts
<1>3. s.cells[a.run] \in CellStates
  BY <1>2 DEF StateOK, States
<1>4. PICK old : old = s.cells[a.run].attempts
  OBVIOUS
<1>5. old \in Seq(Marks) /\ a.attempt \in DOMAIN old
  BY <1>1, <1>3, <1>4 DEF CellStates, Exists
<1>6. Len(old) \in Nat /\ DOMAIN old = 1..Len(old) /\ old # << >>
  BY <1>5, LenProperties, EmptySeq
<1>7. old[a.attempt] \in Unsettled
  BY <1>1, <1>2, <1>4, <1>5 DEF StateOK
<1>8. CellOK(s.cells[a.run])
  BY <1>2 DEF StateOK
<1>9. a.attempt = Len(old) /\ Len(old) <= MaxAttempts
  BY <1>4, <1>5, <1>7, <1>8 DEF CellOK
<1>10. s.cells[a.run].status = old[Len(old)]
  BY <1>4, <1>6, <1>8 DEF CellOK
<1>11. s.cells[a.run].valid = 0
  BY <1>7, <1>8, <1>9, <1>10 DEF CellOK, Unsettled
<1>12. ASSUME NEW n \in DOMAIN old, n # a.attempt PROVE old[n] \in {"invalid", "aborted"}
  <2>1. old[n] \in Marks
    BY <1>5, <1>6, ElementOfSeq
  <2>2. old[n] \notin Unsettled \cup {"valid"}
    BY <1>4, <1>8, <1>9, <1>12 DEF CellOK
  <2> QED BY <2>1, <2>2 DEF Marks, Settled
<1> QED BY <1>1, <1>2, <1>3, <1>4, <1>5, <1>6, <1>9, <1>11, <1>12

\* Marking the active attempt, and counting it if it is valid.
LEMMA MarkKeeps ==
  ASSUME NEW s, StateOK(s), NEW a, IsActive(s, a), NEW mark \in Marks,
         NEW active, active = IF mark \in Unsettled THEN a ELSE NoAttempt,
         NEW valid, valid = IF mark = "valid" THEN a.attempt ELSE 0,
         NEW t, t \in [paused : BOOLEAN, active : {active}, cells : {Mark(s, a.run, mark, valid)}]
  PROVE  /\ StateOK(t) /\ HistoryKept(s, t) /\ Exists(t, a)
         /\ \A q \in 1..Runs : t.cells[q].valid = IF q = a.run THEN valid ELSE s.cells[q].valid
<1>1. PICK r, k, old : r = a.run /\ k = a.attempt /\ old = s.cells[a.run].attempts
  OBVIOUS
<1>2. /\ a \in Attempts /\ r \in 1..Runs /\ a # NoAttempt /\ s.active = a
      /\ s.cells[r] \in CellStates /\ old \in Seq(Marks) /\ old # << >>
      /\ k = Len(old) /\ k \in Nat \ {0} /\ k <= MaxAttempts
      /\ a = [run |-> r, attempt |-> k] /\ s.cells[r].valid = 0
      /\ \A n \in DOMAIN old : n # k => old[n] \in {"invalid", "aborted"}
  BY <1>1, ActiveIsLast
<1>3. DOMAIN old = 1..k
  BY <1>2, LenProperties
<1>4. PICK new : new = [old EXCEPT ![k] = mark]
  OBVIOUS
<1>5. /\ new \in Seq(Marks) /\ Len(new) = k /\ DOMAIN new = 1..k
      /\ \A n \in 1..k : new[n] = IF n = k THEN mark ELSE old[n]
  <2>1. k \in 1..Len(old)
    BY <1>2
  <2>2. new \in Seq(Marks) /\ Len(new) = k /\ \A n \in 1..k : new[n] = IF n = k THEN mark ELSE old[n]
    BY <1>2, <1>4, <2>1, ExceptSeq
  <2> QED BY <2>2, LenProperties
<1>6. new # << >> /\ new[k] = mark
  BY <1>2, <1>5, EmptySeq
<1>7. PICK c : c = [status |-> mark, attempts |-> new, valid |-> valid]
  OBVIOUS
<1>8. c.status = mark /\ c.attempts = new /\ c.valid = valid
  BY <1>7
<1>9. c \in CellStates
  BY <1>1, <1>2, <1>5, <1>7 DEF CellStates
<1>10. CellOK(c)
  <2>1. \A n \in 1..k : new[n] \in Unsettled \cup {"valid"} => n = k
    BY <1>2, <1>3, <1>5 DEF Unsettled
  <2>2. c.status = c.attempts[Len(c.attempts)] /\ c.attempts # << >>
    BY <1>5, <1>6, <1>8
  <2>3. c.valid = IF c.status = "valid" THEN Len(c.attempts) ELSE 0
    BY <1>1, <1>5, <1>8
  <2> QED BY <1>2, <1>5, <1>8, <2>1, <2>2, <2>3 DEF CellOK
<1>11. CellKept(s.cells[r], c)
  <2>1. s.cells[r].attempts = old /\ s.cells[r].valid = 0
    BY <1>1, <1>2
  <2>2. old[k] \in Unsettled
    BY <1>1, <1>2, <1>3 DEF StateOK
  <2>3. Len(old) <= Len(new) /\ DOMAIN old = 1..k
    BY <1>2, <1>3, <1>5
  <2>4. \A n \in DOMAIN old : old[n] \notin Unsettled => new[n] = old[n]
    BY <1>5, <2>2, <2>3
  <2> QED BY <1>8, <2>1, <2>3, <2>4 DEF CellKept
<1>12. s.active # NoAttempt => s.active.run = r
  BY <1>1, <1>2
<1>13. active # NoAttempt =>
         active \in Attempts /\ active.run = r /\ active.attempt \in DOMAIN c.attempts
  <2>1. active # NoAttempt => active = a
    OBVIOUS
  <2>2. a.run = r /\ a.attempt = k /\ k \in 1..k
    BY <1>1, <1>2
  <2>3. DOMAIN c.attempts = 1..k
    BY <1>5, <1>8
  <2> QED BY <1>2, <2>1, <2>2, <2>3, Zenon
<1>14. \A n \in DOMAIN c.attempts :
         c.attempts[n] \in Unsettled <=> active = [run |-> r, attempt |-> n]
  <2> SUFFICES ASSUME NEW n \in 1..k
               PROVE  new[n] \in Unsettled <=> active = [run |-> r, attempt |-> n]
    BY <1>5, <1>8
  <2>1. CASE n = k
    BY <2>1, <1>2, <1>6 DEF NoAttempt
  <2>2. CASE n # k
    <3>1. new[n] \notin Unsettled
      BY <2>2, <1>2, <1>3, <1>5 DEF Unsettled
    <3>2. active # [run |-> r, attempt |-> n]
      BY <2>2, <1>1, <1>2 DEF NoAttempt
    <3> QED BY <3>1, <3>2
  <2> QED BY <2>1, <2>2
<1>15. t \in [paused : BOOLEAN, active : {active}, cells : {[s.cells EXCEPT ![r] = c]}]
  BY <1>1, <1>2, <1>4, <1>7 DEF Mark
<1>16. /\ StateOK(t) /\ HistoryKept(s, t)
       /\ \A q \in 1..Runs : t.cells[q] = IF q = r THEN c ELSE s.cells[q]
  <2>1. r \in 1..Runs
    BY <1>2
  <2> QED BY ONLY StateOK(s), <1>9, <1>10, <1>11, <1>12, <1>13, <1>14, <1>15, <2>1, ReplaceCell
<1>17. Exists(t, a)
  <2>1. t.cells[r] = c /\ a.run = r /\ a.attempt \in 1..k
    BY <1>1, <1>2, <1>16
  <2> QED BY <1>2, <1>5, <1>8, <2>1 DEF Exists
<1> QED BY <1>1, <1>8, <1>16, <1>17

\* Starting the active attempt.
LEMMA StartKeeps ==
  ASSUME NEW s, StateOK(s), NEW a, CanStart(s, a)
  PROVE  /\ StateOK(Start(s, a)) /\ HistoryKept(s, Start(s, a)) /\ Exists(Start(s, a), a)
         /\ \A q \in 1..Runs : Start(s, a).cells[q].valid = s.cells[q].valid
<1>1. IsActive(s, a)
  BY DEF CanStart
<1>2. PICK t : t = Start(s, a)
  OBVIOUS
<1>3. s.active = a /\ s.cells[a.run].valid = 0 /\ a.run \in 1..Runs
  BY <1>1, ActiveIsLast
<1>4. t \in [paused : BOOLEAN, active : {a}, cells : {Mark(s, a.run, "running", 0)}]
  BY <1>2, <1>3 DEF Start, StateOK, States
<1>5. /\ StateOK(t) /\ HistoryKept(s, t) /\ Exists(t, a)
      /\ \A q \in 1..Runs : t.cells[q].valid = IF q = a.run THEN 0 ELSE s.cells[q].valid
  <2>1. "running" \in Marks /\ "running" \in Unsettled /\ "running" # "valid"
    BY DEF Marks, Unsettled
  <2> QED BY <1>1, <1>4, <2>1, MarkKeeps
<1> QED BY <1>2, <1>3, <1>5

\* Finishing it, as valid or not.
LEMMA FinishKeeps ==
  ASSUME NEW s, StateOK(s), NEW a, CanFinish(s, a), NEW result \in Settled
  PROVE  /\ StateOK(Finish(s, a, result)) /\ HistoryKept(s, Finish(s, a, result))
         /\ Exists(Finish(s, a, result), a) /\ a # NoAttempt
         /\ \A q \in 1..Runs :
              Finish(s, a, result).cells[q].valid =
                IF q = a.run /\ result = "valid" THEN a.attempt ELSE s.cells[q].valid
<1>1. IsActive(s, a)
  BY DEF CanFinish
<1>2. PICK t : t = Finish(s, a, result)
  OBVIOUS
<1>3. a # NoAttempt /\ s.cells[a.run].valid = 0 /\ a.run \in 1..Runs
  BY <1>1, ActiveIsLast
<1>4. PICK counted : counted = IF result = "valid" THEN a.attempt ELSE 0
  OBVIOUS
<1>5. t \in [paused : BOOLEAN, active : {NoAttempt}, cells : {Mark(s, a.run, result, counted)}]
  BY <1>2, <1>3, <1>4 DEF Finish
<1>6. /\ StateOK(t) /\ HistoryKept(s, t) /\ Exists(t, a)
      /\ \A q \in 1..Runs : t.cells[q].valid = IF q = a.run THEN counted ELSE s.cells[q].valid
  <2>1. result \in Marks /\ result \notin Unsettled
    BY DEF Marks, Unsettled, Settled
  <2> QED BY <1>1, <1>4, <1>5, <2>1, MarkKeeps
<1> QED BY <1>2, <1>3, <1>4, <1>6
-----------------------------------------------------------------------------
(* The campaign: an inductive invariant, with one command at a time.       *)

Places == {"off", "resumed", "claimed", "running", "validated", "failing", "passed", "failed", "dead"}
Whereabouts == [place : Places, mine : {NoAttempt} \cup Attempts]
Commands == [under : {"way"}, state : States, next : Whereabouts]

OneCommand ==
  /\ hand \in [Processes -> {NoCommand} \cup Commands]
  /\ \A p, q \in Processes : hand[p] # NoCommand /\ hand[q] # NoCommand => p = q

\* A script with an attempt has one that exists and that no other script has; it has
\* seen the evidence before it calls it validated, and has it recorded before it
\* reports the run as passed.
ScriptsOK ==
  /\ runner \in [Processes -> Whereabouts]
  /\ \A p \in Runners :
       LET mine == runner[p].mine
       IN  /\ mine # NoAttempt =>
                Exists(file, mine) /\ \A q \in Runners \ {p} : runner[q].mine # mine
           /\ At(p, "validated") => mine \in evidenced
           /\ At(p, "passed") => mine # NoAttempt /\ file.cells[mine.run].valid = mine.attempt

\* What a command is about to save is consistent and keeps the history of the file,
\* and its script may go on as it intends.
CommandOK(p, state, next) ==
  /\ StateOK(state) /\ RestsOnEvidence(state) /\ HistoryKept(file, state)
  /\ next \in Whereabouts /\ next.place # "validated"
  /\ next.mine # NoAttempt =>
       Exists(state, next.mine) /\ \A q \in Runners \ {p} : runner[q].mine # next.mine
  /\ next.place = "passed" =>
       next.mine # NoAttempt /\ state.cells[next.mine.run].valid = next.mine.attempt

CampaignInvariant ==
  /\ StateOK(file) /\ RestsOnEvidence(file)
  /\ OneCommand /\ ScriptsOK
  /\ \A p \in Processes : hand[p] # NoCommand => CommandOK(p, hand[p].state, hand[p].next)

\* What exists goes on existing, and what counts goes on counting.
LEMMA ExistingIsKept ==
  ASSUME NEW s, StateOK(s), NEW t, StateOK(t), HistoryKept(s, t), NEW a, Exists(s, a)
  PROVE  /\ Exists(t, a)
         /\ s.cells[a.run].valid = a.attempt => t.cells[a.run].valid = a.attempt
<1>1. a.run \in 1..Runs /\ a.attempt \in Nat \ {0} /\ a \in Attempts
  BY DEF Exists, Attempts
<1>2. s.cells[a.run].attempts \in Seq(Marks) /\ t.cells[a.run].attempts \in Seq(Marks)
  BY <1>1 DEF StateOK, States, CellStates
<1>3. CellKept(s.cells[a.run], t.cells[a.run])
  BY <1>1 DEF HistoryKept
<1>4. a.attempt \in DOMAIN t.cells[a.run].attempts
  BY <1>1, <1>2, <1>3, LenProperties DEF Exists, CellKept
<1> QED BY <1>1, <1>3, <1>4 DEF Exists, CellKept

\* The first state.
LEMMA CampaignInit == Init => CampaignInvariant
<1> SUFFICES ASSUME Init PROVE CampaignInvariant
  OBVIOUS
<1>1. PendingCell \in CellStates /\ PendingCell.attempts = << >> /\ PendingCell.status = "pending"
      /\ PendingCell.valid = 0
  BY EmptySeq DEF PendingCell, CellStates
<1>2. CellOK(PendingCell)
  BY <1>1, EmptySeq, CampaignAssumption DEF CellOK
<1>3. file \in States /\ file.active = NoAttempt /\ \A r \in 1..Runs : file.cells[r] = PendingCell
  BY <1>1 DEF Init, States
<1>4. DOMAIN PendingCell.attempts = {}
  BY <1>1, EmptySeq, LenProperties
<1>5. StateOK(file) /\ RestsOnEvidence(file)
  BY <1>1, <1>2, <1>3, <1>4 DEF StateOK, RestsOnEvidence
<1>6. Idle \in Whereabouts /\ Idle.place = "off" /\ Idle.mine = NoAttempt
  BY DEF Idle, Whereabouts, Places
<1>7. OneCommand
  BY DEF Init, OneCommand
<1>8. ScriptsOK
  BY <1>6 DEF Init, ScriptsOK, At, Processes
<1> QED BY <1>5, <1>7, <1>8 DEF Init, CampaignInvariant

\* The file is replaced by what the one command under way has computed.
LEMMA SaveKeeps ==
  ASSUME CampaignInvariant, NEW p \in Processes, hand[p] # NoCommand,
         file' = hand[p].state, hand' = [hand EXCEPT ![p] = NoCommand], evidenced' = evidenced,
         NEW next, CommandOK(p, hand[p].state, next), runner' = [runner EXCEPT ![p] = next]
  PROVE  CampaignInvariant' /\ HistoryKept(file, file')
<1>1. StateOK(file) /\ StateOK(file') /\ HistoryKept(file, file') /\ next \in Whereabouts
  BY DEF CampaignInvariant, CommandOK
<1>2. RestsOnEvidence(file)'
  BY DEF CommandOK, RestsOnEvidence
<1>3. OneCommand' /\ \A q \in Processes : hand'[q] = NoCommand
  BY DEF CampaignInvariant, OneCommand
<1>4. /\ runner' \in [Processes -> Whereabouts] /\ runner'[p] = next
      /\ \A q \in Processes : q # p => runner'[q] = runner[q]
      /\ Runners \subseteq Processes
  BY <1>1 DEF CampaignInvariant, ScriptsOK, Processes
<1>5. ASSUME NEW q \in Runners, q # p
      PROVE  /\ runner'[q].mine # NoAttempt =>
                  Exists(file', runner'[q].mine) /\ runner'[q].mine # runner'[p].mine
                  /\ \A r \in Runners \ {q} : runner'[r].mine # runner'[q].mine
             /\ runner'[q].place = "validated" => runner'[q].mine \in evidenced'
             /\ runner'[q].place = "passed" =>
                  runner'[q].mine # NoAttempt
                  /\ file'.cells[runner'[q].mine.run].valid = runner'[q].mine.attempt
  <2>1. runner'[q] = runner[q]
    BY <1>4, <1>5
  <2>2. runner[q].mine # NoAttempt =>
          Exists(file, runner[q].mine) /\ \A r \in Runners \ {q} : runner[r].mine # runner[q].mine
    BY DEF CampaignInvariant, ScriptsOK
  <2>3. /\ runner[q].place = "validated" => runner[q].mine \in evidenced
        /\ runner[q].place = "passed" =>
             runner[q].mine # NoAttempt
             /\ file.cells[runner[q].mine.run].valid = runner[q].mine.attempt
    BY DEF CampaignInvariant, ScriptsOK, At
  <2>4. runner[q].mine # NoAttempt => runner[q].mine # next.mine
    BY <1>5 DEF CommandOK
  <2> QED BY <1>1, <1>4, <2>1, <2>2, <2>3, <2>4, ExistingIsKept
<1>6. p \in Runners =>
        /\ next.mine # NoAttempt =>
             Exists(file', next.mine) /\ \A q \in Runners \ {p} : runner'[q].mine # next.mine
        /\ next.place # "validated"
        /\ next.place = "passed" =>
             next.mine # NoAttempt /\ file'.cells[next.mine.run].valid = next.mine.attempt
  BY <1>4 DEF CommandOK
<1>7. ScriptsOK'
  BY <1>4, <1>5, <1>6 DEF ScriptsOK, At
<1> QED BY <1>1, <1>2, <1>3, <1>7 DEF CampaignInvariant

\* A command that loads the file and computes something acceptable.
LEMMA IssueKeeps ==
  ASSUME CampaignInvariant, Serial, NEW p \in Processes, NEW state, NEW next,
         Issue(p, state, next), CommandOK(p, state, next)
  PROVE  CampaignInvariant' /\ file' = file
<1>1. /\ file' = file /\ runner' = runner /\ evidenced' = evidenced
      /\ \A q \in Processes : hand[q] = NoCommand
      /\ hand' = [hand EXCEPT ![p] = [under |-> "way", state |-> state, next |-> next]]
  BY DEF Issue
<1>2. state \in States /\ next \in Whereabouts
  BY DEF CommandOK, StateOK
<1>3. PICK c : c = [under |-> "way", state |-> state, next |-> next]
  OBVIOUS
<1>4. c \in Commands /\ c.state = state /\ c.next = next
  BY <1>2, <1>3 DEF Commands
<1>5. hand' \in [Processes -> {NoCommand} \cup Commands] /\ hand'[p] = c
      /\ \A q \in Processes : q # p => hand'[q] = NoCommand
  BY <1>1, <1>3, <1>4 DEF CampaignInvariant, OneCommand
<1>6. OneCommand'
  BY <1>5 DEF OneCommand
<1>7. CommandOK(p, state, next)'
  BY <1>1 DEF CommandOK, RestsOnEvidence
<1>8. StateOK(file)' /\ RestsOnEvidence(file)' /\ ScriptsOK'
  BY <1>1 DEF CampaignInvariant, RestsOnEvidence, ScriptsOK, At
<1> QED BY <1>1, <1>4, <1>5, <1>6, <1>7, <1>8 DEF CampaignInvariant

\* A script that moves on without a command, or dies with one.
LEMMA MoveKeeps ==
  ASSUME CampaignInvariant, NEW p \in Processes, file' = file,
         hand' \in [Processes -> {NoCommand} \cup Commands],
         \A q \in Processes : hand'[q] = IF q = p THEN NoCommand ELSE hand[q],
         evidenced \subseteq evidenced',
         NEW next \in Whereabouts, runner' = [runner EXCEPT ![p] = next],
         next.mine \in {runner[p].mine, NoAttempt}, next.place # "passed",
         next.place = "validated" => next.mine \in evidenced'
  PROVE  CampaignInvariant' /\ file' = file
<1>1. StateOK(file)' /\ RestsOnEvidence(file)'
  BY DEF CampaignInvariant, RestsOnEvidence
<1>2. OneCommand'
  BY DEF CampaignInvariant, OneCommand
<1>3. /\ runner' \in [Processes -> Whereabouts] /\ runner'[p] = next
      /\ \A q \in Processes : q # p => runner'[q] = runner[q]
      /\ Runners \subseteq Processes
      /\ \A q \in Processes : runner'[q].mine \in {runner[q].mine, NoAttempt}
  BY DEF CampaignInvariant, ScriptsOK, Processes
<1>4. ASSUME NEW q \in Runners
      PROVE  /\ runner'[q].mine # NoAttempt =>
                  Exists(file', runner'[q].mine)
                  /\ \A r \in Runners \ {q} : runner'[r].mine # runner'[q].mine
             /\ runner'[q].place = "validated" => runner'[q].mine \in evidenced'
             /\ runner'[q].place = "passed" =>
                  runner'[q].mine # NoAttempt
                  /\ file'.cells[runner'[q].mine.run].valid = runner'[q].mine.attempt
  <2>1. /\ runner[q].mine # NoAttempt =>
             Exists(file, runner[q].mine) /\ \A r \in Runners \ {q} : runner[r].mine # runner[q].mine
        /\ runner[q].place = "validated" => runner[q].mine \in evidenced
        /\ runner[q].place = "passed" =>
             runner[q].mine # NoAttempt
             /\ file.cells[runner[q].mine.run].valid = runner[q].mine.attempt
    BY DEF CampaignInvariant, ScriptsOK, At
  <2> QED BY <1>3, <2>1
<1>5. ScriptsOK'
  BY <1>3, <1>4 DEF ScriptsOK, At
<1>6. ASSUME NEW q \in Processes, hand'[q] # NoCommand
      PROVE  CommandOK(q, hand[q].state, hand[q].next)' /\ hand'[q] = hand[q]
  <2>1. q # p /\ hand'[q] = hand[q] /\ CommandOK(q, hand[q].state, hand[q].next)
    BY <1>6 DEF CampaignInvariant
  <2> QED BY <1>3, <2>1 DEF CommandOK, RestsOnEvidence
<1> QED BY <1>1, <1>2, <1>5, <1>6 DEF CampaignInvariant

\* The script goes on after a command that was refused, or after the evidence.
LEMMA RefusedKeeps ==
  ASSUME CampaignInvariant, NEW p \in Processes, NEW place \in Places, place # "passed",
         runner' = [runner EXCEPT ![p].place = place], hand[p] = NoCommand,
         file' = file, hand' = hand, evidenced \subseteq evidenced',
         place = "validated" => runner[p].mine \in evidenced'
  PROVE  CampaignInvariant' /\ file' = file
<1>1. PICK next : next = [runner[p] EXCEPT !.place = place]
  OBVIOUS
<1>2. runner[p] \in Whereabouts
  BY DEF CampaignInvariant, ScriptsOK
<1>3. next \in Whereabouts /\ next.place = place /\ next.mine = runner[p].mine
  BY <1>1, <1>2 DEF Whereabouts
<1>4. hand' \in [Processes -> {NoCommand} \cup Commands]
      /\ \A q \in Processes : hand'[q] = IF q = p THEN NoCommand ELSE hand[q]
  BY DEF CampaignInvariant, OneCommand
<1>5. runner' = [runner EXCEPT ![p] = next]
  BY <1>1
<1> QED BY ONLY CampaignInvariant, p \in Processes, file' = file, evidenced \subseteq evidenced',
               place # "passed", place = "validated" => runner[p].mine \in evidenced',
               <1>3, <1>4, <1>5, MoveKeeps

\* The script dies; the command it had under way dies with it or still saves.
LEMMA DiesKeeps ==
  ASSUME CampaignInvariant, NEW p \in Runners, Dies(p)
  PROVE  CampaignInvariant' /\ HistoryKept(file, file')
<1>1. PICK next : next = [Idle EXCEPT !.place = "dead"]
  OBVIOUS
<1>2. next \in Whereabouts /\ next.place = "dead" /\ next.mine = NoAttempt
  BY <1>1 DEF Idle, Whereabouts, Places
<1>3. p \in Processes /\ runner' = [runner EXCEPT ![p] = next] /\ evidenced' = evidenced
      /\ hand' = [hand EXCEPT ![p] = NoCommand]
  BY <1>1 DEF Dies, Processes
<1>4. hand' \in [Processes -> {NoCommand} \cup Commands]
      /\ \A q \in Processes : hand'[q] = IF q = p THEN NoCommand ELSE hand[q]
  BY <1>3 DEF CampaignInvariant, OneCommand
<1>5. CASE file' = file
  <2>1. CampaignInvariant'
    BY <1>2, <1>3, <1>4, <1>5, MoveKeeps
  <2>2. HistoryKept(file, file)
    <3> SUFFICES ASSUME NEW r \in 1..Runs PROVE CellKept(file.cells[r], file.cells[r])
      BY DEF HistoryKept
    <3>1. file.cells[r].attempts \in Seq(Marks)
      BY DEF CampaignInvariant, StateOK, States, CellStates
    <3>2. Len(file.cells[r].attempts) \in Nat
      BY <3>1, LenProperties
    <3> QED BY <3>2 DEF CellKept
  <2> QED BY <1>5, <2>1, <2>2
<1>6. CASE hand[p] # NoCommand /\ file' = hand[p].state
  <2>1. CommandOK(p, hand[p].state, next)
    BY <1>2, <1>3, <1>6 DEF CampaignInvariant, CommandOK
  <2> QED BY <1>3, <1>6, <2>1, SaveKeeps
<1> QED BY <1>5, <1>6 DEF Dies
-----------------------------------------------------------------------------
(* The commands of the script and of the operator.                         *)

\* What is known of the attempt of a script.
LEMMA OwnAttempt ==
  ASSUME CampaignInvariant, NEW p \in Runners
  PROVE  /\ p \in Processes /\ runner[p] \in Whereabouts
         /\ runner[p].mine # NoAttempt =>
              Exists(file, runner[p].mine) /\ \A q \in Runners \ {p} : runner[q].mine # runner[p].mine
         /\ At(p, "validated") => runner[p].mine \in evidenced
BY DEF CampaignInvariant, ScriptsOK, Processes

\* Resuming.
LEMMA ScriptResumeKeeps ==
  ASSUME CampaignInvariant, Serial, NEW p \in Runners, ScriptResume(p)
  PROVE  CampaignInvariant' /\ file' = file
<1>1. PICK state, next : /\ state = Resume(file) /\ next = [place |-> "resumed", mine |-> NoAttempt]
                         /\ Issue(p, state, next)
  BY DEF ScriptResume
<1>2. StateOK(state) /\ HistoryKept(file, state) /\ \A r \in 1..Runs : state.cells[r] = file.cells[r]
  BY <1>1, PauseKeeps DEF CampaignInvariant
<1>3. RestsOnEvidence(state)
  BY <1>2 DEF CampaignInvariant, RestsOnEvidence
<1>4. next \in Whereabouts /\ next.place = "resumed" /\ next.mine = NoAttempt
  BY <1>1 DEF Whereabouts, Places
<1>5. CommandOK(p, state, next)
  BY <1>2, <1>3, <1>4 DEF CommandOK
<1> QED BY <1>1, <1>5, OwnAttempt, IssueKeeps

\* Claiming: the new attempt is nobody else's.
LEMMA ScriptClaimKeeps ==
  ASSUME CampaignInvariant, Serial, NEW p \in Runners, ScriptClaim(p)
  PROVE  CampaignInvariant' /\ file' = file
<1>1. PICK r \in 1..Runs :
        IF CanClaim(file, r)
        THEN /\ Len(file.cells[r].attempts) < MaxAttempts
             /\ Issue(p, Claim(file, r), [place |-> "claimed", mine |-> NextAttempt(file, r)])
        ELSE Refused(p, "failed")
  BY DEF ScriptClaim
<1>2. CASE CanClaim(file, r)
  <2>1. PICK state, a : state = Claim(file, r) /\ a = NextAttempt(file, r)
    OBVIOUS
  <2>2. PICK next : next = [place |-> "claimed", mine |-> a]
    OBVIOUS
  <2>3. StateOK(file) /\ Len(file.cells[r].attempts) < MaxAttempts /\ Issue(p, state, next)
    BY <1>1, <1>2, <2>1, <2>2 DEF CampaignInvariant
  <2>4. /\ StateOK(state) /\ HistoryKept(file, state)
        /\ \A q \in 1..Runs : state.cells[q].valid = file.cells[q].valid
        /\ Exists(state, a) /\ ~ Exists(file, a)
    BY <1>2, <2>1, <2>3, ClaimKeeps
  <2>5. RestsOnEvidence(state)
    BY <2>4 DEF CampaignInvariant, RestsOnEvidence
  <2>6. a \in Attempts
    BY <2>4 DEF Exists
  <2>7. next \in Whereabouts /\ next.place = "claimed" /\ next.mine = a
    BY <2>2, <2>6 DEF Whereabouts, Places
  <2>8. \A q \in Runners \ {p} : runner[q].mine # a
    <3> TAKE q \in Runners \ {p}
    <3>1. runner[q].mine # NoAttempt => Exists(file, runner[q].mine)
      BY OwnAttempt
    <3>2. a # NoAttempt
      BY <2>4, NoAttemptExists
    <3> QED BY <2>4, <3>1, <3>2
  <2>9. CommandOK(p, state, next)
    BY <2>4, <2>5, <2>7, <2>8 DEF CommandOK
  <2> QED BY <2>3, <2>9, OwnAttempt, IssueKeeps
<1>3. CASE ~ CanClaim(file, r)
  <2>1. "failed" \in Places
    BY DEF Places
  <2> QED BY <1>1, <1>3, <2>1, OwnAttempt, RefusedKeeps DEF Refused
<1> QED BY <1>2, <1>3

\* Starting, or failing.
LEMMA ScriptStartKeeps ==
  ASSUME CampaignInvariant, Serial, NEW p \in Runners, ScriptStart(p)
  PROVE  CampaignInvariant' /\ file' = file
<1>1. CASE CanStart(file, runner[p].mine)
  <2>1. PICK state, next : /\ state = Start(file, runner[p].mine) /\ next = Moved(p, "running")
                           /\ Issue(p, state, next)
    BY <1>1 DEF ScriptStart
  <2>2. /\ StateOK(state) /\ HistoryKept(file, state) /\ Exists(state, runner[p].mine)
        /\ \A q \in 1..Runs : state.cells[q].valid = file.cells[q].valid
    BY <1>1, <2>1, StartKeeps DEF CampaignInvariant
  <2>3. RestsOnEvidence(state)
    BY <2>2 DEF CampaignInvariant, RestsOnEvidence
  <2>4. next \in Whereabouts /\ next.place = "running" /\ next.mine = runner[p].mine
    BY <2>1, OwnAttempt DEF Moved, Whereabouts, Places
  <2>5. CommandOK(p, state, next)
    BY <2>2, <2>3, <2>4, OwnAttempt DEF CommandOK
  <2> QED BY <2>1, <2>5, OwnAttempt, IssueKeeps
<1>2. CASE ~ CanStart(file, runner[p].mine)
  <2>1. Refused(p, "failing") /\ "failing" \in Places
    BY <1>2 DEF ScriptStart, Places
  <2> QED BY <2>1, OwnAttempt, RefusedKeeps DEF Refused
<1> QED BY <1>1, <1>2

\* Finishing with any result; only a validated attempt is finished as valid.
LEMMA FinishIssued ==
  ASSUME CampaignInvariant, Serial, NEW p \in Processes, NEW a, CanFinish(file, a),
         NEW result \in Settled, NEW next \in Whereabouts, Issue(p, Finish(file, a, result), next),
         next.place \notin {"validated"},
         next.mine # NoAttempt =>
           next.mine = a /\ \A q \in Runners \ {p} : runner[q].mine # next.mine,
         next.place = "passed" => next.mine # NoAttempt /\ result = "valid",
         result = "valid" => a \in evidenced
  PROVE  CampaignInvariant' /\ file' = file
<1>1. PICK state : state = Finish(file, a, result)
  OBVIOUS
<1>2. /\ StateOK(state) /\ HistoryKept(file, state) /\ Exists(state, a) /\ a # NoAttempt
      /\ \A q \in 1..Runs : state.cells[q].valid =
           IF q = a.run /\ result = "valid" THEN a.attempt ELSE file.cells[q].valid
  BY <1>1, FinishKeeps DEF CampaignInvariant
<1>3. a \in Attempts /\ a.run \in 1..Runs /\ a = [run |-> a.run, attempt |-> a.attempt]
  BY <1>2 DEF Exists, Attempts
<1>4. RestsOnEvidence(state)
  BY <1>2, <1>3 DEF CampaignInvariant, RestsOnEvidence
<1>5. next.place = "passed" =>
        next.mine # NoAttempt /\ state.cells[next.mine.run].valid = next.mine.attempt
  BY <1>2, <1>3
<1>6. CommandOK(p, state, next)
  BY <1>2, <1>4, <1>5 DEF CommandOK
<1> QED BY <1>1, <1>6, IssueKeeps

\* The script's own attempt, as valid.
LEMMA ScriptFinishKeeps ==
  ASSUME CampaignInvariant, Serial, NEW p \in Runners, ScriptFinish(p)
  PROVE  CampaignInvariant' /\ file' = file
<1>1. CASE CanFinish(file, runner[p].mine)
  <2>1. PICK a : a = runner[p].mine
    OBVIOUS
  <2>2. PICK next : next = Moved(p, "passed")
    OBVIOUS
  <2>3. CanFinish(file, a) /\ Issue(p, Finish(file, a, "valid"), next)
    BY <1>1, <2>1, <2>2 DEF ScriptFinish
  <2>4. next \in Whereabouts /\ next.place = "passed" /\ next.mine = a
    BY <2>1, <2>2, OwnAttempt DEF Moved, Whereabouts, Places
  <2>5. a # NoAttempt
    BY <2>3 DEF CanFinish, IsActive
  <2>6. "valid" \in Settled /\ a \in evidenced /\ p \in Processes
        /\ \A q \in Runners \ {p} : runner[q].mine # a
    BY <2>1, <2>5, OwnAttempt DEF ScriptFinish, Settled
  <2> QED BY <2>3, <2>4, <2>5, <2>6, FinishIssued
<1>2. CASE ~ CanFinish(file, runner[p].mine)
  <2>1. Refused(p, "failing") /\ "failing" \in Places
    BY <1>2 DEF ScriptFinish, Places
  <2> QED BY <2>1, OwnAttempt, RefusedKeeps DEF Refused
<1> QED BY <1>1, <1>2

\* The same, as invalid.
LEMMA ScriptFinishInvalidKeeps ==
  ASSUME CampaignInvariant, Serial, NEW p \in Runners, ScriptFinishInvalid(p)
  PROVE  CampaignInvariant' /\ file' = file
<1>1. CASE CanFinish(file, runner[p].mine)
  <2>1. PICK a : a = runner[p].mine
    OBVIOUS
  <2>2. PICK next : next = Moved(p, "failed")
    OBVIOUS
  <2>3. CanFinish(file, a) /\ Issue(p, Finish(file, a, "invalid"), next)
    BY <1>1, <2>1, <2>2 DEF ScriptFinishInvalid
  <2>4. next \in Whereabouts /\ next.place = "failed" /\ next.mine = a
    BY <2>1, <2>2, OwnAttempt DEF Moved, Whereabouts, Places
  <2>5. a # NoAttempt
    BY <2>3 DEF CanFinish, IsActive
  <2>6. "invalid" \in Settled /\ p \in Processes /\ \A q \in Runners \ {p} : runner[q].mine # a
    BY <2>1, <2>5, OwnAttempt DEF Settled
  <2> QED BY <2>3, <2>4, <2>5, <2>6, FinishIssued
<1>2. CASE ~ CanFinish(file, runner[p].mine)
  <2>1. Refused(p, "failed") /\ "failed" \in Places
    BY <1>2 DEF ScriptFinishInvalid, Places
  <2> QED BY <2>1, OwnAttempt, RefusedKeeps DEF Refused
<1> QED BY <1>1, <1>2

\* The operator, whose commands are nobody's own.
LEMMA OperatorKeeps ==
  ASSUME CampaignInvariant, Serial, OperatorCommands
  PROVE  CampaignInvariant' /\ file' = file
<1>1. Idle \in Whereabouts /\ Idle.place = "off" /\ Idle.mine = NoAttempt
  BY DEF Idle, Whereabouts, Places
<1>2. "operator" \in Processes
  BY DEF Processes
<1>3. ASSUME NEW state \in {Pause(file), Resume(file)}, Issue("operator", state, Idle)
      PROVE  CampaignInvariant' /\ file' = file
  <2>1. StateOK(state) /\ HistoryKept(file, state) /\ \A r \in 1..Runs : state.cells[r] = file.cells[r]
    BY PauseKeeps DEF CampaignInvariant
  <2>2. RestsOnEvidence(state)
    BY <2>1 DEF CampaignInvariant, RestsOnEvidence
  <2>3. CommandOK("operator", state, Idle)
    BY <1>1, <2>1, <2>2 DEF CommandOK
  <2> QED BY <1>2, <1>3, <2>3, IssueKeeps
<1>4. CASE CanFinish(file, file.active) /\ Issue("operator", Finish(file, file.active, "aborted"), Idle)
  <2>1. PICK a : a = file.active
    OBVIOUS
  <2>2. "aborted" \in Settled
    BY DEF Settled
  <2> QED BY <1>1, <1>2, <1>4, <2>1, <2>2, FinishIssued
<1> QED BY <1>3, <1>4 DEF OperatorCommands

\* The evidence is in, one way or the other.
LEMMA EvidenceKeeps ==
  ASSUME CampaignInvariant, NEW p \in Runners, EvidencePasses(p) \/ EvidenceFails(p)
  PROVE  CampaignInvariant' /\ file' = file
<1>1. p \in Processes /\ "validated" \in Places /\ "failing" \in Places
  BY OwnAttempt DEF Places
<1>2. CASE EvidencePasses(p)
  <2>1. PICK place : place = "validated"
    OBVIOUS
  <2>2. /\ runner' = [runner EXCEPT ![p].place = place] /\ hand[p] = NoCommand
        /\ file' = file /\ hand' = hand /\ evidenced \subseteq evidenced'
        /\ runner[p].mine \in evidenced'
    BY <1>2, <2>1 DEF EvidencePasses
  <2> QED BY <1>1, <2>1, <2>2, RefusedKeeps
<1>3. CASE EvidenceFails(p)
  BY <1>1, <1>3, RefusedKeeps DEF EvidenceFails, Refused
<1> QED BY <1>2, <1>3

\* What a process had under way is saved.
LEMMA SavedKeeps ==
  ASSUME CampaignInvariant, NEW p \in Processes, Save(p)
  PROVE  CampaignInvariant' /\ HistoryKept(file, file')
<1>1. PICK next : next = hand[p].next
  OBVIOUS
<1>2. /\ hand[p] # NoCommand /\ file' = hand[p].state /\ hand' = [hand EXCEPT ![p] = NoCommand]
      /\ evidenced' = evidenced /\ runner' = [runner EXCEPT ![p] = next]
  BY <1>1 DEF Save
<1>3. CommandOK(p, hand[p].state, next)
  BY <1>1, <1>2 DEF CampaignInvariant
<1> QED BY <1>2, <1>3, SaveKeeps

\* A file that does not change keeps its history.
LEMMA HistoryStays ==
  ASSUME StateOK(file), file' = file
  PROVE  HistoryKept(file, file')
<1> SUFFICES ASSUME NEW r \in 1..Runs PROVE CellKept(file.cells[r], file.cells[r])
  BY DEF HistoryKept
<1>1. file.cells[r].attempts \in Seq(Marks)
  BY DEF StateOK, States, CellStates
<1>2. Len(file.cells[r].attempts) \in Nat
  BY <1>1, LenProperties
<1> QED BY <1>2 DEF CellKept

\* Every step.
LEMMA CampaignStep ==
  ASSUME CampaignInvariant, Serial, [Next]_vars
  PROVE  CampaignInvariant' /\ HistoryKept(file, file')
<1>1. StateOK(file)
  BY DEF CampaignInvariant
<1>2. ASSUME NEW p \in Processes, Save(p) PROVE CampaignInvariant' /\ HistoryKept(file, file')
  BY <1>2, SavedKeeps
<1>3. ASSUME NEW p \in Runners, ScriptResume(p) PROVE CampaignInvariant' /\ file' = file
  BY <1>3, ScriptResumeKeeps
<1>4. ASSUME NEW p \in Runners, ScriptClaim(p) PROVE CampaignInvariant' /\ file' = file
  BY <1>4, ScriptClaimKeeps
<1>5. ASSUME NEW p \in Runners, ScriptStart(p) PROVE CampaignInvariant' /\ file' = file
  BY <1>5, ScriptStartKeeps
<1>6. ASSUME NEW p \in Runners, EvidencePasses(p) \/ EvidenceFails(p)
      PROVE  CampaignInvariant' /\ file' = file
  BY <1>6, EvidenceKeeps
<1>7. ASSUME NEW p \in Runners, ScriptFinish(p) PROVE CampaignInvariant' /\ file' = file
  BY <1>7, ScriptFinishKeeps
<1>8. ASSUME NEW p \in Runners, ScriptFinishInvalid(p) PROVE CampaignInvariant' /\ file' = file
  BY <1>8, ScriptFinishInvalidKeeps
<1>9. ASSUME NEW p \in Runners, Dies(p) PROVE CampaignInvariant' /\ HistoryKept(file, file')
  BY <1>9, DiesKeeps
<1>10. CASE OperatorCommands
  BY <1>1, <1>10, OperatorKeeps, HistoryStays
<1>11. CASE UNCHANGED vars
  <2>1. CampaignInvariant'
    BY <1>11 DEF vars, CampaignInvariant, OneCommand, ScriptsOK, RestsOnEvidence, CommandOK, At
  <2> QED BY <1>1, <1>11, <2>1, HistoryStays DEF vars
<1> QED
  BY <1>1, <1>2, <1>3, <1>4, <1>5, <1>6, <1>7, <1>8, <1>9, <1>10, <1>11, HistoryStays DEF Next

\* The invariant, always, while no two commands are under way at once.
THEOREM CampaignIsConsistent ==
  ASSUME Serial PROVE Spec => []CampaignInvariant
<1>1. CampaignInvariant /\ [Next]_vars => CampaignInvariant'
  BY CampaignStep
<1> QED BY <1>1, CampaignInit, PTL DEF Spec
-----------------------------------------------------------------------------
(* What the invariant says.                                                *)

\* One attempt at most is unsettled - the one the file names as active - and no two
\* scripts work on the same one, with the manager's commands one at a time.
THEOREM OneActiveAttempt ==
  ASSUME Serial PROVE Spec => []SingleActiveAttempt
<1>1. CampaignInvariant => SingleActiveAttempt
  BY DEF CampaignInvariant, StateOK, ScriptsOK, SingleActiveAttempt
<1> QED BY <1>1, CampaignIsConsistent, PTL

\* Attempts are only added, settled ones never change, and neither does the one a
\* cell counts as valid.
THEOREM HistoryIsNeverRewritten ==
  ASSUME Serial PROVE Spec => HistoryIsImmutable
<1>1. CampaignInvariant /\ [Next]_vars => HistoryKept(file, file')
  BY CampaignStep
<1>2. CampaignInvariant /\ [Next]_vars =>
        [\A r \in 1..Runs :
           LET before == file.cells[r]
               after == file'.cells[r]
           IN  /\ Len(before.attempts) <= Len(after.attempts)
               /\ \A n \in DOMAIN before.attempts :
                    before.attempts[n] \notin Unsettled => after.attempts[n] = before.attempts[n]
               /\ before.valid # 0 => after.valid = before.valid]_vars
  BY <1>1 DEF HistoryKept, CellKept
<1> QED BY <1>2, CampaignIsConsistent, PTL DEF Spec, HistoryIsImmutable

\* A cell that counts a valid attempt has seen its evidence, and a script that says
\* its run has passed has it recorded.
THEOREM AcceptedRunsHaveEvidence ==
  ASSUME Serial PROVE Spec => []AcceptedOnEvidence
<1>1. ASSUME CampaignInvariant, NEW r \in 1..Runs, file.cells[r].valid # 0
      PROVE  /\ file.cells[r].attempts[file.cells[r].valid] = "valid"
             /\ [run |-> r, attempt |-> file.cells[r].valid] \in evidenced
  <2>1. CellOK(file.cells[r])
    BY <1>1 DEF CampaignInvariant, StateOK
  <2>2. file.cells[r].status = "valid" /\ file.cells[r].valid = Len(file.cells[r].attempts)
    BY <1>1, <2>1 DEF CellOK
  <2>3. file.cells[r].attempts[file.cells[r].valid] = "valid"
    BY <2>1, <2>2 DEF CellOK
  <2> QED BY <1>1, <2>3 DEF CampaignInvariant, RestsOnEvidence
<1>2. CampaignInvariant => AcceptedOnEvidence
  BY <1>1 DEF CampaignInvariant, ScriptsOK, AcceptedOnEvidence
<1> QED BY <1>2, CampaignIsConsistent, PTL
-----------------------------------------------------------------------------
(* The audit.                                                              *)

\* A cell that is valid: its last attempt is the one that counts, and all before it
\* are invalid or aborted.
LEMMA ValidCell ==
  ASSUME StateOK(file), NEW r \in 1..Runs, file.cells[r].status = "valid"
  PROVE  /\ file.cells[r].attempts \in Seq(Marks) /\ Len(file.cells[r].attempts) \in 1..MaxAttempts
         /\ DOMAIN file.cells[r].attempts = 1..Len(file.cells[r].attempts)
         /\ file.cells[r].valid = Len(file.cells[r].attempts)
         /\ \A n \in 1..Len(file.cells[r].attempts) :
              IF n = Len(file.cells[r].attempts)
              THEN file.cells[r].attempts[n] = "valid"
              ELSE file.cells[r].attempts[n] \in {"invalid", "aborted"}
<1>1. PICK old : old = file.cells[r].attempts
  OBVIOUS
<1>2. file.cells[r] \in CellStates /\ CellOK(file.cells[r])
  BY DEF StateOK, States
<1>3. old \in Seq(Marks) /\ Len(old) \in Nat /\ DOMAIN old = 1..Len(old)
  BY <1>1, <1>2, LenProperties DEF CellStates
<1>4. old # << >> /\ old[Len(old)] = "valid" /\ Len(old) <= MaxAttempts
      /\ file.cells[r].valid = Len(old)
  BY <1>1, <1>2 DEF CellOK
<1>5. Len(old) \in 1..MaxAttempts
  BY <1>3, <1>4, EmptySeq, CampaignAssumption
<1>6. ASSUME NEW n \in 1..Len(old), n # Len(old) PROVE old[n] \in {"invalid", "aborted"}
  <2>1. old[n] \in Marks
    BY <1>3, <1>6, ElementOfSeq
  <2>2. old[n] \notin Unsettled \cup {"valid"}
    BY <1>1, <1>2, <1>3, <1>6 DEF CellOK
  <2> QED BY <2>1, <2>2 DEF Marks, Settled
<1> QED BY <1>1, <1>3, <1>4, <1>5, <1>6

\* The attempts that count, one of each cell.
Counted == {Attempt(r, file.cells[r].valid) : r \in 1..Runs}

\* What was claimed is finite.
LEMMA AttemptsAreFinite ==
  ASSUME NEW S, NEW T, S = (1..Runs) \X (1..MaxAttempts),
         T = {Attempt(x[1], x[2]) : x \in S}
  PROVE  IsFiniteSet(T)
<1>1. IsFiniteSet(1..Runs) /\ IsFiniteSet(1..MaxAttempts)
  BY FS_Interval, CampaignAssumption
<1>2. IsFiniteSet(S)
  BY <1>1, FS_Product
<1>3. [x \in S |-> Attempt(x[1], x[2])] \in Surjection(S, T)
  BY DEF Surjection
<1> QED BY <1>2, <1>3, FS_Surjection

\* As many attempts count as there are cells.
LEMMA OneCountsInEachCell ==
  IsFiniteSet(Counted) /\ Cardinality(Counted) = Cardinality(1..Runs) /\ Cardinality(1..Runs) \in Nat
<1>1. PICK f : f = [r \in 1..Runs |-> Attempt(r, file.cells[r].valid)]
  OBVIOUS
<1>2. f \in Surjection(1..Runs, Counted)
  BY <1>1 DEF Surjection, Counted
<1>3. f \in Injection(1..Runs, Counted)
  BY <1>1 DEF Injection, IsInjective, Counted, Attempt
<1>4. IsFiniteSet(1..Runs)
  BY FS_Interval, CampaignAssumption
<1> QED BY <1>2, <1>3, <1>4, FS_Surjection, FS_CardinalityType

\* In an audit that passes, an attempt either counts or failed.
LEMMA EveryAttemptCountsOrFailed ==
  ASSUME StateOK(file), AuditPasses
  PROVE  /\ EveryAttempt = FailedAttempts \cup Counted /\ FailedAttempts \cap Counted = {}
         /\ {a.run : a \in FailedAttempts} = {r \in 1..Runs : Len(file.cells[r].attempts) > 1}
<1>1. Completed = 1..Runs /\ \A r \in 1..Runs : file.cells[r].status = "valid"
  BY DEF AuditPasses, Completed
<1>2. \A r, n : Attempt(r, n).run = r /\ Attempt(r, n).attempt = n
  BY DEF Attempt
<1>3. ASSUME NEW r \in 1..Runs, NEW n \in 1..MaxAttempts
      PROVE  /\ Attempt(r, n) \in EveryAttempt <=> n \in 1..Len(file.cells[r].attempts)
             /\ Attempt(r, n) \in FailedAttempts <=>
                  n \in 1..Len(file.cells[r].attempts) /\ n # Len(file.cells[r].attempts)
             /\ Attempt(r, n) \in Counted <=> n = Len(file.cells[r].attempts)
  <2>1. /\ DOMAIN file.cells[r].attempts = 1..Len(file.cells[r].attempts)
        /\ file.cells[r].valid = Len(file.cells[r].attempts)
        /\ Len(file.cells[r].attempts) \in 1..MaxAttempts
        /\ \A k \in 1..Len(file.cells[r].attempts) :
             IF k = Len(file.cells[r].attempts)
             THEN file.cells[r].attempts[k] = "valid"
             ELSE file.cells[r].attempts[k] \in {"invalid", "aborted"}
    BY <1>1, ValidCell
  <2>2. Attempt(r, n) \in EveryAttempt <=> n \in 1..Len(file.cells[r].attempts)
    BY <2>1, <1>2 DEF EveryAttempt
  <2>3. Attempt(r, n) \in FailedAttempts <=>
          /\ n \in 1..Len(file.cells[r].attempts)
          /\ file.cells[r].attempts[n] \in {"invalid", "aborted"}
    BY <2>1, <1>1, <1>2 DEF FailedAttempts
  <2>4. Attempt(r, n) \in Counted <=> n = Len(file.cells[r].attempts)
    BY <2>1, <1>2 DEF Counted, Attempt
  <2> QED BY <2>1, <2>2, <2>3, <2>4
<1>4. ASSUME NEW a \in EveryAttempt \cup FailedAttempts \cup Counted
      PROVE  \E r \in 1..Runs, n \in 1..MaxAttempts : a = Attempt(r, n)
  <2>1. \A r \in 1..Runs : file.cells[r].valid \in 1..MaxAttempts
    BY <1>1, ValidCell
  <2> QED BY <2>1, <1>1, <1>4 DEF EveryAttempt, FailedAttempts, Counted
<1>5. EveryAttempt = FailedAttempts \cup Counted /\ FailedAttempts \cap Counted = {}
  <2>1. ASSUME NEW r \in 1..Runs, NEW n \in 1..MaxAttempts
        PROVE  /\ Attempt(r, n) \in EveryAttempt
                    <=> Attempt(r, n) \in FailedAttempts \/ Attempt(r, n) \in Counted
               /\ ~ (Attempt(r, n) \in FailedAttempts /\ Attempt(r, n) \in Counted)
    <3>1. Len(file.cells[r].attempts) \in 1..MaxAttempts
      BY <1>1, ValidCell
    <3> QED BY <1>3, <3>1
  <2> QED BY <1>4, <2>1
<1>6. \A a \in FailedAttempts : a.run \in 1..Runs /\ Len(file.cells[a.run].attempts) > 1
  <2> TAKE a \in FailedAttempts
  <2>1. PICK r \in 1..Runs, n \in 1..MaxAttempts : a = Attempt(r, n)
    BY <1>4
  <2>2. Len(file.cells[r].attempts) \in 1..MaxAttempts
    BY <1>1, ValidCell
  <2> QED BY <2>1, <2>2, <1>2, <1>3
<1>7. ASSUME NEW r \in 1..Runs, Len(file.cells[r].attempts) > 1
      PROVE  \E a \in FailedAttempts : a.run = r
  <2>1. Len(file.cells[r].attempts) \in 1..MaxAttempts
    BY <1>1, ValidCell
  <2>2. 1 \in 1..MaxAttempts /\ 1 \in 1..Len(file.cells[r].attempts)
    BY <2>1, <1>7, CampaignAssumption
  <2>3. Attempt(r, 1) \in FailedAttempts
    BY <2>2, <1>3, <1>7
  <2> QED BY <2>3, <1>2
<1> QED BY <1>5, <1>6, <1>7

\* A campaign that is over passes the audit, and the audit that passes adds up: every
\* attempt ever claimed is the one its cell completed with, and retained, or is listed
\* as failed.
THEOREM AuditAddsUp ==
  ASSUME Serial PROVE Spec => []AuditAccountsForEveryAttempt
<1>1. ASSUME CampaignInvariant, \A r \in 1..Runs : file.cells[r].status = "valid", file.paused
      PROVE  AuditPasses
  <2>1. StateOK(file)
    BY <1>1 DEF CampaignInvariant
  <2>2. \A r \in 1..Runs : file.cells[r].valid # 0
    BY <1>1, <2>1, ValidCell
  <2>3. Completed = 1..Runs
    BY <1>1, <2>2 DEF Completed, Attempt, CampaignInvariant, RestsOnEvidence
  <2>4. file.active = NoAttempt
    <3> SUFFICES ASSUME file.active # NoAttempt PROVE FALSE
      OBVIOUS
    <3>1. PICK a : a = file.active
      OBVIOUS
    <3>2. a \in Attempts /\ a.run \in 1..Runs /\ a.attempt \in DOMAIN file.cells[a.run].attempts
          /\ a = [run |-> a.run, attempt |-> a.attempt]
      BY <2>1, <3>1 DEF StateOK, Exists, Attempts
    <3>3. file.cells[a.run].attempts[a.attempt] \in Unsettled
      BY <2>1, <3>1, <3>2 DEF StateOK
    <3>4. file.cells[a.run].attempts[a.attempt] \in Settled
      BY <1>1, <2>1, <3>2, ValidCell DEF Settled
    <3> QED BY <3>3, <3>4 DEF Unsettled, Settled
  <2> QED BY <1>1, <2>3, <2>4 DEF AuditPasses
<1>2. ASSUME CampaignInvariant, AuditPasses
      PROVE  /\ Audit.valid + Audit.failedOrAborted = Cardinality(EveryAttempt)
             /\ Audit.cellsWithRetries
                  = Cardinality({r \in 1..Runs : Len(file.cells[r].attempts) > 1})
  <2>1. StateOK(file) /\ Completed = 1..Runs
    BY <1>2 DEF CampaignInvariant, AuditPasses
  <2>2. /\ EveryAttempt = FailedAttempts \cup Counted /\ FailedAttempts \cap Counted = {}
        /\ {a.run : a \in FailedAttempts} = {r \in 1..Runs : Len(file.cells[r].attempts) > 1}
    BY <1>2, <2>1, EveryAttemptCountsOrFailed
  <2>3. IsFiniteSet(FailedAttempts)
    <3>1. PICK S : S = (1..Runs) \X (1..MaxAttempts)
      OBVIOUS
    <3>2. PICK T : T = {Attempt(x[1], x[2]) : x \in S}
      OBVIOUS
    <3>3. ASSUME NEW a \in FailedAttempts PROVE a \in T
      <4>1. PICK r \in 1..Runs, n \in 1..MaxAttempts : a = Attempt(r, n)
        BY <2>1 DEF FailedAttempts
      <4>2. PICK x : x = <<r, n>>
        OBVIOUS
      <4>3. x \in S /\ a = Attempt(x[1], x[2])
        BY <3>1, <4>1, <4>2
      <4> QED BY <3>2, <4>3
    <3> QED BY <3>1, <3>2, <3>3, AttemptsAreFinite, FS_Subset
  <2>4. Cardinality(EveryAttempt)
          = Cardinality(FailedAttempts) + Cardinality(Counted) - Cardinality({})
    BY <2>2, <2>3, OneCountsInEachCell, FS_Union
  <2>5. Cardinality({}) = 0 /\ Cardinality(FailedAttempts) \in Nat
        /\ Cardinality(Counted) = Cardinality(Completed) /\ Cardinality(Completed) \in Nat
    BY <2>1, <2>3, OneCountsInEachCell, FS_EmptySet, FS_CardinalityType
  <2>6. /\ Audit.valid = Cardinality(Completed) /\ Audit.failedOrAborted = Cardinality(FailedAttempts)
        /\ Audit.cellsWithRetries = Cardinality({a.run : a \in FailedAttempts})
    BY DEF Audit
  <2>7. Audit.valid + Audit.failedOrAborted = Cardinality(EveryAttempt)
    BY <2>4, <2>5, <2>6
  <2> QED BY <2>2, <2>6, <2>7
<1>3. ASSUME CampaignInvariant, AuditPasses, NEW r \in 1..Runs,
             NEW n \in DOMAIN file.cells[r].attempts
      PROVE  /\ n = Len(file.cells[r].attempts) <=> Disposition(Attempt(r, n)) = "retained"
             /\ n # Len(file.cells[r].attempts) <=> Attempt(r, n) \in FailedAttempts
  <2>1. /\ file.cells[r].status = "valid" /\ StateOK(file) /\ Completed = 1..Runs
        /\ Attempt(r, n).run = r /\ Attempt(r, n).attempt = n
    BY <1>3 DEF AuditPasses, Completed, CampaignInvariant, Attempt
  <2>2. /\ file.cells[r].valid = Len(file.cells[r].attempts)
        /\ Len(file.cells[r].attempts) \in 1..MaxAttempts /\ n \in 1..MaxAttempts
        /\ n \in 1..Len(file.cells[r].attempts)
        /\ IF n = Len(file.cells[r].attempts)
           THEN file.cells[r].attempts[n] = "valid"
           ELSE file.cells[r].attempts[n] \in {"invalid", "aborted"}
    BY <1>3, <2>1, ValidCell, CampaignAssumption
  <2>3. n = Len(file.cells[r].attempts) <=> Disposition(Attempt(r, n)) = "retained"
    BY <2>1, <2>2 DEF Disposition
  <2>4. n # Len(file.cells[r].attempts) <=> Attempt(r, n) \in FailedAttempts
    BY <1>3, <2>1, <2>2 DEF FailedAttempts
  <2> QED BY <2>3, <2>4
<1>4. Audit.passed = AuditPasses
  BY DEF Audit
<1>5. CampaignInvariant => AuditAccountsForEveryAttempt
  BY <1>1, <1>2, <1>3, <1>4 DEF AuditAccountsForEveryAttempt
<1> QED BY <1>5, CampaignIsConsistent, PTL
=============================================================================
