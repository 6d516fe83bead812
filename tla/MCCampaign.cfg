SPECIFICATION Spec
CONSTANTS
  Runs = 2
  Runners = {p1, p2}
  MaxAttempts = 3
  Serial = TRUE
SYMMETRY Scripts
INVARIANTS SingleActiveAttempt AcceptedOnEvidence AuditAccountsForEveryAttempt
PROPERTY HistoryIsImmutable
CHECK_DEADLOCK FALSE
