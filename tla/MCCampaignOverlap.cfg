SPECIFICATION Spec
CONSTANTS
  Runs = 2
  Runners = {p1, p2}
  MaxAttempts = 2
  Serial = FALSE
SYMMETRY Scripts
INVARIANT SingleActiveAttempt
CHECK_DEADLOCK FALSE
