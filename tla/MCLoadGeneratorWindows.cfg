SPECIFICATION Spec
CONSTANTS
  RunID = run
  StrayRuns = {run, other}
  Schedule <- MCSchedule
  SecondTicks = 2
  GraceTicks = 1
  MaxWorkers = 2
  MaxTime = 6
INVARIANT CountsActualDispatches
CHECK_DEADLOCK FALSE
