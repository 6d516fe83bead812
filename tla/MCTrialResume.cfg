SPECIFICATION TrialSpec
CONSTANTS
  Cells <- MCCells
  MaxTrials = 2
  MaxPods = 5
  MaxFaults = 1
INVARIANT InterruptedTrialsAreExcluded
CHECK_DEADLOCK FALSE
