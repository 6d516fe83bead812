SPECIFICATION TrialFairSpec
CONSTANTS
  Cells <- MCCells
  MaxTrials = 2
  MaxPods = 5
  MaxFaults = 1
INVARIANT CountedTrialsAreSound
PROPERTIES VerdictMeansCapacity TrialEnds
CHECK_DEADLOCK FALSE
