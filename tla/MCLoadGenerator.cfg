SPECIFICATION FairSpec
CONSTANTS
  RunID = run
  StrayRuns = {run, other}
  Schedule <- MCSchedule
  SecondTicks = 2
  GraceTicks = 1
  MaxWorkers = 2
  MaxTime = 5
INVARIANTS DispatchesConserved EvaluatesWhatWasPublished AcceptedRunObservesDemand
PROPERTIES PunctualDispatchIsObserved LoadGeneratorEnds
CHECK_DEADLOCK FALSE
