SPECIFICATION FairSpec
CONSTANTS
  SafetyEnabled = TRUE
  Tolerance = 0
  CapacityLookup <- MCLookup
  MinReplicas = 1
  MaxReplicas = 3
  InitialReplicas = 1
  SafetyFactor = 1
  StabilizationSecs = 1
  DecisionIntervalSecs = 1
  MaxScaleDownStep = 1
  MaxScaleUpStep = 0
  Workloads = {10, 20}
  MaxDecisions = 2
  SafetyLookup <- MCLongLookup
  SafetyMin = 1
  SafetyMax = 3
  ObservationSecs = 1
  PersistenceSecs = 1
  ReleaseHoldSecs = 1
  Demands = {10, 30, 40}
  ReadyCounts = {0, 1}
  MaxWindows = 3
INVARIANTS FloorsAgree LogIsLinear AcceptedRunIsFaithful
PROPERTIES OwnsScale WritesCoverBothCommands RunProceeds
CHECK_DEADLOCK FALSE
