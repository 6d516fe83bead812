SPECIFICATION Spec
CONSTANTS
  SafetyEnabled = FALSE
  Tolerance = 0
  CapacityLookup <- MCLookup
  MinReplicas = 1
  MaxReplicas = 3
  InitialReplicas = 1
  SafetyFactor = 2
  StabilizationSecs = 2
  DecisionIntervalSecs = 1
  MaxScaleDownStep = 2
  MaxScaleUpStep = 1
  Workloads = {5, 10, 15, 16}
  MaxDecisions = 4
  SafetyLookup <- MCLookup
  SafetyMin = 1
  SafetyMax = 3
  ObservationSecs = 1
  PersistenceSecs = 1
  ReleaseHoldSecs = 1
  Demands = {10, 30}
  ReadyCounts = {0, 1, 3}
  MaxWindows = 2
INVARIANT AcceptedRunIsFaithful
CHECK_DEADLOCK FALSE
