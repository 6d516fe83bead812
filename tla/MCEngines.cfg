SPECIFICATION EnginesSpec
CONSTANTS
  Tolerance = 1
  CapacityLookup <- MCLookup
  MinReplicas = 1
  MaxReplicas = 3
  InitialReplicas = 1
  SafetyFactor = 1
  StabilizationSecs = 2
  DecisionIntervalSecs = 1
  MaxScaleDownStep = 1
  MaxScaleUpStep = 0
  Workloads <- MCWorkloads
  MaxDecisions = 6
  SafetyLookup <- MCSafetyLookup
  SafetyMin = 1
  SafetyMax = 3
  ObservationSecs = 2
  PersistenceSecs = 4
  ReleaseHoldSecs = 6
  Demands <- MCDemands
  ReadyCounts = {0, 1, 2}
  MaxWindows = 6
  Limits <- MCLimits
  LimitedWorkloads <- MCLimitedWorkloads
INVARIANTS EnginesAgree ReplaysAgree CoversRecentDemand EnginesSettle ReplayAgrees
PROPERTY KeepsPromise
CHECK_DEADLOCK FALSE
