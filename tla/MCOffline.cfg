SPECIFICATION OfflineSpec
CONSTANTS
  Tolerance = 0
  Rps = 72
  Horizon = 6
  CapacityLookup <- MCLookup
  MinReplicas = 1
  MaxReplicas = 4
  InitialReplicas = 1
  SafetyFactor = 1
  StabilizationSecs = 30
  DecisionIntervalSecs = 1
  MaxScaleDownStep = 1
  MaxScaleUpStep = 0
  ValidRange <- MCRange
  Catalogs <- MCCatalogs
  Grids <- MCGrids
  Protocol <- MCProtocol
  Sources = {n1, n2, prometheus}
  Skews = {0, 450}
  RoundTrips <- MCRoundTrips
  Limit = 100
  TrustedWithin = 500
  RunSeconds = 3
  LeadSeconds = 1
  ReadyLevels = {1, 2}
  MaxMissing = 1
  CoveragePercent = 33
  Commands <- MCCommands
  PerRequest = 2
  Demand <- MCDemand
  ScheduledIn <- MCScheduledIn
  StudyCapacity <- MCStudyCapacity
  LongestRequest = 2
  RecordsPercent = 60
  MaxFaults = 2
  Pairs = {"p1", "p2"}
  References = {}
  ConditionOf <- MCConditionOf
  SafetyCells <- MCSafetyCells
  SafetyContrasts <- MCSafetyContrasts
  Blocks = 2
  FewBlocks = 1
  MaxGivenUp = 1
  Differences <- MCDifferences
  MaxPairs = 4
  Whole = 10
  PValues <- MCPValues
  MaxTests = 4
  DelayValues = {12, 31, 105, 133}
  MaxTrials = 21
  Started = {"suite", "matching", "clock", "evidence", "protocol", "analysis"}
INVARIANTS SuiteIsSound CommandLeadsDemand EffectIsLocal OverforecastNeverDeficient
  LabelsAreTrue PairsContrastSemantics CorrectionHeld MetricsAreTrue AnalysesAgree
  ComparesLikeWithLike PairedTestIsExact HolmControlsTheFamily HorizonCoversReadiness
CHECK_DEADLOCK FALSE
