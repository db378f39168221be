SPECIFICATION Spec
CONSTANTS
  Null = Null
  Specs <- MCSpecs
  Pipeline <- MCPipeline
  MaxFetches = 5
  MaxFaults = 2
  MaxMoves = 3
INVARIANTS EarlierStepsKept RequirementsSettle
PROPERTIES GateFailsClosed DeletesOnlyOnPurpose IdentitySurvives ReachesDesired
