SPECIFICATION Spec
CONSTANTS
  bucket = bucket
  Objects = {bucket}
  MaxSteps = 2
  MaxCalls = 2
  MaxFaults = 2
  MaxMoves = 1
INVARIANTS TranscriptAnswered ReportIsFaithful WithinBudget
PROPERTIES ProposeChangesNothing
CHECK_DEADLOCK FALSE
