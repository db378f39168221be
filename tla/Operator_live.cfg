SPECIFICATION FairSpec
CONSTANTS
  Modules = {m1}
  a = a
  b = b
  c = c
  Objects = {a, b, c}
  Sources = {"both", "none", "bad"}
  Specs <- MCAll
  Items <- MCItems
  Verdict <- MCVerdict
  Nobody = Nobody
  NoHash = NoHash
  RenderErrors = {"RenderFailed"}
  Clock = {1, 2}
  MaxEdits = 3
  MaxFaults = 1
  MaxLag = 1
INVARIANTS RejectedRenderWritesNothing ReadyDescribesSpec
PROPERTIES FailureKeepsInventory DeletesOnlyStale Converges NoHotLoop
CHECK_DEADLOCK FALSE
