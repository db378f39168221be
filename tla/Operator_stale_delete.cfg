SPECIFICATION Spec
CONSTANTS
  Modules = {m1}
  a = a
  b = b
  c = c
  Objects = {a, b, c}
  Sources = {"one", "other"}
  Specs <- MCActive
  Items <- MCItems
  Verdict <- MCVerdict
  Nobody = Nobody
  NoHash = NoHash
  RenderErrors = {"RenderFailed"}
  Clock = {1}
  MaxEdits = 4
  MaxFaults = 0
  MaxLag = 2
INVARIANTS DeletedLeavesNothing
CHECK_DEADLOCK FALSE
