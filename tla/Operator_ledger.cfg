SPECIFICATION Spec
CONSTANTS
  Modules = {m1, m2}
  a = a
  b = b
  c = c
  Objects = {a, b, c}
  Sources = {"one", "other", "none", "bad"}
  Specs <- MCKeeping
  Items <- MCItems
  Verdict <- MCVerdict
  Nobody = Nobody
  NoHash = NoHash
  RenderErrors = {"RenderFailed"}
  Clock = {1}
  MaxEdits = 3
  MaxFaults = 0
  MaxLag = 1
INVARIANTS TypeOK LedgerComplete CleanDeletion InventoryIsLastApply
SYMMETRY MCSymmetry
CHECK_DEADLOCK FALSE
