SPECIFICATION MCSpec
CONSTANTS
  t1 = t1
  t2 = t2
  Tasks = {t1, t2}
  Names = {"render", "other"}
  Ports = {9443, 9444}
  Images = {"fn", "fn:next"}
  Roots = {"main", "worktree"}
  Options <- Choices
  MaxFaults = 1
SYMMETRY EitherTask
INVARIANT RendersOwnTree
PROPERTY LeftoversNeverBlock
CHECK_DEADLOCK FALSE
