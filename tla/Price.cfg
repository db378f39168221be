SPECIFICATION MCSpec
CONSTANTS
  r1 = r1
  r2 = r2
  Runs = {r1, r2}
  Prices = {1, 2}
  LastPage = 2
  Requests <- Asked
  Environments <- Keys
  StalenessDays = 0
  Repriced = {"pgStorage"}
  MaxDay = 1
  MaxMoves = 1
INVARIANT CheckIsHonest
PROPERTIES ImplementsCard AmbiguousNeverTaken RefreshIsWhole
SYMMETRY Processes
CHECK_DEADLOCK FALSE
