SPECIFICATION Spec
CONSTANTS
  Names = {"kcl", "kclx", "python"}
  Ports = {19443, 19444, 19445}
  Images = {"kcl", "kclx", "python"}
  Roots = {"repo"}
  Repo = "repo"
  Shapes <- Desired
  Selections <- Runtimes
  Asked <- Wanted
  MaxRuns = 2
  MaxFaults = 1
INVARIANTS GateIsHonest MatrixIsWhole
PROPERTY LeftoversNeverBlock
CHECK_DEADLOCK FALSE
