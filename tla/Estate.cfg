SPECIFICATION Spec
CONSTANTS
  Dirs = {"prom", "app", "gitops", "bucket"}
  AreaOf <- Areas
  ModuleOf <- Modules
  DevkitRows <- Rows
  Drafts <- MCDrafts
  InitialTree <- First
  Envs = {"unset", "", "ci"}
  NxRegistry = "nx"
  Budget = 3
  MaxRequests = 2
INVARIANTS PublishedIsTagged PinsResolve NoPinDrift VendoredResolves NothingForgotten AnswersInOrder OneSnapshot
CHECK_DEADLOCK FALSE
