\* External goals accepted, one place: the commands of an operator against the
\* planner, with the fairness the code justifies.
SPECIFICATION FairSpec
CONSTANTS
  Places <- OnePlace
  Geoms <- TwoGeoms
  InMap <- OneInMap
  Index <- OneIndex
  ConfirmCount = 1
  AutoStart = FALSE
  AcceptGoals = TRUE
  AutoSave = TRUE
  InitialScan = FALSE
  None = None
  Stale = Stale
PROPERTIES
  CommitMatchesRequest
  PlanResolves
CHECK_DEADLOCK FALSE
