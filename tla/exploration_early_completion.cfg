\* Completion while every reachable goal is only temporarily blacklisted.
SPECIFICATION Spec
CONSTANTS
  Places <- TwoPlaces
  Geoms <- TwoGeoms
  InMap <- TwoInMap
  Index <- TwoIndex
  ConfirmCount = 2
  AutoStart = TRUE
  AcceptGoals = FALSE
  AutoSave = TRUE
  InitialScan = TRUE
  None = None
  Stale = Stale
PROPERTIES
  CompletedWithoutGoals
CHECK_DEADLOCK FALSE
