\* A goal of the old geometry blacklisted under the new one.
SPECIFICATION Spec
CONSTANTS
  Places <- TwoPlaces
  Geoms <- TwoGeoms
  InMap <- TwoInMap
  Index <- TwoIndex
  ConfirmCount = 2
  AutoStart = TRUE
  AcceptGoals = FALSE
  AutoSave = TRUE
  InitialScan = TRUE
  None = None
  Stale = Stale
INVARIANTS
  RecordsOfCurrentMap
CHECK_DEADLOCK FALSE
