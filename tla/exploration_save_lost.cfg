\* A finished exploration whose SAVE_MAP is overwritten by the control tick.
SPECIFICATION Spec
CONSTANTS
  Places <- TwoPlaces
  Geoms <- TwoGeoms
  InMap <- TwoInMap
  Index <- TwoIndex
  ConfirmCount = 2
  AutoStart = TRUE
  AcceptGoals = FALSE
  AutoSave = TRUE
  InitialScan = TRUE
  None = None
  Stale = Stale
PROPERTIES
  SaveLeftByOutcome
CHECK_DEADLOCK FALSE
