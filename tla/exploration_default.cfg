\* The parameters the node ships with: no external goals.
SPECIFICATION FairSpec
CONSTANTS
  Places <- TwoPlaces
  Geoms <- TwoGeoms
  InMap <- TwoInMap
  Index <- TwoIndex
  ConfirmCount = 2
  AutoStart = TRUE
  AcceptGoals = FALSE
  AutoSave = TRUE
  InitialScan = TRUE
  None = None
  Stale = Stale
INVARIANTS
  TypeOK
  FollowIsCommitted
  PlanFlagMatchesJob
  StillWhenNotDriving
PROPERTIES
  MovesWithoutPlan
  StopHolds
  SaveResolves
CHECK_DEADLOCK FALSE
