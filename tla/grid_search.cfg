\* One planning job on every small map, with and without inflation.
SPECIFICATION FairSpec
CONSTANTS
  Width = 3
  Height = 3
  MaxOccupied = 2
  MaxUnknown = 1
  Grids <- SmallGrids
  Starts <- SomeStarts
  Radii = {0, 1}
  Straight = 10
  Diagonal = 14
  Estimate <- StraightLine
  Fraction = 35
INVARIANTS
  TypeOK
  FloodIsReachable
  FailureIsReal
  NoCandidateFails
  PathServesGoal
  PathIsShortest
PROPERTIES
  Terminates
CHECK_DEADLOCK FALSE
