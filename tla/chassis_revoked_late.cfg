\* A command that outlives its timeout because a stop was sent not long ago.
SPECIFICATION Spec
CONSTANTS
  CmdTimeout = 2
  StopRepeat = 4
  Period = 1
  Oldest = 7
  Requests <- SomeRequests
  Machine = "JetRover_Mecanum"
INVARIANTS
  RevokedInTime
CHECK_DEADLOCK FALSE
