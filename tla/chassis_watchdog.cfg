\* The Ackermann base, with stops repeated more rarely than commands time out.
SPECIFICATION Spec
CONSTANTS
  CmdTimeout = 2
  StopRepeat = 4
  Period = 2
  Oldest = 7
  Requests <- SomeRequests
  Machine = "JetRover_Acker"
INVARIANTS
  TypeOK
  OdometryFollowsCommands
  RunOnBounded
  EStopHolds
PROPERTIES
  WithinRequest
  ImplementsGate
CHECK_DEADLOCK FALSE
