\* The repeated command and the sticks, with a dead man's button.
SPECIFICATION Spec
CONSTANTS
  Machines = {"JetRover_Mecanum"}
  Deadmans = {"button"}
  Samples <- SomeSamples
  CmdTimeout = 3
  RunOn = 5
  Oldest = 6
INVARIANTS
  HeartbeatIsHeld
