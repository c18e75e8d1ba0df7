\* A gamepad and a keyboard at one base, with every kind of dead man's button.
SPECIFICATION Spec
CONSTANTS
  Machines = {"JetRover_Mecanum", "JetRover_Acker"}
  Deadmans = {"off", "button", "beyond"}
  Samples <- SomeSamples
  CmdTimeout = 3
  RunOn = 5
  Oldest = 6
INVARIANTS
  TypeOK
  StickIsHeld
  DeadmanRevokes
  NobodyDrives
  KeptFed
PROPERTIES
  TurnEnds
