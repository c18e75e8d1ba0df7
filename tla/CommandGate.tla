---------------------------- MODULE CommandGate ----------------------------
(***************************************************************************)
(* What the base controller promises of the motors, whatever its threads   *)
(* and topics do: they are driven only by a fresh command and never while  *)
(* the emergency stop is latched, and no command outlives RunOn units of   *)
(* time as long as the watchdog lives.  Only a reset of the odometry that  *)
(* nothing has overwritten yet can end it, and then for good.              *)
(***************************************************************************)
EXTENDS Naturals

CONSTANTS
  RunOn,     \* how long the motors may go on after the last command
  Oldest     \* ages are counted up to here

VARIABLES
  age,       \* time since the last accepted velocity command
  latched,   \* the emergency stop is engaged
  moving,    \* the last order sent to the motors drives at least one of them
  watch      \* the watchdog: "on", "upset" by a reset, or "off"

gateVars == <<age, latched, moving, watch>>

GateInit == age = 0 /\ latched = FALSE /\ moving = FALSE /\ watch = "on"

Hear == ~latched /\ age' = 0 /\ UNCHANGED <<latched, moving, watch>>
Drive == ~latched /\ age = 0 /\ moving' = TRUE /\ UNCHANGED <<age, latched, watch>>
Revoke == moving' = FALSE /\ UNCHANGED <<age, latched, watch>>
Latch == latched' = TRUE /\ moving' = FALSE /\ UNCHANGED <<age, watch>>
Unlatch == latched' = FALSE /\ UNCHANGED <<age, moving, watch>>
Elapse ==
  /\ moving /\ watch # "off" => age < RunOn
  /\ age' = IF age < Oldest THEN age + 1 ELSE age
  /\ UNCHANGED <<latched, moving, watch>>

Upset == watch = "on" /\ watch' = "upset" /\ UNCHANGED <<age, latched, moving>>
Calm == watch = "upset" /\ watch' = "on" /\ UNCHANGED <<age, latched, moving>>
Lose == watch = "upset" /\ watch' = "off" /\ UNCHANGED <<age, latched, moving>>

GateNext == Hear \/ Drive \/ Revoke \/ Latch \/ Unlatch \/ Elapse
              \/ Upset \/ Calm \/ Lose

GateSpec == GateInit /\ [][GateNext]_gateVars
=============================================================================
