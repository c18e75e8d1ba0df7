------------------------------ MODULE Chassis ------------------------------
(***************************************************************************)
(* The odom_publisher node of the base: velocity commands become motor     *)
(* speeds on the executor thread, while the odometry thread integrates the *)
(* same speed fields and is also the watchdog for lost commands.  The two  *)
(* threads share the fields without a lock.                                *)
(*                                                                         *)
(* Abstractions                                                            *)
(*  - A velocity is the set of axes on which it is not zero; clamping to   *)
(*    the limits keeps that set.                                           *)
(*  - Time is counted in whole units; a callback and one pass of the loop  *)
(*    take no time, the pause between two passes 1 to Period units.        *)
(*  - motors is the last order published to the motor driver.              *)
(*  - The node runs with pub_odom_topic and a positive cmd_timeout_sec, as *)
(*    its launch file sets them: without either there is no watchdog.      *)
(***************************************************************************)
EXTENDS Naturals

CONSTANTS
  CmdTimeout,    \* cmd_timeout_sec
  StopRepeat,    \* the least time between two stops of the watchdog
  Period,        \* the longest time between two passes of the loop
  Oldest,        \* ages are counted up to here
  Requests,      \* the velocities commands ask for
  Machine        \* machine_type

Axes == {"x", "y", "yaw"}

RunOn == (IF CmdTimeout < StopRepeat THEN StopRepeat ELSE CmdTimeout) + Period

ASSUME TimingAssumption ==
  /\ CmdTimeout \in Nat /\ StopRepeat \in Nat /\ Oldest \in Nat
  /\ Period \in Nat \ {0}
  /\ Oldest > RunOn
ASSUME CommandAssumption ==
  /\ Requests \subseteq SUBSET Axes
  /\ Machine \in {"JetRover_Mecanum", "JetRover_Tank", "JetRover_Acker"}

VARIABLES
  cmdAge,        \* time since last_cmd_at
  stopAge,       \* time since last_stop_sent
  estop,         \* self.estop
  speed,         \* linear_x, linear_y, angular_z: the axes that are not zero
  ints,          \* the axes whose field holds the int 0 of set_odom
  motors,        \* the axes the last published MotorsState drives
  exec,          \* where the executor thread is in cmd_vel_callback; at an axis
                 \* it reads that field for the motors
  request,       \* the message of that callback
  order,         \* what it has computed and not yet stored or published
  loop,          \* where the odometry thread is; at an axis it resets it;
                 \* "ended" after an exception
  loopAge        \* time since the thread began its last pass

fieldVars   == <<speed, ints>>
commandVars == <<exec, request, order>>
loopVars    == <<loop, loopAge>>
vars == <<cmdAge, stopAge, estop, fieldVars, motors, commandVars, loopVars>>

Init ==
  /\ cmdAge = 0
  /\ stopAge = Oldest
  /\ estop = FALSE
  /\ speed = {}
  /\ ints = {}
  /\ motors = {}
  /\ exec = "spin"
  /\ request = {}
  /\ order = {}
  /\ loop = "asleep"
  /\ loopAge = 0

(***************************************************************************)
(* cmd_vel_callback, of both command topics.  A command under the latched  *)
(* emergency stop is dropped.                                              *)
(***************************************************************************)
\* Seeded defect: the emergency stop does not keep commands out.
HeardWhenStopped(v) ==
  /\ exec = "spin"
  /\ cmdAge' = 0
  /\ request' = v
  /\ exec' = "linear_x"
  /\ UNCHANGED <<stopAge, estop, fieldVars, motors, order, loopVars>>
CommandHeard(v) ==
  /\ exec = "spin" /\ ~estop
  /\ cmdAge' = 0
  /\ request' = v
  /\ exec' = "linear_x"
  /\ UNCHANGED <<stopAge, estop, fieldVars, motors, order, loopVars>>

\* Only the mecanum base moves sideways; the others stop instead.  (Their
\* fields hold the message for an instant before; that is left out.)
Linear(v) ==
  IF Machine = "JetRover_Mecanum" THEN v \ {"yaw"}
  ELSE IF "y" \in v THEN {} ELSE v \ {"yaw"}
Assign(axis, v) ==
  /\ speed' = (speed \ {axis}) \cup (v \cap {axis})
  /\ ints' = ints \ {axis}

LinearXSet ==
  /\ exec = "linear_x"
  /\ Assign("x", Linear(request))
  /\ exec' = "linear_y"
  /\ UNCHANGED <<cmdAge, stopAge, estop, motors, request, order, loopVars>>
LinearYSet ==
  /\ exec = "linear_y"
  /\ Assign("y", Linear(request))
  /\ exec' = "turn"
  /\ UNCHANGED <<cmdAge, stopAge, estop, motors, request, order, loopVars>>

\* The Ackermann base does not turn on the spot: it looks at linear_x.
TurnTaken ==
  /\ exec = "turn"
  /\ order' = IF Machine = "JetRover_Acker" /\ "x" \notin speed THEN {}
              ELSE request \cap {"yaw"}
  /\ exec' = "angular_z"
  /\ UNCHANGED <<cmdAge, stopAge, estop, fieldVars, motors, request, loopVars>>
\* Seeded defect: the field keeps the turn of an earlier command.
TurnAdded ==
  /\ exec = "angular_z"
  /\ speed' = speed \cup order
  /\ ints' = ints \ {"yaw"}
  /\ order' = {}
  /\ exec' = "x"
  /\ UNCHANGED <<cmdAge, stopAge, estop, motors, request, loopVars>>
AngularSet ==
  /\ exec = "angular_z"
  /\ Assign("yaw", order)
  /\ order' = {}
  /\ exec' = "x"
  /\ UNCHANGED <<cmdAge, stopAge, estop, motors, request, loopVars>>

\* The arguments of set_velocity are read from the fields again, in turn.
After == [x |-> "y", y |-> "yaw", yaw |-> "done"]
FieldRead ==
  /\ exec \in Axes
  /\ order' = order \cup (speed \cap {exec})
  /\ exec' = After[exec]
  /\ UNCHANGED <<cmdAge, stopAge, estop, fieldVars, motors, request, loopVars>>

\* set_velocity.  Beyond the steering limit the Ackermann base gets zero
\* speeds; without a linear speed too.
OrderComputed ==
  /\ exec = "done"
  /\ \/ /\ Machine = "JetRover_Acker" => "x" \in order
        /\ UNCHANGED order
     \/ /\ Machine = "JetRover_Acker"
        /\ "x" \in order => "yaw" \in order
        /\ order' = {}
  /\ exec' = "publish"
  /\ UNCHANGED <<cmdAge, stopAge, estop, fieldVars, motors, request, loopVars>>

OrderPublished ==
  /\ exec = "publish"
  /\ motors' = order
  /\ order' = {}
  /\ request' = {}
  /\ exec' = "spin"
  /\ UNCHANGED <<cmdAge, stopAge, estop, fieldVars, loopVars>>

(***************************************************************************)
(* The other callbacks.                                                    *)
(***************************************************************************)
\* _publish_stop.
PublishStop == motors' = {} /\ stopAge' = 0

\* Seeded defect: the stop is latched and left to the watchdog to send.
EStopUnsent ==
  /\ exec = "spin"
  /\ estop' = TRUE
  /\ UNCHANGED <<cmdAge, stopAge, fieldVars, motors, commandVars, loopVars>>
EStop ==
  /\ exec = "spin"
  /\ estop' = TRUE
  /\ PublishStop
  /\ UNCHANGED <<cmdAge, fieldVars, commandVars, loopVars>>

EStopRelease ==
  /\ exec = "spin"
  /\ estop' = FALSE
  /\ UNCHANGED <<cmdAge, stopAge, fieldVars, motors, commandVars, loopVars>>

\* set_odom resets the fields the odometry integrates, not the motors.  It
\* stores the int 0 where everyone else stores a float.
\* Seeded defect: a field takes the heading of the message.
SetOdomHeading ==
  /\ exec = "spin"
  /\ speed' \in {{}, {"theta"}}
  /\ ints' = Axes
  /\ UNCHANGED <<cmdAge, stopAge, estop, motors, commandVars, loopVars>>
SetOdom ==
  /\ exec = "spin"
  /\ speed' = {}
  /\ ints' = Axes
  /\ UNCHANGED <<cmdAge, stopAge, estop, motors, commandVars, loopVars>>

\* SIGINT interrupts the main thread anywhere; rclpy.shutdown invalidates the
\* publishers, so that a command the handler interrupted is not published.
Shutdown ==
  /\ exec # "down"
  /\ estop' = TRUE
  /\ PublishStop
  /\ exec' = "down"
  /\ UNCHANGED <<cmdAge, fieldVars, request, order, loopVars>>

(***************************************************************************)
(* cal_odom_fun.                                                           *)
(***************************************************************************)
Halt == estop \/ cmdAge > CmdTimeout

Woken == loop = "asleep" /\ loopAge > 0

PassHalted ==
  /\ Woken /\ Halt
  /\ loop' = "x"
  /\ loopAge' = 0
  /\ UNCHANGED <<cmdAge, stopAge, estop, fieldVars, motors, commandVars>>

PassIntegrated ==
  /\ Woken /\ ~Halt
  /\ loop' = "twist"
  /\ loopAge' = 0
  /\ UNCHANGED <<cmdAge, stopAge, estop, fieldVars, motors, commandVars>>

\* Seeded defect: only the linear speeds are reset.
LinearZeroed ==
  /\ loop \in Axes
  /\ speed' = speed \ ({loop} \ {"yaw"})
  /\ ints' = ints \ {loop}
  /\ loop' = After[loop]
  /\ UNCHANGED <<cmdAge, stopAge, estop, motors, commandVars, loopAge>>
AxisZeroed ==
  /\ loop \in Axes
  /\ speed' = speed \ {loop}
  /\ ints' = ints \ {loop}
  /\ loop' = After[loop]
  /\ UNCHANGED <<cmdAge, stopAge, estop, motors, commandVars, loopAge>>

\* A stop is sent again only when the last one is old enough.
StopSent ==
  /\ loop = "done" /\ stopAge > StopRepeat
  /\ PublishStop
  /\ loop' = "twist"
  /\ UNCHANGED <<cmdAge, estop, fieldVars, commandVars, loopAge>>

\* Seeded defect: the time of the last stop is noted where none is sent.
StopHeldBack ==
  /\ loop = "done" /\ stopAge <= StopRepeat
  /\ stopAge' = 0
  /\ loop' = "twist"
  /\ UNCHANGED <<cmdAge, estop, fieldVars, motors, commandVars, loopAge>>
StopSkipped ==
  /\ loop = "done" /\ stopAge <= StopRepeat
  /\ loop' = "twist"
  /\ UNCHANGED <<cmdAge, stopAge, estop, fieldVars, motors, commandVars, loopAge>>

\* The odometry message takes the three fields, and its setters take floats
\* alone: an int is an AssertionError that nothing in the thread catches.
TwistFilled ==
  /\ loop = "twist" /\ ints = {}
  /\ loop' = "asleep"
  /\ UNCHANGED <<cmdAge, stopAge, estop, fieldVars, motors, commandVars, loopAge>>
TwistRaised ==
  /\ loop = "twist" /\ ints # {}
  /\ loop' = "ended"
  /\ UNCHANGED <<cmdAge, stopAge, estop, fieldVars, motors, commandVars, loopAge>>

\* The thread that has ended is not waited for.
Older(a) == IF a < Oldest THEN a + 1 ELSE a
Time ==
  /\ exec = "spin"
  /\ \/ loop = "asleep" /\ loopAge < Period /\ loopAge' = loopAge + 1
     \/ loop = "ended" /\ UNCHANGED loopAge
  /\ cmdAge' = Older(cmdAge)
  /\ stopAge' = Older(stopAge)
  /\ UNCHANGED <<estop, fieldVars, motors, commandVars, loop>>

Command == (\E v \in Requests : CommandHeard(v)) \/ LinearXSet \/ LinearYSet
             \/ TurnTaken \/ AngularSet \/ FieldRead \/ OrderComputed
             \/ OrderPublished
Loop == PassHalted \/ PassIntegrated \/ AxisZeroed \/ StopSent \/ StopSkipped
          \/ TwistFilled \/ TwistRaised

Next == Command \/ EStop \/ EStopRelease \/ SetOdom \/ Shutdown \/ Loop \/ Time

Spec == Init /\ [][Next]_vars

(***************************************************************************)
(* Properties                                                              *)
(***************************************************************************)
Ages == 0..Oldest

\* The shapes of the node's fields: ages, velocities, and where its threads are.
TypeOK ==
  /\ cmdAge \in Ages /\ stopAge \in Ages /\ loopAge \in 0..Period
  /\ estop \in BOOLEAN
  /\ speed \subseteq Axes /\ ints \subseteq Axes /\ motors \subseteq Axes
  /\ request \subseteq Axes /\ order \subseteq Axes
  /\ exec \in {"spin", "linear_x", "linear_y", "turn", "angular_z", "publish",
              "down"} \cup Axes \cup {"done"}
  /\ loop \in Axes \cup {"asleep", "done", "twist", "ended"}

Watched == loop # "ended"

\* "If no fresh command arrives within cmd_timeout_sec, stop integrating the
\* old speed": while its thread lives, the odometry never carries a speed
\* longer than that, but for the pass that is due, whatever the two threads do
\* to the fields.
OdometryFollowsCommands ==
  Watched /\ speed # {} => cmdAge <= CmdTimeout + Period

\* While the thread lives, the motors never run on for ever after the last
\* command: the watchdog revokes it no later than one pass after both limits.
RunOnBounded == Watched /\ motors # {} => cmdAge <= RunOn

\* No motor is driven while the emergency stop is latched, also when SIGINT
\* latches it in the middle of a command.
EStopHolds == estop => motors = {}

\* Speeds torn by the watchdog between two assignments of the callback only
\* lose axes: what is published never moves the base as no command asked.
WithinRequest ==
  [][motors' # motors /\ motors' # {} => motors' \subseteq request]_vars

\* The node implements the command gate.  The watchdog is lost with its
\* thread, and only to a reset of the odometry that no command and no halted
\* pass has overwritten.
Watch == IF ~Watched THEN "off" ELSE IF ints # {} THEN "upset" ELSE "on"
Gate == INSTANCE CommandGate
          WITH age <- cmdAge, latched <- estop, moving <- motors # {},
               watch <- Watch
ImplementsGate == Gate!GateSpec

\* "Keep sending zero motor commands so the last motion command is revoked"
\* when none arrives within cmd_timeout_sec: while the thread lives, the motors
\* stop as the odometry does.  The limit on repeated stops defers it.
RevokedInTime == Watched /\ motors # {} => cmdAge <= CmdTimeout + Period
=============================================================================
