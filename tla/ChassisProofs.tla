--------------------------- MODULE ChassisProofs ---------------------------
(***************************************************************************)
(* The properties of Chassis for every value of its constants.  None of    *)
(* them is inductive: they follow from Bounded and Torn, which say what    *)
(* the ages are relative to the pass of the loop and what is left of a     *)
(* command between two assignments.                                        *)
(***************************************************************************)
EXTENDS Chassis, TLAPS

Patience == IF CmdTimeout < StopRepeat THEN StopRepeat ELSE CmdTimeout
InCallback == exec \notin {"spin", "down"}

\* A callback is within one instant, and the emergency stop does not engage
\* during it.  A stop older than the last command is what a moving base has
\* seen last, so a pass that finds the command too old does send one.
Bounded ==
  /\ InCallback => cmdAge = 0 /\ ~estop
  /\ estop => motors = {}
  /\ motors # {} => cmdAge <= stopAge
  /\ Watched /\ motors # {} => cmdAge <= RunOn
  /\ motors # {} /\ loop \in {"asleep", "twist"} => cmdAge <= Patience + loopAge

\* An axis the pass has already reset moves again only by a fresh command.
Resetting ==
  /\ Watched /\ speed # {} => cmdAge <= CmdTimeout + Period
  /\ speed # {} /\ loop \in {"asleep", "twist"} => cmdAge <= CmdTimeout + loopAge
  /\ cmdAge # 0 =>
       /\ loop = "y" => "x" \notin speed
       /\ loop = "yaw" => speed \subseteq {"yaw"}
       /\ loop = "done" => speed = {}

\* What is left of a command is part of it.
Torn ==
  /\ exec \in {"angular_z", "done", "publish"} \cup Axes
       => order \subseteq request
  /\ exec = "linear_y" => speed \ {"y", "yaw"} \subseteq request
  /\ exec \in {"turn", "angular_z"} => speed \ {"yaw"} \subseteq request
  /\ exec \in Axes => speed \subseteq request

\* The axes are read, and reset, one after the other.
LEMMA AxesInTurn ==
  /\ After["x"] = "y" /\ After["y"] = "yaw" /\ After["yaw"] = "done"
  BY DEF After

\* Every field keeps its shape: the ages stay capped, velocities stay sets of
\* axes, each thread stays at one of its points.
THEOREM TypeCorrect == Spec => []TypeOK
<1>1. Init => TypeOK
  <2> SUFFICES ASSUME Init PROVE TypeOK
    OBVIOUS
  <2>1. cmdAge \in Ages /\ stopAge \in Ages /\ loopAge \in 0..Period
    BY TimingAssumption DEF Init, Ages
  <2>2. QED
    BY <2>1 DEF Init, TypeOK
<1>2. TypeOK /\ [Next]_vars => TypeOK'
  <2> SUFFICES ASSUME TypeOK, [Next]_vars PROVE TypeOK'
    OBVIOUS
  <2> USE TimingAssumption DEF TypeOK, Ages, fieldVars
  <2>1. ASSUME NEW v \in Requests, CommandHeard(v) PROVE TypeOK'
    BY <2>1, CommandAssumption DEF CommandHeard, loopVars
  <2>2. CASE LinearXSet \/ LinearYSet
    BY <2>2 DEF LinearXSet, LinearYSet, Assign, Linear, Axes, loopVars
  <2>3. CASE TurnTaken \/ AngularSet
    BY <2>3 DEF TurnTaken, AngularSet, Assign, Axes, loopVars
  <2>4. CASE FieldRead \/ OrderComputed
    BY <2>4, AxesInTurn DEF FieldRead, Axes, OrderComputed, loopVars
  <2>5. CASE OrderPublished
    BY <2>5 DEF OrderPublished, loopVars
  <2>6. CASE EStop
    BY <2>6 DEF EStop, PublishStop, commandVars, loopVars
  <2>7. CASE Shutdown
    BY <2>7 DEF Shutdown, PublishStop, loopVars
  <2>8. CASE EStopRelease \/ SetOdom
    BY <2>8 DEF EStopRelease, SetOdom, commandVars, loopVars
  <2>9. CASE PassHalted
    BY <2>9 DEF PassHalted, Axes, commandVars
  <2>10. CASE PassIntegrated
    BY <2>10 DEF PassIntegrated, commandVars
  <2>11. CASE AxisZeroed
    BY <2>11 DEF AxisZeroed, After, Axes, commandVars
  <2>12. CASE StopSent \/ StopSkipped
    BY <2>12 DEF StopSent, StopSkipped, PublishStop, commandVars
  <2>13. CASE TwistFilled \/ TwistRaised
    BY <2>13 DEF TwistFilled, TwistRaised, commandVars
  <2>14. CASE Time
    BY <2>14 DEF Time, Older, commandVars
  <2>15. CASE UNCHANGED vars
    BY <2>15 DEF vars, commandVars, loopVars
  <2>16. QED
    BY <2>1, <2>2, <2>3, <2>4, <2>5, <2>6, <2>7, <2>8, <2>9, <2>10, <2>11,
       <2>12, <2>13, <2>14, <2>15
    DEF Next, Command, Loop
<1>3. QED
  BY <1>1, <1>2, PTL DEF Spec

\* A node just started has sent nothing and owes nothing.
LEMMA BoundedInit == Init => Bounded
  BY DEF Init, Bounded, InCallback

\* The heart of the run-on bound.
LEMMA BoundedStep == TypeOK /\ Bounded /\ [Next]_vars => Bounded'
<1> SUFFICES ASSUME TypeOK, Bounded, [Next]_vars PROVE Bounded'
  OBVIOUS
<1> USE TimingAssumption DEF TypeOK, Ages, Bounded, InCallback, Watched, fieldVars
<1>1. ASSUME NEW v \in Requests, CommandHeard(v) PROVE Bounded'
  BY <1>1 DEF CommandHeard, loopVars, RunOn, Patience
<1>2. CASE LinearXSet \/ LinearYSet \/ TurnTaken \/ AngularSet
  BY <1>2 DEF LinearXSet, LinearYSet, TurnTaken, AngularSet, loopVars
<1>3. CASE FieldRead \/ OrderComputed
  BY <1>3 DEF FieldRead, After, Axes, OrderComputed, loopVars
<1>4. CASE OrderPublished
  BY <1>4 DEF OrderPublished, loopVars, RunOn, Patience
<1>5. CASE EStop \/ EStopRelease \/ SetOdom \/ Shutdown
  BY <1>5 DEF EStop, EStopRelease, SetOdom, Shutdown, PublishStop,
              commandVars, loopVars
<1>6. CASE PassHalted
  BY <1>6 DEF PassHalted, Woken, commandVars
<1>7. CASE PassIntegrated
  BY <1>7 DEF PassIntegrated, Woken, Halt, Patience, commandVars
<1>8. CASE AxisZeroed
  BY <1>8 DEF AxisZeroed, After, Axes, commandVars
<1>9. CASE StopSent
  BY <1>9 DEF StopSent, PublishStop, commandVars
<1>10. CASE StopSkipped
  BY <1>10 DEF StopSkipped, Patience, commandVars
<1>11. CASE TwistFilled \/ TwistRaised
  BY <1>11 DEF TwistFilled, TwistRaised, commandVars
<1>12. CASE Time
  BY <1>12 DEF Time, Older, Patience, RunOn, commandVars
<1>13. CASE UNCHANGED vars
  BY <1>13 DEF vars, commandVars, loopVars
<1>14. QED
  BY <1>1, <1>2, <1>3, <1>4, <1>5, <1>6, <1>7, <1>8, <1>9, <1>10, <1>11, <1>12,
     <1>13
  DEF Next, Command, Loop

\* The ages the run-on bound speaks of are bounded in every state.
LEMMA BoundedCorrect == Spec => []Bounded
  BY BoundedInit, BoundedStep, TypeCorrect, PTL DEF Spec

\* However commands, emergency stops, resets of the odometry and passes of the
\* loop interleave, no motor runs longer than RunOn after the last accepted
\* command as long as the thread of the watchdog lives.
THEOREM RunOnIsBounded == Spec => []RunOnBounded
<1>1. Bounded => RunOnBounded
  BY DEF Bounded, RunOnBounded
<1>2. QED
  BY <1>1, BoundedCorrect, PTL

\* Only set_odom stores ints, so without it the thread does not end.
LEMMA UnresetStep ==
  ASSUME ints = {}, Watched, [Next /\ ~SetOdom]_vars
  PROVE  (ints = {} /\ Watched)'
<1> USE DEF Watched, fieldVars
<1>1. ASSUME NEW v \in Requests, CommandHeard(v) PROVE (ints = {} /\ Watched)'
  BY <1>1 DEF CommandHeard, loopVars
<1>2. CASE LinearXSet \/ LinearYSet \/ TurnTaken \/ AngularSet \/ FieldRead
             \/ OrderComputed \/ OrderPublished
  BY <1>2 DEF LinearXSet, LinearYSet, TurnTaken, AngularSet, Assign, FieldRead,
              OrderComputed, OrderPublished, loopVars
<1>3. CASE EStop \/ EStopRelease \/ Shutdown
  BY <1>3 DEF EStop, EStopRelease, Shutdown, loopVars
<1>4. CASE AxisZeroed
  BY <1>4 DEF AxisZeroed, After, Axes
<1>5. CASE PassHalted \/ PassIntegrated \/ StopSent \/ StopSkipped
             \/ TwistFilled \/ TwistRaised
  BY <1>5 DEF PassHalted, PassIntegrated, StopSent, StopSkipped, TwistFilled,
              TwistRaised
<1>6. CASE Time \/ UNCHANGED vars
  BY <1>6 DEF Time, vars, loopVars
<1>7. QED
  BY <1>1, <1>2, <1>3, <1>4, <1>5, <1>6 DEF Next, Command, Loop

\* Where nobody resets the odometry the run-on bound holds without the proviso:
\* set_odom is the only thing that can take the watchdog away.
THEOREM UnresetIsBounded ==
  Init /\ [][Next /\ ~SetOdom]_vars => [](motors # {} => cmdAge <= RunOn)
<1>1. [Next /\ ~SetOdom]_vars => [Next]_vars
  OBVIOUS
<1>2. Init => ints = {} /\ Watched
  BY DEF Init, Watched
<1>3. ints = {} /\ Watched /\ [Next /\ ~SetOdom]_vars => (ints = {} /\ Watched)'
  BY UnresetStep
<1>4. Watched /\ RunOnBounded => (motors # {} => cmdAge <= RunOn)
  BY DEF RunOnBounded
<1>5. QED
  BY <1>1, <1>2, <1>3, <1>4, RunOnIsBounded, PTL DEF Spec

\* The motors stand still under a latched emergency stop, wherever the
\* callback was that SIGINT interrupted.
THEOREM EStopIsHeld == Spec => []EStopHolds
<1>1. Bounded => EStopHolds
  BY DEF Bounded, EStopHolds
<1>2. QED
  BY <1>1, BoundedCorrect, PTL

\* While the thread resets the odometry, no motion command is under way.
LEMMA ResettingStep ==
  TypeOK /\ Bounded /\ Resetting /\ [Next]_vars => Resetting'
<1> SUFFICES ASSUME TypeOK, Bounded, Resetting, [Next]_vars PROVE Resetting'
  OBVIOUS
<1> USE TimingAssumption DEF TypeOK, Ages, Resetting, Watched, fieldVars
<1>1. ASSUME NEW v \in Requests, CommandHeard(v) PROVE Resetting'
  BY <1>1 DEF CommandHeard, loopVars
<1>2. CASE LinearXSet \/ LinearYSet \/ TurnTaken \/ AngularSet
  BY <1>2 DEF LinearXSet, LinearYSet, TurnTaken, AngularSet, Bounded,
              InCallback, loopVars
<1>3. CASE FieldRead \/ OrderComputed \/ OrderPublished
  BY <1>3 DEF FieldRead, OrderComputed, OrderPublished, loopVars
<1>4. CASE EStop \/ EStopRelease \/ SetOdom \/ Shutdown
  BY <1>4 DEF EStop, EStopRelease, SetOdom, Shutdown, PublishStop,
              commandVars, loopVars
<1>5. CASE PassHalted
  BY <1>5 DEF PassHalted, Woken, commandVars
<1>6. CASE PassIntegrated
  BY <1>6 DEF PassIntegrated, Woken, Halt, commandVars
<1>7. CASE AxisZeroed
  <2>1. speed' \subseteq speed /\ loop \in Axes /\ loop' = After[loop]
    BY <1>7 DEF AxisZeroed
  <2>2. loop' \in {"y", "yaw", "done"}
    BY <2>1, AxesInTurn DEF Axes
  <2>3. UNCHANGED <<cmdAge, loopAge>> /\ speed' = speed \ {loop}
    BY <1>7 DEF AxisZeroed
  <2>4. cmdAge # 0 =>
          /\ loop' = "y" => "x" \notin speed'
          /\ loop' = "yaw" => speed' \subseteq {"yaw"}
          /\ loop' = "done" => speed' = {}
    BY <2>1, <2>3, AxesInTurn DEF Axes
  <2>5. QED
    BY <2>1, <2>2, <2>3, <2>4 DEF Axes
<1>8. CASE StopSent \/ StopSkipped
  BY <1>8 DEF StopSent, StopSkipped, PublishStop, commandVars
<1>9. CASE TwistFilled \/ TwistRaised
  BY <1>9 DEF TwistFilled, TwistRaised, commandVars
<1>10. CASE Time
  BY <1>10 DEF Time, Older, commandVars
<1>11. CASE UNCHANGED vars
  BY <1>11 DEF vars, commandVars, loopVars
<1>12. QED
  BY <1>1, <1>2, <1>3, <1>4, <1>5, <1>6, <1>7, <1>8, <1>9, <1>10, <1>11
  DEF Next, Command, Loop

\* A living odometry stops integrating a lost command within one pass of its
\* timeout, whichever assignments of the two threads interleave.
THEOREM OdometryIsFollowing == Spec => []OdometryFollowsCommands
<1>1. Init => Resetting
  BY DEF Init, Resetting
<1>2. Resetting => OdometryFollowsCommands
  BY DEF Resetting, OdometryFollowsCommands
<1>3. QED
  BY <1>1, <1>2, ResettingStep, BoundedCorrect, TypeCorrect, PTL DEF Spec

\* Velocities the odometry has lost were zeroed by the thread or by set_odom.
LEMMA TornStep == TypeOK /\ Torn /\ [Next]_vars => Torn'
<1> SUFFICES ASSUME TypeOK, Torn, [Next]_vars PROVE Torn'
  OBVIOUS
<1> USE DEF Torn, Axes, fieldVars
<1>1. ASSUME NEW v \in Requests, CommandHeard(v) PROVE Torn'
  BY <1>1 DEF CommandHeard
<1>2. CASE LinearXSet \/ LinearYSet
  <2>1. Linear(request) \subseteq request
    BY DEF Linear
  <2>2. CASE LinearXSet
    BY <2>1, <2>2 DEF LinearXSet, Assign, TypeOK
  <2>3. CASE LinearYSet
    BY <2>1, <2>3 DEF LinearYSet, Assign
  <2>4. QED
    BY <1>2, <2>2, <2>3
<1>3. CASE TurnTaken \/ AngularSet
  BY <1>3 DEF TurnTaken, AngularSet, Assign
<1>4. CASE FieldRead \/ OrderComputed \/ OrderPublished
  BY <1>4, AxesInTurn DEF FieldRead, OrderComputed, OrderPublished
<1>5. CASE EStop \/ EStopRelease \/ SetOdom \/ Shutdown
  BY <1>5 DEF EStop, EStopRelease, SetOdom, Shutdown, commandVars
<1>6. CASE Loop
  BY <1>6 DEF Loop, PassHalted, PassIntegrated, AxisZeroed, StopSent,
              StopSkipped, TwistFilled, TwistRaised, commandVars
<1>7. CASE Time
  BY <1>7 DEF Time, commandVars
<1>8. CASE UNCHANGED vars
  BY <1>8 DEF vars, commandVars
<1>9. QED
  BY <1>1, <1>2, <1>3, <1>4, <1>5, <1>6, <1>7, <1>8 DEF Next, Command

\* Nothing is published that moves the base on an axis the command being
\* handled did not ask for.
THEOREM WithinRequestHolds == Spec => WithinRequest
<1>1. Init => Torn
  BY DEF Init, Torn
<1>2. Torn /\ [Next]_vars =>
        [motors' # motors /\ motors' # {} => motors' \subseteq request]_vars
  BY DEF Torn, Next, Command, CommandHeard, LinearXSet, LinearYSet, TurnTaken,
         AngularSet, FieldRead, OrderComputed, OrderPublished, EStop, EStopRelease, SetOdom, Shutdown,
         PublishStop, Loop, PassHalted, PassIntegrated, AxisZeroed, StopSent,
         StopSkipped, TwistFilled, TwistRaised, Time, vars
<1>3. QED
  BY <1>1, <1>2, TornStep, TypeCorrect, PTL DEF Spec, WithinRequest

(***************************************************************************)
(* Refinement: every step of the node is a step of the gate or changes     *)
(* nothing the gate sees.                                                  *)
(***************************************************************************)
\* The watchdog is as it was when neither its thread nor the ints change.
LEMMA WatchKept ==
  ASSUME UNCHANGED ints, loop' # loop => loop # "ended" /\ loop' # "ended"
  PROVE  UNCHANGED Watch
  BY DEF Watch, Watched

\* Every step of the node is a step of the gate, or none.
LEMMA GateStep ==
  TypeOK /\ Bounded /\ [Next]_vars => [Gate!GateNext]_(Gate!gateVars)
<1> SUFFICES ASSUME TypeOK, Bounded, [Next]_vars,
                    UNCHANGED <<cmdAge, estop, motors # {}, Watch>> => FALSE
             PROVE  Gate!GateNext
  BY DEF Gate!gateVars
<1> USE DEF Gate!GateNext, fieldVars
<1>1. ASSUME NEW v \in Requests, CommandHeard(v) PROVE Gate!Hear
  <2>1. UNCHANGED Watch
    BY <1>1, WatchKept DEF CommandHeard, loopVars
  <2>2. QED
    BY <1>1, <2>1 DEF CommandHeard, Gate!Hear
<1>2. CASE OrderPublished
  <2>1. UNCHANGED Watch
    BY <1>2, WatchKept DEF OrderPublished, loopVars
  <2>2. CASE motors' = {}
    BY <1>2, <2>1, <2>2 DEF OrderPublished, Gate!Revoke
  <2>3. CASE motors' # {}
    BY <1>2, <2>1, <2>3 DEF OrderPublished, Bounded, InCallback, Gate!Drive
  <2>4. QED
    BY <2>2, <2>3
<1>3. CASE EStop \/ Shutdown
  <2>1. UNCHANGED Watch
    BY <1>3, WatchKept DEF EStop, Shutdown, loopVars
  <2>2. QED
    BY <1>3, <2>1 DEF EStop, Shutdown, PublishStop, Gate!Latch
<1>4. CASE EStopRelease
  <2>1. UNCHANGED Watch
    BY <1>4, WatchKept DEF EStopRelease, loopVars
  <2>2. QED
    BY <1>4, <2>1 DEF EStopRelease, Gate!Unlatch
<1>5. CASE StopSent
  <2>1. UNCHANGED Watch
    BY <1>5, WatchKept DEF StopSent
  <2>2. QED
    BY <1>5, <2>1 DEF StopSent, PublishStop, Gate!Revoke
<1>6. CASE SetOdom
  <2>1. ints' # {} /\ UNCHANGED loop
    BY <1>6 DEF SetOdom, Axes, loopVars
  <2>2. Watch = "on" /\ Watch' = "upset"
    BY <1>6, <2>1 DEF SetOdom, Watch, Watched
  <2>3. QED
    BY <1>6, <2>2 DEF SetOdom, Gate!Upset
<1>7. CASE LinearXSet \/ LinearYSet \/ AngularSet \/ AxisZeroed
  <2>1. UNCHANGED <<cmdAge, estop, motors>> /\ ints' \subseteq ints
    BY <1>7 DEF LinearXSet, LinearYSet, AngularSet, AxisZeroed, Assign
  <2>2. loop' # loop => loop # "ended" /\ loop' # "ended"
    BY <1>7 DEF LinearXSet, LinearYSet, AngularSet, AxisZeroed, After, Axes,
                loopVars
  <2>3. Watch = "upset" /\ Watch' = "on"
    BY <2>1, <2>2 DEF Watch, Watched
  <2>4. QED
    BY <2>1, <2>3 DEF Gate!Calm
<1>8. CASE TwistRaised
  <2>1. Watch = "upset" /\ Watch' = "off"
    BY <1>8 DEF TwistRaised, Watch, Watched
  <2>2. QED
    BY <1>8, <2>1 DEF TwistRaised, Gate!Lose
<1>9. CASE Time
  <2>1. UNCHANGED Watch
    BY <1>9, WatchKept DEF Time
  <2>2. motors # {} /\ Watch # "off" => cmdAge < RunOn
    BY <1>9, TimingAssumption
    DEF Time, Bounded, Patience, RunOn, TypeOK, Ages, Watch, Watched
  <2>3. QED
    BY <1>9, <2>1, <2>2 DEF Time, Older, Gate!Elapse
<1>10. CASE TurnTaken \/ FieldRead \/ OrderComputed \/ PassHalted
              \/ PassIntegrated \/ StopSkipped \/ TwistFilled
  <2>1. UNCHANGED Watch
    BY <1>10, WatchKept
    DEF TurnTaken, FieldRead, OrderComputed, PassHalted, Woken, PassIntegrated,
        StopSkipped, TwistFilled, loopVars
  <2>2. QED
    BY <1>10, <2>1
    DEF TurnTaken, FieldRead, OrderComputed, PassHalted, PassIntegrated,
        StopSkipped, TwistFilled
<1>11. CASE UNCHANGED vars
  BY <1>11, WatchKept DEF vars, loopVars
<1>12. QED
  BY <1>1, <1>2, <1>3, <1>4, <1>5, <1>6, <1>7, <1>8, <1>9, <1>10, <1>11
  DEF Next, Command, Loop

\* The node implements the command gate: its motors are driven by a fresh
\* command alone, never under the emergency stop, and never beyond RunOn unless
\* a reset of the odometry has ended the watchdog.
THEOREM ChassisImplementsGate == Spec => ImplementsGate
<1>1. Init => Gate!GateInit
  BY DEF Init, Gate!GateInit, Watch, Watched
<1>2. QED
  BY <1>1, GateStep, BoundedCorrect, TypeCorrect, PTL
  DEF Spec, ImplementsGate, Gate!GateSpec
=============================================================================
