------------------------------- MODULE Teleop -------------------------------
(***************************************************************************)
(* Driving by hand: the joystick_control and teleop_key_control nodes and  *)
(* the base controller they feed through one command topic.  Both repeat   *)
(* the command they hold, so that the watchdog of the base leaves it be.   *)
(*                                                                         *)
(* Abstractions                                                            *)
(*  - A velocity is the set of axes on which it is not zero.               *)
(*  - A stick is centred, off its centre by less than min_value, or held.  *)
(*  - Time is counted in units of 0.1 s, the period of the heartbeat and   *)
(*    the longest wait for a key.  Callbacks and messages take no time.    *)
(*  - The base is its promise, CommandGate, here without emergency stop    *)
(*    and with its watchdog on: nobody resets the odometry.                *)
(*  - Buttons other than the dead man's do nothing but sound the buzzer.   *)
(*  - Either node may be killed, without its last words, and stays down,   *)
(*    as does the joystick node when an exception leaves its callback.     *)
(***************************************************************************)
EXTENDS Integers

CONSTANTS
  Machines,      \* the machine types there are
  Deadmans,      \* the kinds of deadman_button: "off" if negative, "button" if
                 \* the gamepad has it, "beyond" past the hats' as well
  Samples,       \* the positions of the sticks a message can report
  CmdTimeout,    \* cmd_timeout_sec of the base
  RunOn,         \* the longest the base drives on, see Chassis
  Oldest         \* ages are counted up to here

Sticks == {"lx", "ly", "rx", "ry"}
Keys == {"w", "a", "s", "d", "", "other"}
Patience == 5    \* empty reads before the Ackermann base is stopped

ASSUME TeleopAssumption ==
  /\ Machines \subseteq {"JetRover_Mecanum", "JetRover_Tank", "JetRover_Acker"}
  /\ Deadmans \subseteq {"off", "button", "beyond"}
  /\ Samples \subseteq [Sticks -> {"centre", "drift", "held"}]
  /\ [s \in Sticks |-> "centre"] \in Samples
ASSUME TimeAssumption ==
  /\ CmdTimeout \in Nat /\ RunOn \in Nat /\ Oldest \in Nat
  /\ CmdTimeout >= 2 /\ RunOn > CmdTimeout /\ Oldest > RunOn

VARIABLES
  machine,       \* machine_type
  deadman,       \* the kind of deadman_button
  killed,        \* the nodes that have ended without their last words
  lastAxes,      \* last_axes
  heldPrev,      \* _deadman_prev
  lastTwist,     \* _last_twist, as a set of at most one; _publishing is true
                 \* when there is one
  sticks,        \* what the last message of the gamepad reported
  beat,          \* time since the heartbeat
  key,           \* the key read last; "quit" once the loop has ended
  linear,        \* the sign of control_linear_vel, and of last_x
  angular,       \* the sign of control_angular_vel, and of last_z
  count,         \* empty reads in a row, on the Ackermann base
  pubAge,        \* time since last_pub_time, counted up to 2
  readAge,       \* time since the wait for a key began
  cmdVel,        \* the message on controller/cmd_vel, as a set of at most one
  order,         \* the command the base is working on, likewise
  age, latched, moving    \* the base, see CommandGate

paramVars == <<machine, deadman, killed>>
joyVars   == <<lastAxes, heldPrev, lastTwist, sticks>>
keyVars   == <<key, linear, angular, count, pubAge, readAge>>
baseVars  == <<order, age, latched, moving>>
vars == <<paramVars, joyVars, beat, keyVars, cmdVel, baseVars>>

Base == INSTANCE CommandGate WITH watch <- "on"

Init ==
  /\ machine \in Machines /\ deadman \in Deadmans /\ killed = {}
  /\ lastAxes = [s \in Sticks |-> "centre"]
  /\ sticks = lastAxes
  /\ heldPrev = FALSE
  /\ lastTwist = {}
  /\ beat = 0
  /\ key = "" /\ linear = 0 /\ angular = 0 /\ count = 0
  /\ pubAge = 2 /\ readAge = 0
  /\ cmdVel = {} /\ order = {}
  /\ Base!GateInit

\* Publishers and the subscription keep one message: a newer one replaces it.
Publish(twist) == cmdVel' = {twist}

(***************************************************************************)
(* joystick_control                                                        *)
(***************************************************************************)
\* Seeded defect: the command is forgotten, and the base not told.
ReleaseSilently == lastTwist' = {} /\ UNCHANGED cmdVel
Release == Publish({}) /\ lastTwist' = {}

PublishTwist(twist) == Publish(twist) /\ lastTwist' = {twist}

DeadZone(axes) ==
  [s \in Sticks |-> IF axes[s] = "drift" THEN "centre" ELSE axes[s]]

Held(axes) == {s \in Sticks : axes[s] = "held"}

Ackermann == machine = "JetRover_Acker"

\* The Ackermann base cannot turn without driving.  A stick that does not drive
\* it has linear.z set to the int 1, which the setter refuses: axes_callback
\* ends there, with an AssertionError, before it publishes or releases.
Raises(held) == Ackermann /\ "ly" \notin held

Twist(held) ==
  LET Along(stick, axis) == IF stick \in held THEN {axis} ELSE {}
      turning == Along("ly", "x") \cup Along("rx", "yaw")
  IN  IF machine = "JetRover_Mecanum" THEN Along("lx", "y") \cup turning
      ELSE turning

Driving(held) == held \cap {"lx", "ly", "rx"} # {}

\* axes_callback with the dead man's button held, when it does not raise.
\* Seeded defect: centred sticks stop the base, and the command is kept.
SteerKept(axes) ==
  IF Driving(Held(axes)) THEN PublishTwist(Twist(Held(axes)))
  ELSE Publish({}) /\ UNCHANGED lastTwist
Steer(axes) ==
  IF Driving(Held(axes)) THEN PublishTwist(Twist(Held(axes))) ELSE Release

NoCommand == UNCHANGED <<lastTwist, cmdVel>>

\* The button goes down.  axes_callback moves the sticks into the dead zone
\* before they are compared with last_axes; a second call, with the check of
\* the button off, does the same again.
ButtonPressed(axes) ==
  /\ ~Raises(Held(axes))
  /\ Steer(axes)
  /\ lastAxes' = DeadZone(axes)

\* The sticks are compared, and steer unless a dead man's button is set:
\* _deadman_held is asked of a dictionary here, which raises for a button that
\* exists, and is false for one that does not.  An exception of this call is
\* caught: the command of an earlier message stays as it is.
SticksCompared(axes) ==
  \/ /\ axes = lastAxes
     /\ NoCommand
     /\ UNCHANGED lastAxes
  \/ /\ axes # lastAxes /\ deadman = "off"
     /\ IF Raises(Held(axes)) THEN NoCommand ELSE Steer(axes)
     /\ lastAxes' = DeadZone(axes)
  \/ /\ axes # lastAxes /\ deadman = "button"
     /\ NoCommand
     /\ lastAxes' = axes
  \/ /\ axes # lastAxes /\ deadman = "beyond"
     /\ Release
     /\ lastAxes' = axes

\* The button goes up while a command is repeated.
ButtonReleased(axes) ==
  /\ deadman = "button"
  /\ Release
  /\ lastAxes' = axes

\* joy_callback; a command the base has begun is done before the next report.
\* Seeded defect: only the sticks are looked at after the first message.
JoyWithoutRelease(axes, now) ==
  /\ order = {} /\ "joystick" \notin killed
  /\ deadman = "off" => now
  /\ deadman = "beyond" => ~now
  /\ IF now /\ ~heldPrev THEN ButtonPressed(axes) ELSE SticksCompared(axes)
  /\ heldPrev' = now
  /\ sticks' = axes
  /\ UNCHANGED <<paramVars, beat, keyVars, baseVars>>
JoyCallback(axes, now) ==
  /\ order = {} /\ "joystick" \notin killed
  /\ deadman = "off" => now
  /\ deadman = "beyond" => ~now
  /\ IF now /\ ~heldPrev THEN ButtonPressed(axes)
     ELSE IF heldPrev /\ ~now /\ lastTwist # {} THEN ButtonReleased(axes)
     ELSE SticksCompared(axes)
  /\ heldPrev' = now
  /\ sticks' = axes
  /\ UNCHANGED <<paramVars, beat, keyVars, baseVars>>

\* heartbeat_callback, every 0.1 s.
Heartbeat ==
  /\ beat = 1
  /\ beat' = 0
  /\ cmdVel' = IF lastTwist # {} THEN lastTwist ELSE cmdVel
  /\ UNCHANGED <<paramVars, joyVars, keyVars, baseVars>>

JoyKilled ==
  /\ "joystick" \notin killed
  /\ killed' = killed \cup {"joystick"}
  /\ lastTwist' = {} /\ heldPrev' = FALSE /\ beat' = 0
  /\ UNCHANGED <<machine, deadman, lastAxes, sticks, keyVars, cmdVel, baseVars>>

\* The call that answers the button is not in a try: its exception ends the
\* node.  Without a dead man's button that is the first message ever.
JoyRaised(axes) ==
  /\ order = {}
  /\ deadman # "beyond" /\ ~heldPrev /\ Raises(Held(axes))
  /\ JoyKilled

(***************************************************************************)
(* teleop_key_control                                                      *)
(***************************************************************************)
\* Seeded defects: an empty read starts the count of empty reads again; it
\* goes on after the base was stopped.
CountReset(k) == 0
CountedOn(k) == IF Ackermann /\ k = "" THEN count + 1 ELSE 0
Counted(k) ==
  IF Ackermann /\ k = "" THEN (IF count = Patience THEN 0 ELSE count + 1) ELSE 0

GivenUp(k) == Ackermann /\ k = "" /\ count = Patience

Linear(k) ==
  CASE k = "w" -> 1
    [] k = "s" -> -1
    [] k \in {"a", "d"} /\ ~Ackermann -> 0
    [] GivenUp(k) /\ angular # 0 -> 0
    [] OTHER -> linear
Angular(k) ==
  CASE k = "a" -> 1
    [] k = "d" -> -1
    [] k = "" /\ ~Ackermann -> 0
    [] GivenUp(k) -> 0
    [] OTHER -> angular

KeyTwist(lin, ang) ==
  (IF lin # 0 THEN {"x"} ELSE {}) \cup (IF ang # 0 THEN {"yaw"} ELSE {})

\* A change is published at once, a motion again when the last message is more
\* than 0.1 s old; one unit may be either side of that.
\* Seeded defects: only a motion is worth a message, only a change is.
PublishedWhenMoving(lin, ang) ==
  IF (lin # 0 \/ ang # 0) /\ pubAge = 2
  THEN Publish(KeyTwist(lin, ang)) /\ pubAge' = 0
  ELSE UNCHANGED <<cmdVel, pubAge>>
PublishedOnChange(lin, ang) ==
  IF lin # linear \/ ang # angular
  THEN Publish(KeyTwist(lin, ang)) /\ pubAge' = 0
  ELSE UNCHANGED <<cmdVel, pubAge>>
Published(lin, ang) ==
  LET changed == lin # linear \/ ang # angular
      motion  == lin # 0 \/ ang # 0
  IN  \/ /\ changed \/ (motion /\ pubAge >= 1)
         /\ Publish(KeyTwist(lin, ang))
         /\ pubAge' = 0
      \/ /\ ~changed /\ ~(motion /\ pubAge = 2)
         /\ UNCHANGED <<cmdVel, pubAge>>

\* One pass of the loop; the wait for a key ends empty only in time.
KeyRead(k) ==
  /\ key # "quit"
  /\ k = "" => readAge = 1
  /\ key' = k
  /\ linear' = Linear(k) /\ angular' = Angular(k)
  /\ count' = Counted(k)
  /\ Published(Linear(k), Angular(k))
  /\ readAge' = 0
  /\ UNCHANGED <<paramVars, joyVars, beat, baseVars>>

\* ctrl-C ends the loop, and its last message stops the base.
KeyQuit ==
  /\ key # "quit"
  /\ key' = "quit"
  /\ linear' = 0 /\ angular' = 0 /\ count' = 0 /\ readAge' = 0
  /\ Publish({})
  /\ UNCHANGED <<paramVars, joyVars, beat, pubAge, baseVars>>

KeyKilled ==
  /\ key # "quit"
  /\ killed' = killed \cup {"keyboard"}
  /\ key' = "quit"
  /\ linear' = 0 /\ angular' = 0 /\ count' = 0 /\ readAge' = 0
  /\ UNCHANGED <<machine, deadman, joyVars, beat, pubAge, cmdVel, baseVars>>

(***************************************************************************)
(* The base and time                                                       *)
(***************************************************************************)
BaseHears ==
  /\ order = {} /\ cmdVel # {}
  /\ order' = cmdVel
  /\ cmdVel' = {}
  /\ Base!Hear
  /\ UNCHANGED <<paramVars, joyVars, beat, keyVars>>

BaseActs ==
  /\ order # {}
  /\ order' = {}
  /\ IF order = {{}} THEN Base!Revoke ELSE Base!Drive
  /\ UNCHANGED <<paramVars, joyVars, beat, keyVars, cmdVel>>

\* The watchdog.
BaseRevokes ==
  /\ age > CmdTimeout /\ moving
  /\ Base!Revoke
  /\ UNCHANGED <<paramVars, joyVars, beat, keyVars, cmdVel, order>>

Tick ==
  /\ cmdVel = {} /\ order = {}
  /\ beat = 0 /\ readAge = 0
  /\ Base!Elapse
  /\ beat' = IF "joystick" \in killed THEN 0 ELSE 1
  /\ readAge' = IF key = "quit" THEN 0 ELSE 1
  /\ pubAge' = IF pubAge = 2 THEN 2 ELSE pubAge + 1
  /\ UNCHANGED <<paramVars, joyVars, key, linear, angular, count, cmdVel, order>>

Joystick ==
  \/ Heartbeat \/ JoyKilled
  \/ \E s \in Samples : JoyRaised(s) \/ \E now \in BOOLEAN : JoyCallback(s, now)
Keyboard == KeyQuit \/ KeyKilled \/ \E k \in Keys : KeyRead(k)
BaseStep == BaseHears \/ BaseActs \/ BaseRevokes

Next == Joystick \/ Keyboard \/ BaseStep \/ Tick

\* Timers fire, messages arrive, the wait for a key ends, and time goes on,
\* however many messages come in between.
Fairness ==
  /\ WF_vars(BaseStep) /\ WF_vars(Heartbeat) /\ WF_vars(KeyRead(""))
  /\ SF_vars(Tick)

Spec == Init /\ [][Next]_vars /\ Fairness

(***************************************************************************)
(* Properties                                                              *)
(***************************************************************************)
Velocities == SUBSET {"x", "y", "yaw"}
AtMostOne == {{}} \cup {{v} : v \in Velocities}

\* The shapes of the nodes' fields and of the base.
TypeOK ==
  /\ machine \in Machines /\ deadman \in Deadmans
  /\ killed \subseteq {"joystick", "keyboard"}
  /\ lastAxes \in [Sticks -> {"centre", "drift", "held"}]
  /\ sticks \in [Sticks -> {"centre", "drift", "held"}]
  /\ heldPrev \in BOOLEAN
  /\ beat \in 0..1 /\ readAge \in 0..1 /\ pubAge \in 0..2
  /\ key \in Keys \cup {"quit"}
  /\ linear \in -1..1 /\ angular \in -1..1 /\ count \in 0..Patience
  /\ {lastTwist, cmdVel, order} \subseteq AtMostOne
  /\ age \in 0..Oldest /\ latched = FALSE /\ moving \in BOOLEAN

Commanded(held) == IF Driving(held) THEN {Twist(held)} ELSE {}

\* Without a dead man's button the repeated command is always the one the
\* sticks ask for: none survives their release, whatever drift, dead zone and
\* skipped comparisons do between.  Only on the Ackermann base a stick that no
\* longer drives releases nothing: some earlier drive goes on.
StickIsHeld ==
  deadman = "off" /\ heldPrev =>
    IF Raises(Held(sticks)) THEN \E v \in lastTwist : "x" \in v
    ELSE lastTwist = Commanded(Held(sticks))

\* A command is repeated only under a held dead man's button: letting it go
\* revokes the command at once, even with the sticks as they were.
DeadmanRevokes == deadman # "off" /\ ~heldPrev => lastTwist = {}

\* Whoever drove last has said stop: with no command held at the sticks or the
\* keys and none under way, the base stands, without help of its watchdog.  A
\* node that ended before it could say so leaves that to the watchdog.
NobodyDrives ==
  lastTwist = {} /\ linear = 0 /\ angular = 0 /\ cmdVel = {} /\ order = {}
    => ~moving \/ (killed # {} /\ age <= RunOn)

\* "Heartbeat state so held sticks keep the controller-side watchdog alive":
\* while sticks or keys hold a command, the base never takes it for lost.
KeptFed ==
  lastTwist # {} \/ linear # 0 \/ angular # 0
    => age <= CmdTimeout \/ cmdVel # {}

\* A turn lasts as long as its key: when no key is pressed any more, it ends,
\* on the Ackermann base after the empty reads it waits for.
TurnEnds == <>[](key = "") => <>[](angular = 0)

\* "Re-publish the current command periodically while a stick is held": a
\* command that is repeated is one some stick is held for.
HeartbeatIsHeld == lastTwist # {} => Driving(Held(sticks))
=============================================================================
