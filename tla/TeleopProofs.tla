---------------------------- MODULE TeleopProofs ----------------------------
(***************************************************************************)
(* Proofs about Teleop: for every set of machines, dead man's buttons and  *)
(* stick positions, and for every base that waits two units of time.       *)
(***************************************************************************)
EXTENDS Teleop, TLAPS

\* One level below the properties: the sticks compared with the next message
\* are the ones the command came from.
Steered ==
  deadman = "off" /\ heldPrev =>
    /\ IF Raises(Held(sticks)) THEN \E v \in lastTwist : "x" \in v
       ELSE lastTwist = Commanded(Held(sticks))
    /\ Held(lastAxes) = Held(sticks)

\* A message that is due has been sent: the base is as fresh as the last
\* heartbeat, or as the last message of the keyboard.
Fed ==
  /\ "joystick" \in killed => lastTwist = {}
  /\ lastTwist # {} => cmdVel # {} \/ age <= beat
  /\ linear # 0 \/ angular # 0 =>
       /\ key # "quit"
       /\ pubAge <= 1 + readAge
       /\ cmdVel # {} \/ age <= pubAge

\* With no command held, the newest message under way is a stop.
Quiet ==
  killed = {} /\ lastTwist = {} /\ linear = 0 /\ angular = 0 =>
    /\ cmdVel \in {{}, {{}}}
    /\ cmdVel = {} => order \in {{}, {{}}}
    /\ cmdVel = {} /\ order = {} => ~moving

\* What the watchdog promises.
Revoked == moving => age <= RunOn

(***************************************************************************)
(* The operators                                                           *)
(***************************************************************************)
LEMMA SampleType ==
  ASSUME NEW axes \in Samples
  PROVE  axes \in [Sticks -> {"centre", "drift", "held"}]
BY TeleopAssumption

LEMMA DeadZoneType ==
  ASSUME NEW axes \in [Sticks -> {"centre", "drift", "held"}]
  PROVE  /\ DeadZone(axes) \in [Sticks -> {"centre", "drift", "held"}]
         /\ Held(DeadZone(axes)) = Held(axes)
BY DEF DeadZone, Held

LEMMA TwistType ==
  ASSUME NEW held
  PROVE  Twist(held) \in Velocities
BY DEF Twist, Velocities

LEMMA KeyTwistType ==
  ASSUME NEW lin, NEW ang
  PROVE  /\ KeyTwist(lin, ang) \in Velocities
         /\ KeyTwist(0, 0) = {}
BY DEF KeyTwist, Velocities

LEMMA KeyType ==
  ASSUME TypeOK, NEW k \in Keys
  PROVE  /\ Linear(k) \in -1..1 /\ Angular(k) \in -1..1
         /\ Counted(k) \in 0..Patience
<1>1. Linear(k) \in -1..1
  BY DEF Linear, TypeOK
<1>2. Angular(k) \in -1..1
  <2>1. angular \in -1..1
    BY DEF TypeOK
  <2>2. Angular(k) \in {1, -1, 0, angular}
    BY Zenon DEF Angular
  <2> QED BY <2>1, <2>2
<1>3. Counted(k) \in 0..Patience
  <2>1. count \in 0..5 /\ Patience = 5
    BY DEF TypeOK, Patience
  <2>2. /\ Counted(k) \in {0, count + 1}
        /\ count = Patience => Counted(k) = 0
    BY Zenon DEF Counted
  <2> QED BY <2>1, <2>2
<1> QED BY <1>1, <1>2, <1>3

\* What one message of the gamepad does to the repeated command and to the
\* topic: nothing, or it publishes what it keeps.
LEMMA JoyEffect ==
  ASSUME TypeOK, NEW axes \in Samples, NEW now \in BOOLEAN,
         JoyCallback(axes, now)
  PROVE  /\ \/ UNCHANGED <<lastTwist, cmdVel>>
            \/ lastTwist' = {} /\ cmdVel' = {{}}
            \/ \E v \in Velocities : lastTwist' = {v} /\ cmdVel' = {v}
         /\ lastAxes' \in [Sticks -> {"centre", "drift", "held"}]
<1>1. Steer(axes) => \/ lastTwist' = {} /\ cmdVel' = {{}}
                     \/ \E v \in Velocities : lastTwist' = {v} /\ cmdVel' = {v}
  BY TwistType DEF Steer, PublishTwist, Publish, Release
<1>2. Release => lastTwist' = {} /\ cmdVel' = {{}}
  BY DEF Release, Publish
<1>3. /\ axes \in [Sticks -> {"centre", "drift", "held"}]
      /\ DeadZone(axes) \in [Sticks -> {"centre", "drift", "held"}]
  BY SampleType, DeadZoneType
<1>4. CASE ButtonPressed(axes)
  BY <1>1, <1>3, <1>4 DEF ButtonPressed
<1>5. CASE ButtonReleased(axes)
  BY <1>2, <1>3, <1>5 DEF ButtonReleased
<1>6. CASE SticksCompared(axes)
  BY <1>1, <1>2, <1>3, <1>6 DEF SticksCompared, NoCommand, TypeOK
<1> QED BY <1>4, <1>5, <1>6 DEF JoyCallback

\* What one pass of the keyboard's loop publishes.
LEMMA KeyEffect ==
  ASSUME TypeOK, NEW k \in Keys, KeyRead(k)
  PROVE  \/ cmdVel' = {KeyTwist(linear', angular')} /\ pubAge' = 0
         \/ /\ UNCHANGED <<cmdVel, pubAge, linear, angular>>
            /\ linear # 0 \/ angular # 0 => pubAge <= 1
<1> DEFINE lin == Linear(k)
           ang == Angular(k)
<1>1. pubAge \in 0..2
  BY DEF TypeOK
<1>2. linear' = lin /\ angular' = ang
  BY DEF KeyRead
<1>3. \/ cmdVel' = {KeyTwist(lin, ang)} /\ pubAge' = 0
      \/ /\ UNCHANGED <<cmdVel, pubAge>>
         /\ lin = linear /\ ang = angular
         /\ ~((lin # 0 \/ ang # 0) /\ pubAge = 2)
  BY DEF KeyRead, Published, Publish
<1> HIDE DEF lin, ang
<1> QED BY <1>1, <1>2, <1>3

(***************************************************************************)
(* Types                                                                   *)
(***************************************************************************)
\* Every field of the two nodes and of the base keeps its shape.
THEOREM TypeCorrect == Spec => []TypeOK
<1>1. Init => TypeOK
  <2> SUFFICES ASSUME Init PROVE TypeOK
    OBVIOUS
  <2>1. lastAxes \in [Sticks -> {"centre", "drift", "held"}] /\ sticks = lastAxes
    BY DEF Init
  <2>2. age = 0 /\ latched = FALSE /\ moving = FALSE
    BY DEF Init, Base!GateInit
  <2>3. {lastTwist, cmdVel, order} \subseteq AtMostOne
    BY DEF Init, AtMostOne
  <2>4. 0 \in 0..Oldest /\ 0 \in 0..Patience
    BY TimeAssumption DEF Patience
  <2>5. /\ beat \in 0..1 /\ readAge \in 0..1 /\ pubAge \in 0..2
        /\ linear \in -1..1 /\ angular \in -1..1 /\ count \in 0..Patience
        /\ age \in 0..Oldest
    <3>1. /\ beat = 0 /\ readAge = 0 /\ pubAge = 2
          /\ linear = 0 /\ angular = 0 /\ count = 0
      BY DEF Init
    <3> QED BY <2>2, <2>4, <3>1
  <2> QED BY <2>1, <2>2, <2>3, <2>5 DEF Init, TypeOK, Keys
<1>2. TypeOK /\ [Next]_vars => TypeOK'
  <2> SUFFICES ASSUME TypeOK, [Next]_vars PROVE TypeOK'
    OBVIOUS
  <2> USE DEF AtMostOne
  <2>1. ASSUME NEW axes \in Samples, NEW now \in BOOLEAN, JoyCallback(axes, now)
        PROVE  TypeOK'
    <3>1. lastTwist' \in AtMostOne /\ cmdVel' \in AtMostOne
      BY <2>1, JoyEffect DEF TypeOK, Velocities
    <3>2. /\ lastAxes' \in [Sticks -> {"centre", "drift", "held"}]
          /\ sticks' \in [Sticks -> {"centre", "drift", "held"}]
      BY <2>1, JoyEffect, SampleType DEF JoyCallback
    <3> QED BY <2>1, <3>1, <3>2
          DEF JoyCallback, TypeOK, paramVars, keyVars, baseVars
  <2>2. CASE Heartbeat
    BY <2>2 DEF Heartbeat, TypeOK, paramVars, joyVars, keyVars, baseVars
  <2>3. ASSUME NEW k \in Keys, KeyRead(k) PROVE TypeOK'
    <3>1. cmdVel' \in AtMostOne
      <4>1. \/ cmdVel' = {KeyTwist(linear', angular')}
            \/ cmdVel' = cmdVel
        BY <2>3, KeyEffect
      <4>2. KeyTwist(linear', angular') \in Velocities
        BY KeyTwistType
      <4> QED BY <4>1, <4>2 DEF TypeOK
    <3>3. pubAge' \in 0..2
      <4>1. pubAge' = 0 \/ pubAge' = pubAge
        BY <2>3, KeyEffect, Zenon
      <4>2. pubAge \in 0..2
        BY DEF TypeOK
      <4> QED BY <4>1, <4>2
    <3>2. linear' \in -1..1 /\ angular' \in -1..1 /\ count' \in 0..Patience
      BY <2>3, KeyType DEF KeyRead
    <3>4. readAge' \in 0..1 /\ key' \in Keys
      <4>1. readAge' = 0 /\ key' = k
        BY <2>3, Zenon DEF KeyRead
      <4> QED BY <4>1
    <3> QED BY <2>3, <3>1, <3>2, <3>3, <3>4
          DEF KeyRead, TypeOK, paramVars, joyVars, baseVars
  <2>4. CASE KeyQuit
    <3>1. cmdVel' \in AtMostOne
      BY <2>4 DEF KeyQuit, Publish, Velocities
    <3>2. /\ linear' \in -1..1 /\ angular' \in -1..1 /\ count' \in 0..Patience
          /\ readAge' \in 0..1
      BY <2>4 DEF KeyQuit, Patience
    <3> QED BY <2>4, <3>1, <3>2
          DEF KeyQuit, TypeOK, paramVars, joyVars, baseVars
  <2>5. CASE BaseHears
    BY <2>5, TimeAssumption DEF BaseHears, Base!Hear, TypeOK,
                paramVars, joyVars, keyVars
  <2>6. CASE BaseActs
    BY <2>6 DEF BaseActs, Base!Revoke, Base!Drive, TypeOK,
                paramVars, joyVars, keyVars
  <2>7. CASE BaseRevokes
    BY <2>7 DEF BaseRevokes, Base!Revoke, TypeOK, paramVars, joyVars, keyVars
  <2>8. CASE Tick
    <3>1. age' \in 0..Oldest /\ pubAge' \in 0..2
      BY <2>8, TimeAssumption DEF Tick, Base!Elapse, TypeOK
    <3> QED BY <2>8, <3>1 DEF Tick, Base!Elapse, TypeOK, paramVars, joyVars
  <2>9. CASE UNCHANGED vars
    BY <2>9 DEF TypeOK, vars, paramVars, joyVars, keyVars, baseVars
  <2>10. CASE JoyKilled
    <3>1. killed' \subseteq {"joystick", "keyboard"} /\ lastTwist' \in AtMostOne
      BY <2>10 DEF JoyKilled, TypeOK
    <3>2. beat' = 0 /\ heldPrev' = FALSE
      BY <2>10, Zenon DEF JoyKilled
    <3>3. beat' \in 0..1
      BY <3>2
    <3>4. heldPrev' \in BOOLEAN
      BY <3>2, Zenon
    <3> QED BY <2>10, <3>1, <3>3, <3>4 DEF JoyKilled, TypeOK, keyVars, baseVars
  <2>11. CASE KeyKilled
    <3>1. /\ linear' \in -1..1 /\ angular' \in -1..1 /\ count' \in 0..Patience
          /\ readAge' \in 0..1
      BY <2>11 DEF KeyKilled, Patience
    <3> QED BY <2>11, <3>1 DEF KeyKilled, TypeOK, joyVars, baseVars
  <2> QED BY <2>1, <2>2, <2>3, <2>4, <2>5, <2>6, <2>7, <2>8, <2>9, <2>10, <2>11
        DEF Next, Joystick, JoyRaised, Keyboard, BaseStep
<1> QED BY <1>1, <1>2, PTL DEF Spec

(***************************************************************************)
(* The sticks and the button                                               *)
(***************************************************************************)
\* What is kept after a call of axes_callback is what the sticks ask for; on
\* the Ackermann base, where it does not raise, that is a drive.
LEMMA SteerKeeps ==
  ASSUME NEW axes \in [Sticks -> {"centre", "drift", "held"}], Steer(axes),
         UNCHANGED machine
  PROVE  lastTwist' = Commanded(Held(axes))'
BY DEF Steer, PublishTwist, Publish, Release, Commanded, Driving, Twist, Held

LEMMA AckermannDrives ==
  ASSUME NEW held, Ackermann, ~Raises(held)
  PROVE  \E v \in Commanded(held) : "x" \in v
<1>1. "ly" \in held /\ machine = "JetRover_Acker"
  BY DEF Raises, Ackermann
<1>2. Commanded(held) = {Twist(held)}
  BY <1>1 DEF Commanded, Driving
<1>3. "x" \in Twist(held)
  BY <1>1 DEF Twist
<1> QED BY <1>2, <1>3

\* Without a dead man's button the repeated command is the sticks', for every
\* set of positions a message can report; on the Ackermann base it is the
\* sticks' while they drive it, and some earlier drive ever after.
THEOREM SticksRule == Spec => []StickIsHeld
<1> DEFINE Inv == Steered
<1>1. Init => Inv
  BY DEF Init, Steered
<1>2. TypeOK /\ Inv /\ [Next]_vars => Inv'
  <2> SUFFICES ASSUME TypeOK, Steered, [Next]_vars PROVE Steered'
    OBVIOUS
  <2>1. ASSUME NEW axes \in Samples, NEW now \in BOOLEAN, JoyCallback(axes, now),
               deadman = "off"
        PROVE  Steered'
    <3>1. now /\ sticks' = axes /\ heldPrev' /\ UNCHANGED <<machine, deadman>>
      BY <2>1 DEF JoyCallback, paramVars
    <3>2. /\ axes \in [Sticks -> {"centre", "drift", "held"}]
          /\ Held(DeadZone(axes)) = Held(axes)
      BY SampleType, DeadZoneType
    <3>3. CASE ~Raises(Held(axes)) /\ Steer(axes) /\ lastAxes' = DeadZone(axes)
      <4>1. lastTwist' = Commanded(Held(axes))'
        BY <3>1, <3>2, <3>3, SteerKeeps
      <4>2. Commanded(Held(axes))' = Commanded(Held(sticks))'
        BY <3>1 DEF Commanded, Driving, Twist, Held
      <4>3. Held(lastAxes)' = Held(sticks)'
        BY <3>1, <3>2, <3>3 DEF Held
      <4>4. ~Raises(Held(sticks))'
        BY <3>1, <3>3 DEF Raises, Ackermann, Held
      <4> QED BY <4>1, <4>2, <4>3, <4>4 DEF Steered
    <3>4. CASE axes = lastAxes /\ heldPrev /\ UNCHANGED <<lastTwist, lastAxes>>
      <4>1. /\ IF Raises(Held(sticks)) THEN \E v \in lastTwist : "x" \in v
               ELSE lastTwist = Commanded(Held(sticks))
            /\ Held(axes) = Held(sticks)
        BY <2>1, <3>4 DEF Steered
      <4>2. /\ Held(sticks)' = Held(axes)
            /\ Commanded(Held(sticks))' = Commanded(Held(axes))
            /\ Raises(Held(sticks))' = Raises(Held(axes))
        BY <3>1 DEF Commanded, Driving, Twist, Held, Raises, Ackermann
      <4>3. Held(lastAxes)' = Held(sticks)'
        BY <3>1, <3>4 DEF Held
      <4> QED BY <3>4, <4>1, <4>2, <4>3 DEF Steered
    <3>5. CASE /\ Raises(Held(axes)) /\ heldPrev
               /\ UNCHANGED lastTwist /\ lastAxes' = DeadZone(axes)
      <4>1. Raises(Held(sticks))' /\ Ackermann
        BY <3>1, <3>5 DEF Raises, Ackermann, Held
      <4>2. \E v \in lastTwist : "x" \in v
        <5>1. CASE Raises(Held(sticks))
          BY <2>1, <3>5, <5>1 DEF Steered
        <5>2. CASE ~Raises(Held(sticks))
          <6>1. lastTwist = Commanded(Held(sticks))
            BY <2>1, <3>5, <5>2 DEF Steered
          <6> QED BY <4>1, <5>2, <6>1, AckermannDrives
        <5> QED BY <5>1, <5>2
      <4>3. Held(lastAxes)' = Held(sticks)'
        BY <3>1, <3>2, <3>5 DEF Held
      <4> QED BY <3>5, <4>1, <4>2, <4>3 DEF Steered
    <3>6. \/ ~Raises(Held(axes)) /\ Steer(axes) /\ lastAxes' = DeadZone(axes)
          \/ axes = lastAxes /\ heldPrev /\ UNCHANGED <<lastTwist, lastAxes>>
          \/ /\ Raises(Held(axes)) /\ heldPrev
             /\ UNCHANGED lastTwist /\ lastAxes' = DeadZone(axes)
      <4>1. CASE ButtonPressed(axes)
        BY <4>1 DEF ButtonPressed
      <4>2. CASE heldPrev /\ SticksCompared(axes)
        BY <2>1, <4>2 DEF SticksCompared, NoCommand
      <4> QED BY <2>1, <3>1, <4>1, <4>2 DEF JoyCallback, ButtonReleased
    <3> QED BY <3>3, <3>4, <3>5, <3>6
  <2>2. ASSUME UNCHANGED <<joyVars, machine, deadman>> PROVE Steered'
    BY <2>2 DEF Steered, joyVars, Commanded, Driving, Twist, Held, Raises, Ackermann
  <2>3. ASSUME NEW axes \in Samples, NEW now \in BOOLEAN, JoyCallback(axes, now),
               deadman # "off"
        PROVE  Steered'
    BY <2>3 DEF JoyCallback, Steered, paramVars
  <2>4. CASE Heartbeat \/ BaseStep \/ Tick \/ Keyboard
    BY <2>2, <2>4 DEF Heartbeat, BaseStep, BaseHears, BaseActs, BaseRevokes,
                      Tick, Keyboard, KeyRead, KeyQuit, KeyKilled, paramVars
  <2>5. CASE UNCHANGED vars
    BY <2>2, <2>5 DEF vars, paramVars
  <2>6. CASE JoyKilled
    BY <2>6 DEF JoyKilled, Steered
  <2> QED BY <2>1, <2>3, <2>4, <2>5, <2>6 DEF Next, Joystick, JoyRaised
<1>3. Inv => StickIsHeld
  BY DEF Steered, StickIsHeld
<1> QED BY <1>1, <1>2, <1>3, TypeCorrect, PTL DEF Spec

\* Letting the dead man's button go revokes the command, also when the sticks
\* are as they were, and also for a button the gamepad does not have.
THEOREM ButtonRules == Spec => []DeadmanRevokes
<1>1. Init => DeadmanRevokes
  BY DEF Init, DeadmanRevokes
<1>2. TypeOK /\ DeadmanRevokes /\ [Next]_vars => DeadmanRevokes'
  <2> SUFFICES ASSUME TypeOK, DeadmanRevokes, [Next]_vars PROVE DeadmanRevokes'
    OBVIOUS
  <2>1. ASSUME NEW axes \in Samples, NEW now \in BOOLEAN, JoyCallback(axes, now)
        PROVE  DeadmanRevokes'
    <3> SUFFICES ASSUME deadman # "off", ~now PROVE lastTwist' = {}
      BY <2>1 DEF JoyCallback, paramVars, DeadmanRevokes
    <3>1. CASE heldPrev /\ lastTwist # {}
      BY <2>1, <3>1 DEF JoyCallback, ButtonReleased, Release
    <3>2. CASE ~(heldPrev /\ lastTwist # {})
      <4>1. lastTwist = {} /\ SticksCompared(axes)
        BY <2>1, <3>2 DEF DeadmanRevokes, JoyCallback, TypeOK
      <4> QED BY <4>1 DEF SticksCompared, NoCommand, Release
    <3> QED BY <3>1, <3>2
  <2>2. CASE Heartbeat \/ JoyKilled \/ BaseStep \/ Tick \/ Keyboard
    BY <2>2 DEF DeadmanRevokes, Heartbeat, JoyKilled, BaseStep, BaseHears,
                BaseActs, BaseRevokes, Tick, Keyboard, KeyRead, KeyQuit,
                KeyKilled, paramVars, joyVars
  <2>3. CASE UNCHANGED vars
    BY <2>3 DEF DeadmanRevokes, vars, paramVars, joyVars
  <2> QED BY <2>1, <2>2, <2>3 DEF Next, Joystick, JoyRaised
<1> QED BY <1>1, <1>2, TypeCorrect, PTL DEF Spec

(***************************************************************************)
(* The base                                                                *)
(***************************************************************************)
\* While a command is held the base is never without one for longer than two
\* units of time, which is less than its watchdog waits.
THEOREM WatchdogIsFed == Spec => []KeptFed
<1>1. Init => Fed
  BY DEF Init, Fed
<1>2. TypeOK /\ Fed /\ [Next]_vars => Fed'
  <2> SUFFICES ASSUME TypeOK, Fed, [Next]_vars PROVE Fed'
    OBVIOUS
  <2> USE DEF Fed, TypeOK
  <2>1. ASSUME NEW axes \in Samples, NEW now \in BOOLEAN, JoyCallback(axes, now)
        PROVE  Fed'
    <3>1. UNCHANGED <<lastTwist, cmdVel>> \/ cmdVel' # {}
      BY <2>1, JoyEffect
    <3>2. /\ UNCHANGED <<beat, keyVars, baseVars, killed>>
          /\ "joystick" \notin killed
      BY <2>1 DEF JoyCallback, paramVars
    <3> QED BY <3>1, <3>2 DEF keyVars, baseVars
  <2>2. CASE Heartbeat
    BY <2>2 DEF Heartbeat, paramVars, joyVars, keyVars, baseVars
  <2>3. ASSUME NEW k \in Keys, KeyRead(k) PROVE Fed'
    <3>1. /\ UNCHANGED <<killed, lastTwist, beat, age>>
          /\ readAge' = 0 /\ key' # "quit"
      BY <2>3 DEF KeyRead, Keys, paramVars, joyVars, baseVars
    <3>2. CASE cmdVel' = {KeyTwist(linear', angular')} /\ pubAge' = 0
      BY <3>1, <3>2
    <3>3. CASE /\ UNCHANGED <<cmdVel, pubAge, linear, angular>>
               /\ linear # 0 \/ angular # 0 => pubAge <= 1
      BY <3>1, <3>3
    <3> QED BY <2>3, <3>2, <3>3, KeyEffect
  <2>4. CASE KeyQuit
    BY <2>4 DEF KeyQuit, Publish, paramVars, joyVars, baseVars
  <2>5. CASE BaseHears
    BY <2>5 DEF BaseHears, Base!Hear, paramVars, joyVars, keyVars
  <2>6. CASE BaseActs
    BY <2>6 DEF BaseActs, Base!Revoke, Base!Drive, paramVars, joyVars, keyVars
  <2>7. CASE BaseRevokes
    BY <2>7 DEF BaseRevokes, Base!Revoke, paramVars, joyVars, keyVars
  <2>8. CASE Tick
    <3>1. /\ age' <= age + 1 /\ age' \in Nat
          /\ beat = 0 /\ readAge = 0
          /\ beat' = IF "joystick" \in killed THEN 0 ELSE 1
          /\ UNCHANGED <<killed, lastTwist, key, linear, angular, cmdVel>>
          /\ cmdVel = {}
          /\ readAge' = IF key = "quit" THEN 0 ELSE 1
          /\ pubAge' = IF pubAge = 2 THEN 2 ELSE pubAge + 1
      BY <2>8, TimeAssumption DEF Tick, Base!Elapse, paramVars, joyVars
    <3>2. lastTwist' # {} => age' <= beat'
      BY <3>1, TimeAssumption
    <3>3. ASSUME linear # 0 \/ angular # 0
          PROVE  key' # "quit" /\ pubAge' <= 1 + readAge' /\ age' <= pubAge'
      <4>1. key # "quit" /\ pubAge <= 1 /\ age <= pubAge /\ pubAge \in Nat
        BY <3>1, <3>3
      <4> QED BY <3>1, <4>1
    <3> QED BY <3>1, <3>2, <3>3
  <2>9. CASE UNCHANGED vars
    BY <2>9 DEF vars, paramVars, joyVars, keyVars, baseVars
  <2>10. CASE JoyKilled
    BY <2>10 DEF JoyKilled, keyVars, baseVars
  <2>11. CASE KeyKilled
    BY <2>11 DEF KeyKilled, joyVars, baseVars
  <2> QED BY <2>1, <2>2, <2>3, <2>4, <2>5, <2>6, <2>7, <2>8, <2>9, <2>10, <2>11
        DEF Next, Joystick, JoyRaised, Keyboard, BaseStep
<1>3. TypeOK /\ Fed => KeptFed
  BY TimeAssumption DEF TypeOK, Fed, KeptFed
<1> QED BY <1>1, <1>2, <1>3, TypeCorrect, PTL DEF Spec

\* A base that drives has been heard of in time.
LEMMA WatchdogRevokes == Spec => []Revoked
<1>1. Init => Revoked
  BY DEF Init, Base!GateInit, Revoked
<1>2. TypeOK /\ Revoked /\ [Next]_vars => Revoked'
  <2> SUFFICES ASSUME TypeOK, Revoked, [Next]_vars PROVE Revoked'
    OBVIOUS
  <2> USE TimeAssumption DEF Revoked
  <2>1. CASE Joystick \/ Keyboard
    BY <2>1 DEF Joystick, JoyRaised, Heartbeat, JoyKilled, JoyCallback, Keyboard, KeyRead,
                KeyQuit, KeyKilled, baseVars
  <2>2. CASE BaseStep
    <3>1. CASE BaseHears
      BY <3>1 DEF BaseHears, Base!Hear
    <3>2. CASE BaseActs
      BY <3>2 DEF BaseActs, Base!Revoke, Base!Drive
    <3>3. CASE BaseRevokes
      BY <3>3 DEF BaseRevokes, Base!Revoke
    <3> QED BY <2>2, <3>1, <3>2, <3>3 DEF BaseStep
  <2>3. CASE Tick
    BY <2>3 DEF Tick, Base!Elapse, TypeOK
  <2>4. CASE UNCHANGED vars
    BY <2>4 DEF vars, baseVars
  <2> QED BY <2>1, <2>2, <2>3, <2>4 DEF Next
<1> QED BY <1>1, <1>2, TypeCorrect, PTL DEF Spec

\* Whoever drove last has said stop, or was killed: a base no one commands any
\* more stands as soon as the messages under way have arrived, or the watchdog
\* is about to stop it.
THEOREM StopIsSaid == Spec => []NobodyDrives
<1>1. Init => Quiet
  BY DEF Init, Base!GateInit, Quiet
<1>2. TypeOK /\ Quiet /\ [Next]_vars => Quiet'
  <2> SUFFICES ASSUME TypeOK, Quiet, [Next]_vars PROVE Quiet'
    OBVIOUS
  <2> USE DEF Quiet
  <2>1. ASSUME NEW axes \in Samples, NEW now \in BOOLEAN, JoyCallback(axes, now)
        PROVE  Quiet'
    <3>1. \/ UNCHANGED <<lastTwist, cmdVel>>
          \/ cmdVel' = {{}}
          \/ lastTwist' # {}
      BY <2>1, JoyEffect
    <3> QED BY <2>1, <3>1 DEF JoyCallback, paramVars, keyVars, baseVars
  <2>2. CASE Heartbeat
    BY <2>2 DEF Heartbeat, paramVars, joyVars, keyVars, baseVars
  <2>3. ASSUME NEW k \in Keys, KeyRead(k) PROVE Quiet'
    <3>1. UNCHANGED <<killed, lastTwist, order, moving>>
      BY <2>3 DEF KeyRead, paramVars, joyVars, baseVars
    <3>2. CASE cmdVel' = {KeyTwist(linear', angular')} /\ pubAge' = 0
      BY <3>1, <3>2, KeyTwistType
    <3>3. CASE UNCHANGED <<cmdVel, pubAge, linear, angular>>
      BY <3>1, <3>3
    <3> QED BY <2>3, <3>2, <3>3, KeyEffect
  <2>4. CASE KeyQuit
    BY <2>4 DEF KeyQuit, Publish, paramVars, joyVars, baseVars
  <2>5. CASE BaseHears
    BY <2>5 DEF BaseHears, Base!Hear, paramVars, joyVars, keyVars
  <2>6. CASE BaseActs
    BY <2>6 DEF BaseActs, Base!Revoke, Base!Drive, paramVars, joyVars, keyVars
  <2>7. CASE BaseRevokes
    BY <2>7 DEF BaseRevokes, Base!Revoke, paramVars, joyVars, keyVars
  <2>8. CASE Tick
    BY <2>8 DEF Tick, Base!Elapse, paramVars, joyVars
  <2>9. CASE UNCHANGED vars
    BY <2>9 DEF vars, paramVars, joyVars, keyVars, baseVars
  <2>10. CASE JoyKilled
    BY <2>10 DEF JoyKilled, keyVars, baseVars
  <2>11. CASE KeyKilled
    BY <2>11 DEF KeyKilled, joyVars, baseVars
  <2> QED BY <2>1, <2>2, <2>3, <2>4, <2>5, <2>6, <2>7, <2>8, <2>9, <2>10, <2>11
        DEF Next, Joystick, JoyRaised, Keyboard, BaseStep
<1>3. Quiet /\ Revoked => NobodyDrives
  BY DEF Quiet, Revoked, NobodyDrives
<1> QED BY <1>1, <1>2, <1>3, TypeCorrect, WatchdogRevokes, PTL DEF Spec
=============================================================================
