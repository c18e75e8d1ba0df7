------------------------------ MODULE BoardLink ------------------------------
(***************************************************************************)
(* The ros_robot_controller node and the SDK it reaches the STM32 board    *)
(* with.  The executor thread writes commands and reads servos, one read   *)
(* after the other, each with its request and a wait for the answer.  A    *)
(* second thread takes the bytes of the serial line apart into packets for *)
(* queues of one; a third polls the queues of the reports and publishes.   *)
(* SIGINT is handled in the middle of whatever the executor thread does.   *)
(*                                                                         *)
(* Abstractions                                                            *)
(*  - Of a command but the motors' only its packets are counted: nothing   *)
(*    comes back for it.                                                   *)
(*  - The board is external.  It answers a request once, late, or never,   *)
(*    and reports its inputs again and again.  A report is one byte here,  *)
(*    of the form its function unpacks; no key event but a click or a      *)
(*    press, and of the battery its voltage: the others are not published. *)
(*  - A frame is cleared when it is done with, not when the next begins.   *)
(*  - Up to MaxFaults bytes from the board are lost or altered.            *)
(***************************************************************************)
EXTENDS Integers, Sequences

CONSTANTS
  Checksum(_),   \* checksum_crc8
  Requests,      \* what can be asked of the servos: <<function, servo>>
  Reports,       \* the inputs that are reported, by their function
  Stances,       \* what each report can say
  Lost,          \* those that in an SBUS report say that its signal is lost
  Noise,         \* the bytes an altered one can become
  MaxPackets,    \* the most commands, or reads, in one callback
  MaxFaults,     \* the most bytes lost or altered
  MaxWire        \* the most bytes under way from the board

Byte == 0..255

\* PacketFunction, as far as the board sends them.
PwmServo == 4
BusServo == 5
Sys      == 0
Key      == 6
Imu      == 7
Gamepad  == 8
Sbus     == 9
FuncNone == 10
Functions == Reports \cup {PwmServo, BusServo}

\* The last byte of an answer: a position below zero, or else a success or a
\* failure, which do not differ for the node but in what it responds.
Good == 0
Negative == 255
Results == {Good, Negative}

\* The data of what the board sends.
Genuine ==
  [f \in Functions |->
     IF f \in Reports THEN {<<s>> : s \in Stances[f]}
     ELSE IF f = PwmServo THEN {<<r[2]>> : r \in Requests}
     ELSE {<<r[2], v>> : r \in Requests, v \in Results}]

ASSUME LinkAssumption ==
  /\ Requests \subseteq {PwmServo, BusServo} \X Byte
  /\ Reports \subseteq {Sys, Key, Imu, Gamepad, Sbus}
  /\ Stances \in [Reports -> SUBSET Byte \ {{}}]
  /\ Lost \subseteq Byte /\ Noise \subseteq Byte
  /\ MaxPackets \in Nat /\ MaxFaults \in Nat /\ MaxWire \in Nat
ASSUME ChecksumAssumption ==
  \A f \in Functions : \A data \in Genuine[f] :
    Checksum(<<f, Len(data)>> \o data) \in Byte

VARIABLES
  stance,        \* what each report has to say now
  turning,       \* the board drives a motor
  asked,         \* requests the board has not answered
  wire,          \* bytes under way from the board
  faults,        \* bytes lost or altered so far
  state, frame, recvCount,    \* the parser of recv_task
  queues,        \* each queue, as a set of at most one packet's data
  shown,         \* what was published last of each report, likewise
  publishing,    \* the thread of pub_callback has not ended
  exec,          \* where the executor thread is
  reading,       \* the request whose answer it waits for
  todo,          \* commands or reads left in the callback
  ok,            \* rclpy.ok()
  midMotor       \* SIGINT found the executor thread in set_motor_state

pubVars == <<shown, publishing>>
boardVars == <<stance, turning, asked>>
parserVars == <<state, frame, recvCount>>
execVars == <<exec, reading, todo>>
signalVars == <<ok, midMotor>>
vars == <<boardVars, wire, faults, parserVars, queues, pubVars, execVars, signalVars>>

Inputs == {g \in [Reports -> Byte] : \A f \in Reports : g[f] \in Stances[f]}

NoRequest == <<0, 0>>

Init ==
  /\ stance \in Inputs
  /\ turning = FALSE
  /\ asked = {}
  /\ wire = <<>> /\ faults = 0
  /\ state = "startbyte1" /\ frame = <<>> /\ recvCount = 0
  /\ queues = [f \in Functions |-> {}]
  /\ shown = [f \in Reports |-> {}] /\ publishing = TRUE
  /\ exec = "spin" /\ reading = NoRequest /\ todo = 0
  /\ ok = TRUE /\ midMotor = FALSE

Alive == exec # "down"

(***************************************************************************)
(* The board                                                               *)
(***************************************************************************)
\* buf_write, on either side.
Packet(func, data) ==
  <<170, 85, func, Len(data)>> \o data
    \o <<Checksum(<<func, Len(data)>> \o data)>>

Packets == [f \in Functions |-> [data \in Genuine[f] |-> Packet(f, data)]]

Answer(request, result) ==
  IF request[1] = BusServo THEN <<request[2], result>> ELSE <<request[2]>>

Send(packet) ==
  /\ Len(wire) + Len(packet) <= MaxWire
  /\ wire' = wire \o packet

StanceTaken(f, s) ==
  /\ Alive
  /\ stance' = [stance EXCEPT ![f] = s]
  /\ UNCHANGED <<turning, asked, wire, faults, parserVars, queues, pubVars,
                 execVars, signalVars>>

Report(f) ==
  /\ Alive
  /\ Send(Packets[f][<<stance[f]>>])
  /\ UNCHANGED <<boardVars, faults, parserVars, queues, pubVars, execVars, signalVars>>

Reply(request, result) ==
  /\ Alive
  /\ request \in asked
  /\ asked' = asked \ {request}
  /\ Send(Packets[request[1]][Answer(request, result)])
  /\ UNCHANGED <<stance, turning, faults, parserVars, queues, pubVars, execVars,
                 signalVars>>

(***************************************************************************)
(* recv_task, byte by byte                                                 *)
(***************************************************************************)
StartByte1(dat) ==
  /\ state = "startbyte1"
  /\ state' = IF dat = 170 THEN "startbyte2" ELSE state
  /\ UNCHANGED <<frame, recvCount, queues>>

StartByte2(dat) ==
  /\ state = "startbyte2"
  /\ state' = IF dat = 85 THEN "function" ELSE "startbyte1"
  /\ UNCHANGED <<frame, recvCount, queues>>

Function(dat) ==
  /\ state = "function"
  /\ IF dat < FuncNone
     THEN frame' = <<dat, 0>> /\ state' = "length"
     ELSE frame' = <<>> /\ state' = "startbyte1"
  /\ UNCHANGED <<recvCount, queues>>

\* Seeded defect: an empty packet is not looked for.
LengthOfSome(dat) ==
  /\ state = "length"
  /\ frame' = [frame EXCEPT ![2] = dat]
  /\ recvCount' = 0
  /\ state' = "data"
  /\ UNCHANGED queues
Length(dat) ==
  /\ state = "length"
  /\ frame' = [frame EXCEPT ![2] = dat]
  /\ recvCount' = 0
  /\ state' = IF dat = 0 THEN "checksum" ELSE "data"
  /\ UNCHANGED queues

Data(dat) ==
  /\ state = "data"
  /\ frame' = Append(frame, dat)
  /\ recvCount' = recvCount + 1
  /\ state' = IF recvCount' >= frame[2] THEN "checksum" ELSE state
  /\ UNCHANGED queues

\* A full queue keeps the older packet.
\* Seeded defect: the queue has no bound.
PutInto(func, data) ==
  queues' = IF func \in Functions
            THEN [queues EXCEPT ![func] = @ \cup {data}] ELSE queues
Put(func, data) ==
  queues' = IF func \in Functions /\ queues[func] = {}
            THEN [queues EXCEPT ![func] = {data}] ELSE queues

\* Seeded defect: the checksum is not compared.
Unchecked(dat) ==
  /\ state = "checksum"
  /\ Put(frame[1], SubSeq(frame, 3, Len(frame)))
  /\ state' = "startbyte1"
  /\ frame' = <<>> /\ recvCount' = 0
Check(dat) ==
  /\ state = "checksum"
  /\ IF Checksum(frame) = dat
     THEN Put(frame[1], SubSeq(frame, 3, Len(frame)))
     ELSE UNCHANGED queues
  /\ state' = "startbyte1"
  /\ frame' = <<>> /\ recvCount' = 0

Parse(dat) ==
  \/ StartByte1(dat) \/ StartByte2(dat) \/ Function(dat) \/ Length(dat)
  \/ Data(dat) \/ Check(dat)

NextByte == Alive /\ wire # <<>> /\ wire' = Tail(wire)

Received ==
  /\ NextByte
  /\ Parse(Head(wire))
  /\ UNCHANGED <<boardVars, faults, pubVars, execVars, signalVars>>

ByteAltered(dat) ==
  /\ NextByte /\ faults < MaxFaults
  /\ faults' = faults + 1
  /\ dat # Head(wire) /\ Parse(dat)
  /\ UNCHANGED <<boardVars, pubVars, execVars, signalVars>>

ByteLost ==
  /\ NextByte /\ faults < MaxFaults
  /\ faults' = faults + 1
  /\ UNCHANGED <<boardVars, parserVars, queues, pubVars, execVars, signalVars>>

(***************************************************************************)
(* pub_callback                                                            *)
(***************************************************************************)
\* get_battery, get_button, get_imu, get_gamepad and get_sbus.  Four of the
\* channels of an SBUS report without signal are ints.
\* Seeded defect: the packet is looked at and left in the queue.
Peek(f) == queues[f] # {} /\ UNCHANGED queues
Get(f) == queues[f] # {} /\ queues' = [queues EXCEPT ![f] = {}]

SignalLost(f) == f = Sbus /\ queues[f] \subseteq {<<s>> : s \in Lost}

PubData(f) ==
  /\ Alive /\ ok /\ publishing
  /\ Get(f) /\ ~SignalLost(f)
  /\ shown' = [shown EXCEPT ![f] = queues[f]]
  /\ UNCHANGED <<boardVars, wire, faults, parserVars, publishing, execVars,
                 signalVars>>

\* The message takes floats alone: an AssertionError that nothing catches ends
\* the only thread that publishes.
PubRaised(f) ==
  /\ Alive /\ ok /\ publishing
  /\ Get(f) /\ SignalLost(f)
  /\ publishing' = FALSE
  /\ UNCHANGED <<boardVars, wire, faults, parserVars, shown, execVars,
                 signalVars>>

(***************************************************************************)
(* The callbacks of the executor thread.  An exception leaves rclpy.spin   *)
(* and ends the process, with the motors as they are.                      *)
(***************************************************************************)
othersOfExec == <<stance, wire, faults, parserVars, pubVars>>

\* The parser and the queues go with the process, and so does who would read
\* what the board still has to send.
Ends ==
  /\ exec' = "down"
  /\ asked' = {} /\ wire' = <<>>
  /\ state' = "startbyte1" /\ frame' = <<>> /\ recvCount' = 0
  /\ queues' = [f \in Functions |-> {}]
  /\ reading' = NoRequest /\ todo' = 0
  /\ UNCHANGED <<stance, turning, faults, pubVars, signalVars>>

\* set_motor_state, until the speeds are written.
MotorHeard ==
  /\ exec = "spin" /\ ok
  /\ exec' = "motor"
  /\ UNCHANGED <<othersOfExec, turning, asked, queues, reading, todo, signalVars>>
MotorWritten(speeds) ==
  /\ exec = "motor"
  /\ turning' = speeds
  /\ exec' = "spin"
  /\ UNCHANGED <<othersOfExec, asked, queues, reading, todo, signalVars>>

\* set_led_state, set_buzzer_state, and the three callbacks of the servos, which
\* send a packet for each setting and then one for the positions and the stops.
Commanded(commands) ==
  /\ exec = "spin" /\ ok
  /\ exec' = "write"
  /\ todo' = commands
  /\ UNCHANGED <<othersOfExec, turning, asked, queues, reading, signalVars>>
CommandWritten ==
  /\ exec = "write" /\ todo > 0
  /\ todo' = todo - 1
  /\ UNCHANGED <<othersOfExec, turning, asked, queues, exec, reading, signalVars>>

\* A number that does not fit into its field, or a setting without its value.
CommandRaised ==
  /\ exec = "motor" \/ (exec = "write" /\ todo > 0)
  /\ Ends

\* set_oled_state calls a function the Board does not have.
OledHeard ==
  /\ exec = "spin" /\ ok
  /\ Ends

\* get_bus_servo_state and get_pwm_servo_state.
StateAsked(reads) ==
  /\ exec = "spin" /\ ok
  /\ exec' = "read"
  /\ todo' = reads
  /\ UNCHANGED <<othersOfExec, turning, asked, queues, reading, signalVars>>

\* bus_servo_read_and_unpack and pwm_servo_read_and_unpack.
ReadBegun(request) ==
  /\ exec = "read" /\ todo > 0
  /\ asked' = asked \cup {request}
  /\ reading' = request
  /\ exec' = "waiting"
  /\ UNCHANGED <<othersOfExec, turning, queues, todo, signalVars>>

\* What a position below zero, and every answer of a PWM servo, does to the
\* arrays of the response.
Raises(data) == reading[1] = PwmServo \/ data[Len(data)] = Negative

AnswerRaised ==
  /\ exec = "waiting"
  /\ \E data \in queues[reading[1]] : Raises(data)
  /\ Ends
AnswerRead ==
  /\ exec = "waiting"
  /\ \E data \in queues[reading[1]] : ~Raises(data)
  /\ queues' = [queues EXCEPT ![reading[1]] = {}]
  /\ todo' = todo - 1
  /\ exec' = "read"
  /\ reading' = NoRequest
  /\ UNCHANGED <<othersOfExec, turning, asked, signalVars>>

CallDone ==
  /\ exec \in {"read", "write"} /\ todo = 0
  /\ exec' = "spin"
  /\ UNCHANGED <<othersOfExec, turning, asked, queues, reading, todo, signalVars>>

\* queue.Empty, after one second.
\* Seeded defects: it is caught; the wait has no timeout.
TimeoutCaught ==
  /\ exec = "waiting" /\ queues[reading[1]] = {}
  /\ todo' = todo - 1
  /\ exec' = "read"
  /\ reading' = NoRequest
  /\ UNCHANGED <<othersOfExec, turning, asked, queues, signalVars>>
NoTimeout == FALSE /\ UNCHANGED vars
TimedOut ==
  /\ exec = "waiting" /\ queues[reading[1]] = {}
  /\ Ends

\* The handler of SIGINT stops the motors and shuts rclpy down; the callback
\* it interrupted goes on.
\* Seeded defect: rclpy is shut down, and the motors are left.
InterruptedOnly ==
  /\ Alive /\ ok
  /\ ok' = FALSE
  /\ midMotor' = (exec = "motor")
  /\ UNCHANGED <<boardVars, wire, faults, parserVars, queues, pubVars, execVars>>
Interrupted ==
  /\ Alive /\ ok
  /\ turning' = FALSE
  /\ ok' = FALSE
  /\ midMotor' = (exec = "motor")
  /\ UNCHANGED <<stance, asked, wire, faults, parserVars, queues, pubVars, execVars>>

SpinEnds ==
  /\ exec = "spin" /\ ~ok
  /\ Ends

Board == (\E f \in Reports : Report(f) \/ \E s \in Stances[f] : StanceTaken(f, s))
           \/ \E r \in Requests, v \in Results : Reply(r, v)
Recv == Received \/ (\E dat \in Noise : ByteAltered(dat)) \/ ByteLost
Callback == MotorHeard \/ (\E s \in BOOLEAN : MotorWritten(s)) \/ OledHeard
              \/ (\E n \in 0..MaxPackets : Commanded(n) \/ StateAsked(n))
              \/ CommandWritten \/ CommandRaised \/ (\E r \in Requests : ReadBegun(r))
              \/ AnswerRaised \/ AnswerRead \/ TimedOut \/ CallDone \/ SpinEnds

Pub == \E f \in Reports : PubData(f) \/ PubRaised(f)

Next == Board \/ Recv \/ Pub \/ Callback \/ Interrupted

\* Threads go on, waits end, and the board finds time for its reports.
Fairness ==
  /\ WF_vars(Received)
  /\ \A f \in Reports : WF_vars(PubData(f) \/ PubRaised(f)) /\ SF_vars(Report(f))
  /\ WF_vars(exec # "spin" /\ Callback) /\ WF_vars(SpinEnds)

Spec == Init /\ [][Next]_vars /\ Fairness

(***************************************************************************)
(* Properties                                                              *)
(***************************************************************************)
\* The shapes of the line, the parser, the queues and the threads.
TypeOK ==
  /\ stance \in Inputs /\ turning \in BOOLEAN
  /\ asked \subseteq Requests
  /\ wire \in Seq(Byte) /\ Len(wire) <= MaxWire
  /\ faults \in 0..MaxFaults
  /\ state \in {"startbyte1", "startbyte2", "function", "length", "data",
                "checksum"}
  /\ frame \in Seq(Byte) /\ recvCount \in Byte
  /\ DOMAIN queues = Functions /\ DOMAIN shown = Reports
  /\ \A f \in Reports : shown[f] \subseteq Seq(Byte)
  /\ publishing \in BOOLEAN
  /\ \A f \in Functions :
       queues[f] \subseteq Seq(Byte) /\ \A d, e \in queues[f] : d = e
  /\ exec \in {"spin", "motor", "write", "read", "waiting", "down"}
  /\ reading \in Requests \cup {NoRequest}
  /\ todo \in 0..MaxPackets
  /\ ok \in BOOLEAN /\ midMotor \in BOOLEAN

\* Whatever bytes come in, lost and altered ones included, recv_task is never
\* outside its frame: it counts the data it has, and compares a checksum over
\* exactly the length the packet announced.
ParserInFrame ==
  /\ state = "length" => Len(frame) = 2
  /\ state = "data" => Len(frame) = 2 + recvCount /\ recvCount < frame[2]
  /\ state = "checksum" => Len(frame) = 2 + recvCount /\ recvCount = frame[2]

\* Nothing the board did not send gets through to a queue: a byte lost or
\* altered costs packets and makes none up, nor moves one to another queue.
PacketsAreGenuine == \A f \in Functions : queues[f] \subseteq Genuine[f]

\* The read functions look neither at the servo nor at the command of what
\* they take from the queue: it is the answer to their request all the same,
\* because a read that gives up ends the process, and with it a late answer.
AnswerMatchesRequest ==
  exec = "waiting" => \A data \in queues[reading[1]] : data[1] = reading[2]

\* SIGINT leaves the motors stopped, unless it was in the middle of
\* set_motor_state, which goes on and writes its speeds after the stop.
StopIsLast == ~ok /\ ~midMotor => ~turning

\* A callback ends, whatever becomes of the answers it waits for: with a
\* response, or with the process.
CallReturns == exec # "spin" ~> exec \in {"spin", "down"}

\* A full queue keeps the older packet, and what comes next is lost.  All the
\* same, what an input is left at, a released stick, is what is published last
\* of it, as long as the board repeats its reports, and unless an SBUS receiver
\* that has lost its signal ends the thread that publishes them all.
ReportsCatchUp ==
  \A f \in Reports : \A s \in Stances[f] :
    <>[](stance[f] = s /\ Alive /\ ok /\ publishing) => <>[](shown[f] = {<<s>>})
=============================================================================
