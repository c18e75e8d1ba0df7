--------------------------- MODULE BoardLinkProofs ---------------------------
(***************************************************************************)
(* Proofs about BoardLink, for every checksum, set of servos and reports,  *)
(* and about the checksum of the SDK.  Those on the line are for as long   *)
(* as no byte was lost or altered, the others for any number of faults.    *)
(***************************************************************************)
EXTENDS BoardLink, Crc8, TLAPS, SequenceTheorems, WellFoundedInduction

\* A callback that is in set_motor_state after SIGINT was there before it.
MotorLate == ~ok /\ exec = "motor" => midMotor

\* Who waits for an answer has this read still to do.
ReadPending == exec = "waiting" => todo > 0

(***************************************************************************)
(* Packets                                                                 *)
(***************************************************************************)
LEMMA FunctionsAreBytes == Functions \subseteq Byte
BY LinkAssumption
   DEF Functions, PwmServo, BusServo, Byte, Sys, Key, Imu, Gamepad, Sbus

LEMMA GenuineType ==
  ASSUME NEW f \in Functions, NEW data \in Genuine[f]
  PROVE  data \in Seq(Byte) /\ Len(data) \in {1, 2}
<1>1. CASE f \in Reports
  <2>1. PICK s \in Stances[f] : data = <<s>>
    BY <1>1 DEF Genuine
  <2>2. s \in Byte
    BY <1>1, LinkAssumption
  <2> QED BY <2>1, <2>2
<1>2. CASE f = PwmServo
  <2>1. f \notin Reports
    BY <1>2, LinkAssumption DEF PwmServo, Sys, Key, Imu, Gamepad, Sbus
  <2>2. PICK r \in Requests : data = <<r[2]>>
    BY <1>2, <2>1 DEF Genuine
  <2>3. r[2] \in Byte
    BY LinkAssumption
  <2> QED BY <2>2, <2>3
<1>3. CASE f = BusServo
  <2>1. f \notin Reports /\ f # PwmServo
    BY <1>3, LinkAssumption DEF PwmServo, BusServo, Sys, Key, Imu, Gamepad, Sbus
  <2>2. PICK r \in Requests, v \in Results : data = <<r[2], v>>
    BY <1>3, <2>1 DEF Genuine
  <2>3. r[2] \in Byte
    BY LinkAssumption
  <2>4. v \in Byte
    BY DEF Results, Good, Negative, Byte
  <2> QED BY <2>2, <2>3, <2>4
<1> QED BY <1>1, <1>2, <1>3 DEF Functions

LEMMA PacketType ==
  ASSUME NEW f \in Functions, NEW data \in Genuine[f]
  PROVE  Packets[f][data] \in Seq(Byte)
<1> DEFINE sum == Checksum(<<f, Len(data)>> \o data)
<1>1. data \in Seq(Byte) /\ Len(data) \in Byte /\ f \in Byte
  BY GenuineType, FunctionsAreBytes DEF Byte
<1>2. sum \in Byte
  BY ChecksumAssumption
<1>3. <<170, 85, f, Len(data)>> \in Seq(Byte)
  BY <1>1 DEF Byte
<1>4. Packets[f][data] = (<<170, 85, f, Len(data)>> \o data) \o <<sum>>
  BY DEF Packets, Packet
<1> HIDE DEF sum
<1>5. <<sum>> \in Seq(Byte)
  BY <1>2
<1> QED BY <1>1, <1>3, <1>4, <1>5

LEMMA AnswerIsGenuine ==
  ASSUME NEW request \in Requests, NEW result \in Results
  PROVE  request[1] \in Functions /\ Answer(request, result) \in Genuine[request[1]]
<1>1. request[1] \in {PwmServo, BusServo} /\ request[1] \in Functions
  BY LinkAssumption DEF Functions
<1>2. request[1] \notin Reports /\ PwmServo # BusServo
  BY <1>1, LinkAssumption DEF PwmServo, BusServo, Sys, Key, Imu, Gamepad, Sbus
<1>3. CASE request[1] = PwmServo
  BY <1>1, <1>2, <1>3 DEF Answer, Genuine
<1>4. CASE request[1] = BusServo
  BY <1>1, <1>2, <1>4 DEF Answer, Genuine
<1> QED BY <1>1, <1>3, <1>4

(***************************************************************************)
(* The parser                                                              *)
(***************************************************************************)
ParserType ==
  /\ state \in {"startbyte1", "startbyte2", "function", "length", "data",
                "checksum"}
  /\ frame \in Seq(Byte) /\ recvCount \in Byte
  /\ DOMAIN queues = Functions
  /\ \A f \in Functions :
       queues[f] \subseteq Seq(Byte) /\ \A d, e \in queues[f] : d = e

LEMMA PutType ==
  ASSUME ParserType, NEW func, NEW data \in Seq(Byte), Put(func, data)
  PROVE  /\ DOMAIN queues' = Functions
         /\ \A f \in Functions :
              queues'[f] \subseteq Seq(Byte) /\ \A d, e \in queues'[f] : d = e
<1>1. CASE func \in Functions /\ queues[func] = {}
  <2>1. queues' = [queues EXCEPT ![func] = {data}]
    BY <1>1 DEF Put
  <2> QED BY <1>1, <2>1 DEF ParserType
<1>2. CASE ~(func \in Functions /\ queues[func] = {})
  BY <1>2 DEF Put, ParserType
<1> QED BY <1>1, <1>2

\* Whatever the next byte is, the parser stays in its frame.
LEMMA ParseKeeps ==
  ASSUME ParserType, ParserInFrame, NEW dat \in Byte, Parse(dat)
  PROVE  ParserType' /\ ParserInFrame'
<1>1. CASE StartByte1(dat)
  BY <1>1 DEF StartByte1, ParserType, ParserInFrame
<1>2. CASE StartByte2(dat)
  BY <1>2 DEF StartByte2, ParserType, ParserInFrame
<1>3. CASE Function(dat)
  <2>1. <<dat, 0>> \in Seq(Byte) /\ <<>> \in Seq(Byte) /\ Len(<<dat, 0>>) = 2
    BY DEF Byte
  <2> QED BY <1>3, <2>1 DEF Function, ParserType, ParserInFrame
<1>4. CASE Length(dat)
  <2>1. Len(frame) = 2 /\ frame \in Seq(Byte)
    BY <1>4 DEF Length, ParserType, ParserInFrame
  <2>2. frame' \in Seq(Byte) /\ Len(frame') = 2 /\ frame'[2] = dat
    BY <1>4, <2>1 DEF Length
  <2>3. recvCount' = 0 /\ UNCHANGED queues
        /\ state' = IF dat = 0 THEN "checksum" ELSE "data"
    BY <1>4 DEF Length
  <2> QED BY <2>2, <2>3 DEF ParserType, ParserInFrame, Byte
<1>5. CASE Data(dat)
  <2>1. /\ Len(frame) = 2 + recvCount /\ recvCount < frame[2]
        /\ frame \in Seq(Byte) /\ recvCount \in Byte
    BY <1>5 DEF Data, ParserType, ParserInFrame
  <2> DEFINE announced == frame[2]
  <2>2. announced \in Byte
    <3>1. 2 \in 1..Len(frame)
      BY <2>1 DEF Byte
    <3> QED BY <2>1, <3>1
  <2>3. /\ frame' = Append(frame, dat) /\ recvCount' = recvCount + 1
        /\ state' = (IF recvCount' >= announced THEN "checksum" ELSE "data")
        /\ UNCHANGED queues
    BY <1>5 DEF Data
  <2>4. frame' \in Seq(Byte) /\ Len(frame') = Len(frame) + 1
        /\ frame'[2] = announced
    BY <2>1, <2>3 DEF Byte
  <2>5. recvCount < announced
    BY <2>1
  <2> HIDE DEF announced
  <2>6. recvCount' \in Byte /\ recvCount' <= announced
    BY <2>1, <2>2, <2>3, <2>5 DEF Byte
  <2>7. Len(frame') = 2 + recvCount'
    BY <2>1, <2>3, <2>4 DEF Byte
  <2>8. /\ state' = "data" => recvCount' < announced
        /\ state' = "checksum" => recvCount' = announced
        /\ state' \in {"data", "checksum"}
    BY <2>2, <2>3, <2>6 DEF Byte
  <2>9. ParserInFrame'
    BY <2>4, <2>7, <2>8 DEF ParserInFrame
  <2> QED BY <2>3, <2>4, <2>6, <2>8, <2>9 DEF ParserType
<1>6. CASE Check(dat)
  <2>1. /\ Len(frame) >= 2 /\ frame \in Seq(Byte)
    BY <1>6 DEF Check, ParserType, ParserInFrame, Byte
  <2>2. SubSeq(frame, 3, Len(frame)) \in Seq(Byte)
    BY <2>1
  <2>3. /\ DOMAIN queues' = Functions
        /\ \A f \in Functions :
             queues'[f] \subseteq Seq(Byte) /\ \A d, e \in queues'[f] : d = e
    <3>1. CASE Checksum(frame) = dat
      BY <1>6, <2>2, <3>1, PutType DEF Check
    <3>2. CASE Checksum(frame) # dat
      BY <1>6, <3>2 DEF Check, ParserType
    <3> QED BY <3>1, <3>2
  <2>4. state' = "startbyte1" /\ frame' = <<>> /\ recvCount' = 0
    BY <1>6 DEF Check
  <2> QED BY <2>3, <2>4 DEF ParserType, ParserInFrame, Byte
<1> QED BY <1>1, <1>2, <1>3, <1>4, <1>5, <1>6 DEF Parse

(***************************************************************************)
(* Types, and the parser in its frame                                      *)
(***************************************************************************)
\* One of the two needs the other: the count of data stays a byte because the
\* length that bounds it is one.
LEMMA LinkStep ==
  TypeOK /\ ParserInFrame /\ ReadPending /\ [Next]_vars
    => TypeOK' /\ ParserInFrame'
<1> SUFFICES ASSUME TypeOK, ParserInFrame, ReadPending, [Next]_vars
             PROVE  TypeOK' /\ ParserInFrame'
  OBVIOUS
<1>0. ParserType
  BY DEF TypeOK, ParserType
<1>1. ASSUME UNCHANGED <<parserVars, queues>> PROVE ParserInFrame' /\ ParserType'
  BY <1>0, <1>1 DEF parserVars, ParserInFrame, ParserType
<1>2. ASSUME NEW f \in Reports, NEW s \in Stances[f], StanceTaken(f, s)
      PROVE  TypeOK' /\ ParserInFrame'
  <2>1. stance' \in Inputs
    <3>1. stance' = [stance EXCEPT ![f] = s] /\ stance \in Inputs
      BY <1>2 DEF StanceTaken, TypeOK
    <3>2. s \in Byte
      BY LinkAssumption
    <3> QED BY <3>1, <3>2 DEF Inputs
  <2> QED BY <1>1, <1>2, <2>1
        DEF StanceTaken, TypeOK, parserVars, pubVars, execVars, signalVars
<1>3. ASSUME NEW f \in Reports, Report(f) PROVE TypeOK' /\ ParserInFrame'
  <2>1. f \in Functions /\ <<stance[f]>> \in Genuine[f]
    BY DEF Functions, Genuine, Inputs, TypeOK
  <2>2. Packets[f][<<stance[f]>>] \in Seq(Byte)
    BY <2>1, PacketType
  <2>3. wire' \in Seq(Byte) /\ Len(wire') <= MaxWire
    BY <1>3, <2>2 DEF Report, Send, TypeOK
  <2> QED BY <1>1, <1>3, <2>3
        DEF Report, TypeOK, boardVars, parserVars, pubVars, execVars, signalVars
<1>4. ASSUME NEW r \in Requests, NEW v \in Results, Reply(r, v)
      PROVE  TypeOK' /\ ParserInFrame'
  <2>1. Packets[r[1]][Answer(r, v)] \in Seq(Byte)
    BY AnswerIsGenuine, PacketType
  <2>2. wire' \in Seq(Byte) /\ Len(wire') <= MaxWire
    BY <1>4, <2>1 DEF Reply, Send, TypeOK
  <2>3. asked' \subseteq Requests
    BY <1>4 DEF Reply, TypeOK
  <2> QED BY <1>1, <1>4, <2>2, <2>3
        DEF Reply, TypeOK, parserVars, pubVars, execVars, signalVars
<1>5. CASE Recv
  <2>1. wire # <<>> /\ wire' = Tail(wire) /\ wire \in Seq(Byte)
    BY <1>5 DEF Recv, Received, ByteAltered, ByteLost, NextByte, TypeOK
  <2>2. Head(wire) \in Byte /\ wire' \in Seq(Byte) /\ Len(wire') <= MaxWire
    BY <2>1, LinkAssumption DEF TypeOK
  <2>3. faults' \in 0..MaxFaults
    BY <1>5, LinkAssumption DEF Recv, Received, ByteAltered, ByteLost, TypeOK
  <2>4. (\E dat \in Byte : Parse(dat)) \/ UNCHANGED <<parserVars, queues>>
    BY <1>5, <2>2, LinkAssumption DEF Recv, Received, ByteAltered, ByteLost
  <2>5. ParserType' /\ ParserInFrame'
    BY <1>0, <1>1, <2>4, ParseKeeps
  <2>6. UNCHANGED <<boardVars, pubVars, execVars, signalVars>>
    BY <1>5 DEF Recv, Received, ByteAltered, ByteLost
  <2> QED BY <2>2, <2>3, <2>5, <2>6
        DEF TypeOK, ParserType, boardVars, pubVars, execVars, signalVars
<1>6. ASSUME NEW f \in Reports, PubData(f) \/ PubRaised(f)
      PROVE  TypeOK' /\ ParserInFrame'
  <2>1. f \in Functions
    BY DEF Functions
  <2>2. ParserInFrame'
    <3>1. UNCHANGED parserVars
      BY <1>6 DEF PubData, PubRaised
    <3> QED BY <3>1 DEF parserVars, ParserInFrame
  <2>3. /\ DOMAIN queues' = Functions
        /\ \A g \in Functions :
             queues'[g] \subseteq Seq(Byte) /\ \A d, e \in queues'[g] : d = e
    <3>1. queues' = [queues EXCEPT ![f] = {}]
      BY <1>6 DEF PubData, PubRaised, Get
    <3> QED BY <2>1, <3>1 DEF TypeOK
  <2>4. DOMAIN shown' = Reports /\ \A g \in Reports : shown'[g] \subseteq Seq(Byte)
    BY <1>6, <2>1 DEF PubData, PubRaised, TypeOK
  <2>5. publishing' \in BOOLEAN
    BY <1>6 DEF PubData, PubRaised, TypeOK
  <2> QED BY <1>6, <2>2, <2>3, <2>4, <2>5
        DEF PubData, PubRaised, TypeOK, boardVars, parserVars, execVars, signalVars
<1>7. ASSUME Ends PROVE TypeOK' /\ ParserInFrame'
  <2>1. wire' \in Seq(Byte) /\ Len(wire') <= MaxWire /\ frame' \in Seq(Byte)
    BY <1>7, LinkAssumption DEF Ends
  <2>2. recvCount' \in Byte /\ todo' \in 0..MaxPackets
    BY <1>7, LinkAssumption DEF Ends, Byte
  <2>3. ParserInFrame'
    BY <1>7 DEF Ends, ParserInFrame
  <2>4. /\ DOMAIN queues' = Functions
        /\ \A f \in Functions :
             queues'[f] \subseteq Seq(Byte) /\ \A d, e \in queues'[f] : d = e
    BY <1>7 DEF Ends
  <2> QED BY <1>7, <2>1, <2>2, <2>3, <2>4
        DEF Ends, TypeOK, pubVars, signalVars
<1>8. CASE MotorHeard \/ \E s \in BOOLEAN : MotorWritten(s)
  BY <1>1, <1>8 DEF MotorHeard, MotorWritten, othersOfExec, pubVars, TypeOK, parserVars,
                    signalVars
<1>9. ASSUME NEW n \in 0..MaxPackets, Commanded(n) \/ StateAsked(n)
      PROVE  TypeOK' /\ ParserInFrame'
  BY <1>1, <1>9
     DEF Commanded, StateAsked, othersOfExec, pubVars, TypeOK, parserVars, signalVars
<1>16. CASE CommandWritten
  <2>1. todo' \in 0..MaxPackets
    <3>1. todo > 0 /\ todo' = todo - 1
      BY <1>16 DEF CommandWritten
    <3>2. todo \in 0..MaxPackets /\ MaxPackets \in Nat
      BY LinkAssumption DEF TypeOK
    <3> QED BY <3>1, <3>2
  <2> QED BY <1>1, <1>16, <2>1
        DEF CommandWritten, othersOfExec, pubVars, TypeOK, parserVars, signalVars
<1>10. ASSUME NEW r \in Requests, ReadBegun(r) PROVE TypeOK' /\ ParserInFrame'
  <2>1. asked' \subseteq Requests
    BY <1>10 DEF ReadBegun, TypeOK
  <2> QED BY <1>1, <1>10, <2>1
        DEF ReadBegun, othersOfExec, pubVars, TypeOK, parserVars, signalVars
<1>11. CASE AnswerRead
  <2>1. todo' \in 0..MaxPackets
    <3>1. todo > 0 /\ todo' = todo - 1
      BY <1>11 DEF AnswerRead, ReadPending
    <3>2. todo \in 0..MaxPackets /\ MaxPackets \in Nat
      BY LinkAssumption DEF TypeOK
    <3> QED BY <3>1, <3>2
  <2>2. ParserInFrame'
    BY <1>11 DEF AnswerRead, othersOfExec, parserVars, ParserInFrame
  <2>3. /\ DOMAIN queues' = Functions
        /\ \A g \in Functions :
             queues'[g] \subseteq Seq(Byte) /\ \A d, e \in queues'[g] : d = e
    BY <1>11 DEF AnswerRead, TypeOK
  <2> QED BY <1>11, <2>1, <2>2, <2>3
        DEF AnswerRead, othersOfExec, pubVars, TypeOK, parserVars, signalVars
<1>12. CASE CallDone
  BY <1>1, <1>12 DEF CallDone, othersOfExec, pubVars, TypeOK, parserVars, signalVars
<1>13. CASE OledHeard \/ CommandRaised \/ AnswerRaised \/ TimedOut \/ SpinEnds
  BY <1>7, <1>13 DEF OledHeard, CommandRaised, AnswerRaised, TimedOut, SpinEnds
<1>14. CASE Interrupted
  BY <1>1, <1>14 DEF Interrupted, Alive, TypeOK, parserVars, pubVars, execVars
<1>15. CASE UNCHANGED vars
  BY <1>1, <1>15 DEF vars, TypeOK, boardVars, parserVars, pubVars, execVars, signalVars
<1> QED BY <1>2, <1>3, <1>4, <1>5, <1>6, <1>8, <1>9, <1>10, <1>11, <1>12, <1>13,
           <1>14, <1>15, <1>16 DEF Next, Board, Pub, Callback

LEMMA ReadStep == TypeOK /\ ReadPending /\ [Next]_vars => ReadPending'
<1> SUFFICES ASSUME TypeOK, ReadPending, [Next]_vars PROVE ReadPending'
  OBVIOUS
<1> USE DEF ReadPending
<1>1. CASE Board \/ Recv \/ Pub \/ Interrupted
  BY <1>1 DEF Board, StanceTaken, Report, Reply, Recv, Received, ByteAltered,
              ByteLost, Pub, PubData, PubRaised, Interrupted, execVars
<1>2. CASE Callback
  BY <1>2 DEF Callback, MotorHeard, MotorWritten, OledHeard, Commanded,
              CommandWritten, CommandRaised, StateAsked, ReadBegun, AnswerRaised,
              AnswerRead, TimedOut, CallDone, SpinEnds, Ends
<1>3. CASE UNCHANGED vars
  BY <1>3 DEF vars, execVars
<1> QED BY <1>1, <1>2, <1>3 DEF Next

LEMMA LinkInit == Init => TypeOK /\ ParserInFrame /\ ReadPending
<1> SUFFICES ASSUME Init PROVE TypeOK /\ ParserInFrame /\ ReadPending
  OBVIOUS
<1>1. wire \in Seq(Byte) /\ Len(wire) <= MaxWire /\ frame \in Seq(Byte)
  BY LinkAssumption DEF Init
<1>2. /\ faults \in 0..MaxFaults /\ recvCount \in Byte /\ todo \in 0..MaxPackets
  BY LinkAssumption DEF Init, Byte
<1>3. ParserInFrame /\ ReadPending
  BY DEF Init, ParserInFrame, ReadPending
<1> QED BY <1>1, <1>2, <1>3 DEF Init, TypeOK

\* Every byte, queue and field keeps its shape: a queue never holds two packets
\* and the count of data stays a byte.
THEOREM TypeCorrect == Spec => []TypeOK
BY LinkInit, LinkStep, ReadStep, PTL DEF Spec

\* The parser stays in its frame for every sequence of bytes, whatever faults
\* made of them and whatever the checksum.
THEOREM ParserSafe == Spec => []ParserInFrame
BY LinkInit, LinkStep, ReadStep, PTL DEF Spec

(***************************************************************************)
(* SIGINT                                                                  *)
(***************************************************************************)
\* The stop of the SIGINT handler is the last word, but for the callback of the
\* motors it interrupted.
THEOREM StopHolds == Spec => []StopIsLast
<1> DEFINE Inv == StopIsLast /\ MotorLate
<1>1. Init => Inv
  BY DEF Init, StopIsLast, MotorLate
<1>2. Inv /\ [Next]_vars => Inv'
  <2> SUFFICES ASSUME StopIsLast, MotorLate, [Next]_vars
               PROVE  StopIsLast' /\ MotorLate'
    OBVIOUS
  <2> USE DEF StopIsLast, MotorLate
  <2>1. CASE Board \/ Recv \/ Pub
    <3>1. CASE Board
      <4>1. UNCHANGED <<turning, exec, ok, midMotor>>
        BY <3>1, Zenon DEF Board, StanceTaken, Report, Reply, boardVars, execVars,
                           signalVars
      <4> QED BY <4>1
    <3>2. CASE Recv
      BY <3>2 DEF Recv, Received, ByteAltered, ByteLost, boardVars, execVars,
                  signalVars
    <3>3. CASE Pub
      BY <3>3 DEF Pub, PubData, PubRaised, boardVars, execVars, signalVars
    <3> QED BY <2>1, <3>1, <3>2, <3>3
  <2>2. CASE MotorHeard \/ \E s \in BOOLEAN : MotorWritten(s)
    BY <2>2 DEF MotorHeard, MotorWritten, signalVars
  <2>3. CASE OledHeard \/ CommandRaised \/ AnswerRaised \/ TimedOut \/ SpinEnds
    BY <2>3 DEF OledHeard, CommandRaised, AnswerRaised, TimedOut, SpinEnds, Ends,
                signalVars
  <2>4. CASE (\E n \in 0..MaxPackets : Commanded(n) \/ StateAsked(n))
               \/ CommandWritten \/ (\E r \in Requests : ReadBegun(r))
               \/ AnswerRead \/ CallDone
    BY <2>4 DEF Commanded, CommandWritten, StateAsked, ReadBegun, AnswerRead,
                CallDone, signalVars
  <2>5. CASE Interrupted
    BY <2>5 DEF Interrupted, execVars
  <2>6. CASE UNCHANGED vars
    BY <2>6 DEF vars, boardVars, execVars, signalVars
  <2> QED BY <2>1, <2>2, <2>3, <2>4, <2>5, <2>6 DEF Next, Callback
<1> QED BY <1>1, <1>2, PTL DEF Spec

(***************************************************************************)
(* The line, as long as no byte was lost or altered.  What the parser has  *)
(* taken of its packet and what is still under way make up one sequence of *)
(* whole packets: of reports, with at most one answer among them, which is *)
(* the one to the read that waits.                                         *)
(***************************************************************************)
\* The packets of the reports, and what is made of any number of them.
ReportPackets ==
  {p \in Seq(Byte) :
     \E f \in Reports : \E data \in Genuine[f] : p = Packets[f][data]}
Extended(S) == <<>> \in S /\ \A l \in S, p \in ReportPackets : l \o p \in S
Chatter ==
  {l \in Seq(Byte) : \A S \in SUBSET Seq(Byte) : Extended(S) => l \in S}

LEMMA ChatterIsExtended == Extended(Chatter)
<1>1. <<>> \in Chatter
  BY DEF Chatter, Extended
<1>2. ASSUME NEW l \in Chatter, NEW p \in ReportPackets PROVE l \o p \in Chatter
  <2>1. l \in Seq(Byte) /\ p \in Seq(Byte) /\ l \o p \in Seq(Byte)
    BY DEF Chatter, ReportPackets
  <2>2. ASSUME NEW S \in SUBSET Seq(Byte), Extended(S) PROVE l \o p \in S
    BY <2>2 DEF Chatter, Extended
  <2> QED BY <2>1, <2>2 DEF Chatter
<1> QED BY <1>1, <1>2 DEF Extended

LEMMA ChatterStarts ==
  ASSUME NEW l \in Chatter, l # <<>>
  PROVE  \E p \in ReportPackets, rest \in Chatter : l = p \o rest
<1> DEFINE Starts(k) == \E p \in ReportPackets, rest \in Chatter : k = p \o rest
           S == {k \in Chatter : k = <<>> \/ Starts(k)}
<1>1. S \in SUBSET Seq(Byte)
  BY DEF Chatter
<1>2. ASSUME NEW k \in S, NEW q \in ReportPackets PROVE k \o q \in S
  <2>1. /\ k \in Seq(Byte) /\ q \in Seq(Byte) /\ k \o q \in Chatter
        /\ <<>> \in Chatter
    BY ChatterIsExtended DEF Extended, Chatter, ReportPackets
  <2>2. CASE k = <<>>
    <3>1. k \o q = q \o <<>>
      BY <2>1, <2>2
    <3> QED BY <2>1, <3>1
  <2>3. CASE Starts(k)
    <3>1. PICK p \in ReportPackets, rest \in Chatter : k = p \o rest
      BY <2>3
    <3>2. p \in Seq(Byte) /\ rest \in Seq(Byte) /\ rest \o q \in Chatter
      BY ChatterIsExtended DEF Extended, Chatter, ReportPackets
    <3>3. k \o q = p \o (rest \o q)
      BY <2>1, <3>1, <3>2, ConcatAssociative
    <3> QED BY <2>1, <3>2, <3>3
  <2> QED BY <2>2, <2>3
<1>3. Extended(S)
  BY <1>2, ChatterIsExtended DEF Extended
<1> HIDE DEF S
<1>4. l \in S
  BY <1>1, <1>3 DEF Chatter
<1> QED BY <1>4 DEF S

\* The bytes the parser has taken of the packet it is at, and with them what
\* is left of everything the board has sent.
Consumed ==
  IF state = "startbyte1" THEN <<>>
  ELSE IF state = "startbyte2" THEN <<170>>
  ELSE IF state = "function" THEN <<170, 85>>
  ELSE IF state = "length" THEN <<170, 85, frame[1]>>
  ELSE <<170, 85>> \o frame
Line == Consumed \o wire

LEMMA PacketShape ==
  ASSUME NEW f \in Functions, NEW data \in Genuine[f]
  PROVE  LET p == Packets[f][data]
             n == Len(data)
         IN /\ p \in Seq(Byte) /\ data \in Seq(Byte) /\ n \in {1, 2}
            /\ f \in Byte /\ f < FuncNone
            /\ Len(p) = 5 + n
            /\ p[1] = 170 /\ p[2] = 85 /\ p[3] = f /\ p[4] = n
            /\ \A i \in 1..n : p[4 + i] = data[i]
            /\ p[5 + n] = Checksum(<<f, n>> \o data)
<1> DEFINE p == Packets[f][data]
           n == Len(data)
           sum == Checksum(<<f, n>> \o data)
<1>1. /\ data \in Seq(Byte) /\ n \in {1, 2} /\ n \in Byte /\ f \in Byte
      /\ p \in Seq(Byte)
  BY GenuineType, PacketType, FunctionsAreBytes DEF Byte
<1>2. f < FuncNone
  <2>1. f \in {PwmServo, BusServo, Sys, Key, Imu, Gamepad, Sbus}
    BY LinkAssumption DEF Functions
  <2> QED BY <2>1 DEF PwmServo, BusServo, Sys, Key, Imu, Gamepad, Sbus, FuncNone
<1>3. sum \in Byte
  BY ChecksumAssumption
<1>4. p = (<<170, 85, f, n>> \o data) \o <<sum>>
  BY DEF Packets, Packet
<1> DEFINE h == <<170, 85, f, n>> \o data
<1>5. /\ h \in Seq(Byte) /\ Len(h) = 4 + n
      /\ h[1] = 170 /\ h[2] = 85 /\ h[3] = f /\ h[4] = n
      /\ \A i \in 1..n : h[4 + i] = data[i]
  <2>1. <<170, 85, f, n>> \in Seq(Byte) /\ Len(<<170, 85, f, n>>) = 4
    BY <1>1 DEF Byte
  <2> QED BY <1>1, <2>1
<1> HIDE DEF h, sum
<1>6. /\ Len(p) = 5 + n
      /\ p[1] = 170 /\ p[2] = 85 /\ p[3] = f /\ p[4] = n
      /\ \A i \in 1..n : p[4 + i] = data[i]
      /\ p[5 + n] = sum
  BY <1>1, <1>3, <1>4, <1>5 DEF h
<1> QED BY <1>1, <1>2, <1>6 DEF sum

LEMMA ByteMoves ==
  ASSUME NEW c \in Seq(Byte), NEW w \in Seq(Byte), w # <<>>
  PROVE  (c \o <<Head(w)>>) \o Tail(w) = c \o w
<1>1. Head(w) \in Byte /\ Tail(w) \in Seq(Byte) /\ <<Head(w)>> \o Tail(w) = w
  <2>1. Len(w) # 0
    BY EmptySeq
  <2>2. Head(w) \in Byte /\ Tail(w) \in Seq(Byte) /\ Len(Tail(w)) = Len(w) - 1
    BY <2>1, HeadTailProperties
  <2> DEFINE h == <<Head(w)>> \o Tail(w)
  <2>3. h \in Seq(Byte) /\ Len(h) = Len(w)
    BY <2>1, <2>2
  <2>4. \A i \in 1..Len(w) : h[i] = w[i]
    BY <2>1, <2>2
  <2> QED BY <2>3, <2>4, SeqEqual
<1>2. <<Head(w)>> \in Seq(Byte)
  BY <1>1
<1> QED BY <1>1, <1>2, ConcatAssociative
\* The frame once the length is written to it.
LEMMA FourOfTwo ==
  ASSUME NEW a \in Seq(Byte), NEW b \in Seq(Byte), NEW c \in Seq(Byte),
         NEW e \in Seq(Byte), Len(a) = 2, Len(b) = 2, Len(c) = 3, Len(e) = 1,
         c[1] = a[1], c[2] = a[2], c[3] = b[1], e[1] = b[2]
  PROVE  a \o b = c \o e
<1>1. /\ a \o b \in Seq(Byte) /\ Len(a \o b) = Len(a) + Len(b)
      /\ \A i \in 1..(Len(a) + Len(b)) :
           (a \o b)[i] = IF i <= Len(a) THEN a[i] ELSE b[i - Len(a)]
  BY ConcatProperties
<1>2. /\ c \o e \in Seq(Byte) /\ Len(c \o e) = Len(c) + Len(e)
      /\ \A i \in 1..(Len(c) + Len(e)) :
           (c \o e)[i] = IF i <= Len(c) THEN c[i] ELSE e[i - Len(c)]
  BY ConcatProperties
<1> DEFINE g == a \o b
           h == c \o e
<1>3. g \in Seq(Byte) /\ h \in Seq(Byte) /\ Len(g) = Len(h)
  BY <1>1, <1>2
<1>4. \A i \in 1..4 : g[i] = h[i]
  BY <1>1, <1>2
<1>5. Len(g) = 4
  BY <1>1
<1> HIDE DEF g, h
<1>6. g = h
  BY <1>3, <1>4, <1>5, SeqEqual
<1> QED BY <1>6 DEF g, h

LEMMA LengthWritten ==
  ASSUME NEW fr \in Seq(Byte), Len(fr) = 2, NEW d \in Byte
  PROVE  <<170, 85>> \o [fr EXCEPT ![2] = d] = <<170, 85, fr[1]>> \o <<d>>
<1>1. PICK b \in Seq(Byte) : /\ b = [fr EXCEPT ![2] = d]
                             /\ Len(b) = 2 /\ b[1] = fr[1] /\ b[2] = d
  <2>1. 1 \in 1..Len(fr) /\ 2 \in 1..Len(fr)
    OBVIOUS
  <2> DEFINE w == [fr EXCEPT ![2] = d]
  <2>2. w \in Seq(Byte) /\ Len(w) = 2 /\ w[1] = fr[1] /\ w[2] = d
    BY <2>1, ExceptSeq
  <2> QED BY <2>2
<1>2. 170 \in Byte /\ 85 \in Byte /\ fr[1] \in Byte
  <2>1. 1 \in 1..Len(fr)
    OBVIOUS
  <2>2. fr[1] \in Byte
    BY <2>1, ElementOfSeq
  <2> QED BY <2>2 DEF Byte
<1>3. PICK a \in Seq(Byte) : /\ a = <<170, 85>>
                             /\ Len(a) = 2 /\ a[1] = 170 /\ a[2] = 85
  <2> DEFINE w == <<170, 85>>
  <2>1. w \in Seq(Byte) /\ Len(w) = 2 /\ w[1] = 170 /\ w[2] = 85
    BY <1>2
  <2> QED BY <2>1
<1>4. PICK c \in Seq(Byte) :
             /\ c = <<170, 85, fr[1]>>
             /\ Len(c) = 3 /\ c[1] = 170 /\ c[2] = 85 /\ c[3] = fr[1]
  <2> DEFINE w == <<170, 85, fr[1]>>
  <2>1. /\ w \in Seq(Byte) /\ Len(w) = 3
        /\ w[1] = 170 /\ w[2] = 85 /\ w[3] = fr[1]
    BY <1>2
  <2> QED BY <2>1
<1>5. PICK e \in Seq(Byte) : e = <<d>> /\ Len(e) = 1 /\ e[1] = d
  <2> DEFINE w == <<d>>
  <2>1. w \in Seq(Byte) /\ Len(w) = 1 /\ w[1] = d
    OBVIOUS
  <2> QED BY <2>1
<1>6. /\ Len(a) = 2 /\ Len(b) = 2 /\ Len(c) = 3 /\ Len(e) = 1
      /\ c[1] = a[1] /\ c[2] = a[2] /\ c[3] = b[1] /\ e[1] = b[2]
  BY <1>1, <1>3, <1>4, <1>5
<1>7. a \o b = c \o e
  BY <1>6, FourOfTwo
<1> QED BY <1>1, <1>3, <1>4, <1>5, <1>7, Zenon

\* A packet is at the head of the line; the parser takes a byte as it was sent.
AtHead(f, data, rest) == Line = Packets[f][data] \o rest
Taking ==
  wire \in Seq(Byte) /\ wire # <<>> /\ wire' = Tail(wire) /\ Parse(Head(wire))

\* A byte as it was sent: the parser goes on in the packet at the head of the
\* line, or has it whole and puts its data into the queue of its function.
LEMMA ParseLine ==
  ASSUME ParserType, ParserInFrame, NEW f \in Functions, NEW data \in Genuine[f],
         NEW rest \in Seq(Byte), AtHead(f, data, rest), Taking
  PROVE  \/ Line' = Line /\ UNCHANGED queues
         \/ Line' = rest /\ Put(f, data)
<1> DEFINE p == Packets[f][data]
           n == Len(data)
           dat == Head(wire)
<1>1. /\ p \in Seq(Byte) /\ data \in Seq(Byte) /\ n \in {1, 2}
      /\ f \in Byte /\ f < FuncNone
      /\ Len(p) = 5 + n
      /\ p[1] = 170 /\ p[2] = 85 /\ p[3] = f /\ p[4] = n
      /\ \A i \in 1..n : p[4 + i] = data[i]
      /\ p[5 + n] = Checksum(<<f, n>> \o data)
  BY PacketShape
<1>0. Byte \subseteq Nat
  BY DEF Byte
<1>2. Line = p \o rest /\ wire \in Seq(Byte) /\ wire # <<>> /\ wire' = Tail(wire)
  BY DEF AtHead, Taking
<1>7. Len(data) = n
  OBVIOUS
<1> HIDE DEF p, n
<1>3. dat \in Byte /\ dat = wire[1] /\ Tail(wire) \in Seq(Byte) /\ Len(wire) # 0
  BY <1>2, EmptySeq, HeadTailProperties
<1> DEFINE l == p \o rest
<1>4. /\ l \in Seq(Byte) /\ Len(l) = 5 + n + Len(rest)
      /\ \A i \in 1..(5 + n) : l[i] = p[i]
      /\ l[1] = 170 /\ l[2] = 85 /\ l[3] = f /\ l[4] = n
      /\ \A i \in 1..Len(rest) : l[5 + n + i] = rest[i]
  <2>1. /\ l \in Seq(Byte) /\ Len(l) = 5 + n + Len(rest)
        /\ \A i \in 1..(5 + n) : l[i] = p[i]
        /\ \A i \in 1..Len(rest) : l[5 + n + i] = rest[i]
    <3>1. /\ l \in Seq(Byte) /\ Len(l) = (5 + n) + Len(rest)
          /\ \A i \in 1..((5 + n) + Len(rest)) :
               l[i] = IF i <= 5 + n THEN p[i] ELSE rest[i - (5 + n)]
      BY <1>1, ConcatProperties
    <3>2. Len(rest) \in Nat /\ 5 + n \in Nat
      BY <1>1
    <3> HIDE DEF l
    <3> QED BY <3>1, <3>2
  <2>2. \A i \in 1..4 : l[i] = p[i]
    BY <1>1, <2>1
  <2> QED BY <1>1, <2>1, <2>2
<1>5. Line = l
  BY <1>2
<1> HIDE DEF l, dat
\* What is in front of the next byte.
<1>6. ASSUME NEW c \in Seq(Byte), Consumed = c
      PROVE  /\ l = c \o wire
             /\ Len(l) = Len(c) + Len(wire)
             /\ \A i \in 1..Len(c) : l[i] = c[i]
             /\ l[Len(c) + 1] = dat
             /\ Consumed' = c \o <<dat>> => Line' = Line
  <2>1. l = c \o wire
    BY <1>5, <1>6 DEF Line
  <2>2. ASSUME Consumed' = c \o <<dat>> PROVE Line' = Line
    <3>1. Line' = (c \o <<dat>>) \o Tail(wire)
      BY <1>2, <2>2 DEF Line
    <3>2. (c \o <<dat>>) \o Tail(wire) = c \o wire
      BY <1>2, ByteMoves DEF dat
    <3> QED BY <2>1, <3>1, <3>2, <1>5
  <2> QED BY <1>2, <1>3, <1>6, <2>1, <2>2
<1>11. CASE StartByte1(dat)
  <2>1. Consumed = <<>> /\ <<>> \in Seq(Byte) /\ Len(<<>>) = 0
    BY <1>11 DEF StartByte1, Consumed
  <2>2. dat = 170
    <3>1. l[0 + 1] = dat
      BY <1>6, <2>1
    <3> QED BY <1>4, <3>1
  <2>3. state' = "startbyte2" /\ UNCHANGED queues
    BY <1>11, <2>2 DEF StartByte1
  <2>4. Consumed' = <<>> \o <<dat>>
    BY <2>2, <2>3, ConcatEmptySeq DEF Consumed, Byte
  <2> QED BY <1>6, <2>1, <2>3, <2>4
<1>12. CASE StartByte2(dat)
  <2>1. Consumed = <<170>> /\ <<170>> \in Seq(Byte) /\ Len(<<170>>) = 1
    BY <1>12 DEF StartByte2, Consumed, Byte
  <2>2. dat = 85
    <3>1. l[1 + 1] = dat
      BY <1>6, <2>1
    <3> QED BY <1>4, <3>1
  <2>3. state' = "function" /\ UNCHANGED queues
    BY <1>12, <2>2 DEF StartByte2
  <2>4. Consumed' = <<170>> \o <<dat>>
    BY <2>2, <2>3 DEF Consumed
  <2> QED BY <1>6, <2>1, <2>3, <2>4
<1>13. CASE Function(dat)
  <2>1. /\ Consumed = <<170, 85>> /\ <<170, 85>> \in Seq(Byte)
        /\ Len(<<170, 85>>) = 2
    BY <1>13 DEF Function, Consumed, Byte
  <2>2. dat = f
    <3>1. l[2 + 1] = dat
      BY <1>6, <2>1
    <3> QED BY <1>4, <3>1
  <2>3. state' = "length" /\ frame' = <<dat, 0>> /\ UNCHANGED queues
    BY <1>13, <2>2, <1>1 DEF Function
  <2>4. Consumed' = <<170, 85>> \o <<dat>>
    BY <2>3 DEF Consumed
  <2> QED BY <1>6, <2>1, <2>3, <2>4
<1>14. CASE Length(dat)
  <2>1. Len(frame) = 2 /\ frame \in Seq(Byte) /\ frame[1] \in Byte
    <3>1. state = "length" /\ frame \in Seq(Byte)
      BY <1>14 DEF Length, ParserType
    <3>2. Len(frame) = 2
      BY <3>1 DEF ParserInFrame
    <3> QED BY <3>1, <3>2
  <2> DEFINE c == <<170, 85, frame[1]>>
  <2>2. Consumed = c /\ c \in Seq(Byte) /\ Len(c) = 3
    BY <1>14, <2>1 DEF Length, Consumed, Byte
  <2> HIDE DEF c
  <2>3. dat = n
    <3>1. l[3 + 1] = dat
      BY <1>6, <2>2
    <3> QED BY <1>4, <3>1
  <2>4. state' = "data" /\ frame' = [frame EXCEPT ![2] = dat] /\ UNCHANGED queues
    <3>1. dat # 0
      BY <1>1, <2>3
    <3> QED BY <1>14, <3>1 DEF Length
  <2>5. Consumed' = <<170, 85>> \o frame'
    BY <2>4 DEF Consumed
  <2>6. Consumed' = c \o <<dat>>
    BY <1>3, <2>1, <2>4, <2>5, LengthWritten DEF c
  <2> QED BY <1>6, <2>2, <2>4, <2>6
<1>15. ASSUME state \in {"data", "checksum"}
       PROVE  /\ Consumed = <<170, 85>> \o frame /\ frame \in Seq(Byte)
              /\ Consumed \in Seq(Byte)
              /\ Len(frame) = 2 + recvCount /\ recvCount \in 0..n
              /\ Len(Consumed) = 4 + recvCount
              /\ frame[1] = f /\ frame[2] = n
              /\ \A i \in 1..recvCount : frame[2 + i] = data[i]
  <2>1. /\ frame \in Seq(Byte) /\ Len(frame) = 2 + recvCount
        /\ recvCount \in Nat /\ recvCount <= frame[2]
    <3>1. frame \in Seq(Byte) /\ recvCount \in Byte /\ recvCount \in Nat
      <4>1. frame \in Seq(Byte) /\ recvCount \in Byte
        BY DEF ParserType
      <4> QED BY <1>0, <4>1
    <3>2. CASE state = "data"
      <4>1. Len(frame) = 2 + recvCount /\ recvCount < frame[2]
        BY <3>2 DEF ParserInFrame
      <4>2. frame[2] \in Int
        <5>1. 2 \in 1..Len(frame)
          BY <3>1, <4>1
        <5>2. frame[2] \in Byte
          BY <3>1, <5>1
        <5>3. frame[2] \in Nat
          BY <1>0, <5>2, Zenon
        <5> QED BY <5>3
      <4> QED BY <3>1, <4>1, <4>2
    <3>3. CASE state = "checksum"
      <4>1. Len(frame) = 2 + recvCount /\ recvCount = frame[2]
        BY <3>3 DEF ParserInFrame
      <4> QED BY <3>1, <4>1
    <3> QED BY <1>15, <3>1, <3>2, <3>3
  <2> DEFINE c == <<170, 85>> \o frame
  <2>2. Consumed = c
    BY <1>15 DEF Consumed
  <2>3. c \in Seq(Byte) /\ Len(c) = 4 + recvCount
        /\ \A i \in 1..Len(frame) : c[2 + i] = frame[i]
    <3>1. <<170, 85>> \in Seq(Byte) /\ Len(<<170, 85>>) = 2
      BY DEF Byte
    <3> QED BY <2>1, <3>1
  <2> HIDE DEF c
  <2>4. \A i \in 1..Len(frame) : l[2 + i] = frame[i]
    <3> TAKE i \in 1..Len(frame)
    <3>1. 2 + i \in 1..Len(c)
      BY <2>1, <2>3
    <3> QED BY <1>6, <2>2, <2>3, <3>1
  <2>5. frame[1] = f /\ frame[2] = n
    <3>1. frame[1] = l[3] /\ frame[2] = l[4]
      BY <2>1, <2>4
    <3> QED BY <1>1, <1>4, <3>1
  <2>6. recvCount \in 0..n
    BY <1>1, <2>1, <2>5
  <2>7. \A i \in 1..recvCount : frame[2 + i] = data[i]
    <3> TAKE i \in 1..recvCount
    <3>1. frame[2 + i] = l[4 + i]
      <4>1. 2 + i \in 1..Len(frame)
        BY <2>1
      <4>2. l[2 + (2 + i)] = frame[2 + i]
        BY <2>4, <4>1
      <4> QED BY <4>2
    <3>2. i \in 1..n /\ 4 + i \in 1..(5 + n)
      BY <1>1, <2>1, <2>6
    <3> QED BY <1>1, <1>4, <3>1, <3>2
  <2> QED BY <2>1, <2>2, <2>3, <2>5, <2>6, <2>7 DEF c
<1>16. CASE Data(dat)
  <2>1. state = "data" /\ frame' = Append(frame, dat) /\ UNCHANGED queues
        /\ state' \in {"data", "checksum"}
    BY <1>16 DEF Data
  <2>2. Consumed' = <<170, 85>> \o Append(frame, dat)
    BY <2>1 DEF Consumed
  <2>3. Consumed' = Consumed \o <<dat>>
    <3>1. /\ Append(frame, dat) = frame \o <<dat>>
          /\ <<170, 85>> \in Seq(Byte) /\ <<dat>> \in Seq(Byte)
          /\ frame \in Seq(Byte)
      BY <1>3, <1>15, <2>1, AppendIsConcat DEF Byte
    <3>2. (<<170, 85>> \o frame) \o <<dat>> = <<170, 85>> \o (frame \o <<dat>>)
      BY <3>1, ConcatAssociative
    <3>3. Consumed = <<170, 85>> \o frame
      BY <1>15, <2>1
    <3> QED BY <2>2, <3>1, <3>2, <3>3
  <2> QED BY <1>6, <1>15, <2>1, <2>3
<1>17. CASE Check(dat)
  <2>1. state = "checksum" /\ state' = "startbyte1"
        /\ IF Checksum(frame) = dat
           THEN Put(frame[1], SubSeq(frame, 3, Len(frame)))
           ELSE UNCHANGED queues
    BY <1>17 DEF Check
  <2>2. recvCount = n /\ Len(Consumed) = 4 + n /\ Len(frame) = 2 + n
    BY <1>15, <2>1 DEF ParserInFrame
  <2>3. frame = <<f, n>> \o data
    <3> DEFINE g == <<f, n>> \o data
    <3>1. /\ g \in Seq(Byte) /\ Len(g) = 2 + n /\ g[1] = f /\ g[2] = n
          /\ \A i \in 1..n : g[2 + i] = data[i]
      <4>1. <<f, n>> \in Seq(Byte) /\ Len(<<f, n>>) = 2
        BY <1>1 DEF Byte
      <4> QED BY <1>1, <1>7, <4>1
    <3> HIDE DEF g
    <3>2. ASSUME NEW i \in 1..Len(frame) PROVE frame[i] = g[i]
      <4>1. CASE i = 1 \/ i = 2
        BY <1>15, <2>1, <3>1, <4>1
      <4>2. CASE i > 2
        <5>1. i - 2 \in 1..n /\ 2 + (i - 2) = i
          BY <1>1, <2>2, <4>2
        <5>2. frame[2 + (i - 2)] = data[i - 2] /\ g[2 + (i - 2)] = data[i - 2]
          BY <1>15, <2>1, <2>2, <3>1, <5>1
        <5> QED BY <5>1, <5>2
      <4> QED BY <1>1, <2>2, <4>1, <4>2
    <3>3. frame = g
      BY <1>15, <2>1, <2>2, <3>1, <3>2, SeqEqual
    <3> QED BY <3>3 DEF g
  <2>4. dat = Checksum(frame)
    <3>1. dat = l[5 + n]
      BY <1>1, <1>6, <1>15, <2>1, <2>2
    <3> QED BY <1>1, <1>4, <2>3, <3>1
  <2>5. SubSeq(frame, 3, Len(frame)) = data
    <3> DEFINE g == SubSeq(frame, 3, Len(frame))
    <3>1. g \in Seq(Byte) /\ Len(g) = n /\ \A i \in 1..n : g[i] = frame[2 + i]
      BY <1>1, <1>15, <2>1, <2>2
    <3> HIDE DEF g
    <3>2. \A i \in 1..n : g[i] = data[i]
      BY <1>15, <2>1, <2>2, <3>1
    <3>3. g = data
      BY <1>1, <1>7, <3>1, <3>2, SeqEqual
    <3> QED BY <3>3 DEF g
  <2>6. Put(f, data)
    BY <1>15, <2>1, <2>4, <2>5
  <2>7. Line' = rest
    <3>1. Line' = Tail(wire)
      <4>1. Consumed' = <<>>
        BY <2>1 DEF Consumed
      <4> QED BY <4>1, <1>2, <1>3, ConcatEmptySeq DEF Line
    <3>2. Len(wire) = 1 + Len(rest) /\ l = Consumed \o wire
      BY <1>1, <1>4, <1>6, <1>15, <2>1, <2>2
    <3>3. Len(Tail(wire)) = Len(rest)
      BY <1>3, <3>2
    <3>4. ASSUME NEW i \in 1..Len(rest) PROVE Tail(wire)[i] = rest[i]
      <4>1. Tail(wire)[i] = wire[1 + i] /\ 1 + i \in 1..Len(wire)
        BY <1>3, <3>2, <3>4
      <4>2. l[4 + n + (1 + i)] = wire[1 + i]
        <5> DEFINE c == Consumed
        <5>1. c \in Seq(Byte) /\ Len(c) = 4 + n /\ l = c \o wire
          BY <1>15, <2>1, <2>2, <3>2
        <5> HIDE DEF c
        <5> QED BY <1>1, <1>7, <4>1, <5>1
      <4>3. 4 + n + (1 + i) = 5 + n + i
        BY <1>1
      <4> QED BY <1>4, <4>1, <4>2, <4>3
    <3>5. Tail(wire) = rest
      BY <1>3, <3>3, <3>4, SeqEqual
    <3> QED BY <3>1, <3>5
  <2> QED BY <2>6, <2>7
<1> QED BY <1>11, <1>12, <1>13, <1>14, <1>16, <1>17 DEF Taking, Parse, dat

\* The four stages of a read, as the line and the queues of the servos show
\* them: nothing is asked, a request is with the board, its answer is on the
\* line between the reports, or in the queue.
Servos == {PwmServo, BusServo}
NoAnswer == \A f \in Servos : queues[f] = {}
Quiet == exec # "waiting" /\ asked = {} /\ Line \in Chatter /\ NoAnswer
Asked == exec = "waiting" /\ asked = {reading} /\ Line \in Chatter /\ NoAnswer
Answering ==
  /\ exec = "waiting" /\ asked = {} /\ NoAnswer
  /\ \E v \in Chatter, w \in Chatter, result \in Results :
       Line = v \o (Packets[reading[1]][Answer(reading, result)] \o w)
Taken ==
  /\ exec = "waiting" /\ asked = {} /\ Line \in Chatter
  /\ \E result \in Results : queues[reading[1]] = {Answer(reading, result)}
  /\ \A f \in Servos \ {reading[1]} : queues[f] = {}

Reported == \A f \in Reports : queues[f] \subseteq Genuine[f]
Waits == exec = "waiting" => reading \in Requests

LEMMA ConsumedType ==
  ASSUME ParserType, ParserInFrame PROVE Consumed \in Seq(Byte)
<1>1. 170 \in Byte /\ 85 \in Byte
  BY DEF Byte
<1>2. CASE state \in {"startbyte1", "startbyte2", "function"}
  BY <1>1, <1>2 DEF Consumed
<1>3. CASE state = "length"
  <2>1. frame[1] \in Byte
    <3>1. frame \in Seq(Byte) /\ Len(frame) = 2
      BY <1>3 DEF ParserType, ParserInFrame
    <3>2. 1 \in 1..Len(frame)
      BY <3>1
    <3> QED BY <3>1, <3>2, ElementOfSeq
  <2>2. Consumed = <<170, 85, frame[1]>>
    BY <1>3 DEF Consumed
  <2> QED BY <1>1, <2>1, <2>2
<1>4. CASE state \in {"data", "checksum"}
  <2>1. Consumed = <<170, 85>> \o frame
    BY <1>4 DEF Consumed
  <2>2. <<170, 85>> \in Seq(Byte) /\ frame \in Seq(Byte)
    BY <1>1 DEF ParserType
  <2> QED BY <2>1, <2>2, ConcatProperties
<1> QED BY <1>2, <1>3, <1>4 DEF ParserType

LEMMA ChatterType == Chatter \subseteq Seq(Byte)
BY DEF Chatter

LEMMA ReportIsChatter ==
  ASSUME NEW f \in Reports, NEW data \in Genuine[f], NEW l \in Chatter
  PROVE  l \o Packets[f][data] \in Chatter
<1>1. Packets[f][data] \in Seq(Byte)
  BY PacketType DEF Functions
<1>2. Packets[f][data] \in ReportPackets
  BY <1>1 DEF ReportPackets
<1> QED BY <1>2, ChatterIsExtended DEF Extended

LEMMA ServosReportNothing ==
  Servos \cap Reports = {} /\ Functions = Reports \cup Servos
  /\ \A r \in Requests : r[1] \in Servos
BY LinkAssumption
   DEF Servos, Functions, PwmServo, BusServo, Sys, Key, Imu, Gamepad, Sbus

\* What one read after the other keeps to.
LineInv == Reported /\ Waits /\ (Quiet \/ Asked \/ Answering \/ Taken)

LEMMA LineStays ==
  ASSUME LineInv, UNCHANGED <<wire, parserVars, asked, queues, exec, reading>>
  PROVE  LineInv'
<1>1. Line' = Line
  BY DEF Line, Consumed, parserVars
<1> QED BY <1>1
        DEF LineInv, Reported, Waits, Quiet, Asked, Answering, Taken, NoAnswer

LEMMA QuietStays ==
  ASSUME LineInv, exec # "waiting", exec' # "waiting",
         UNCHANGED <<wire, parserVars, asked, queues>>
  PROVE  LineInv'
<1>1. Line' = Line
  BY DEF Line, Consumed, parserVars
<1> QED BY <1>1
        DEF LineInv, Reported, Waits, Quiet, Asked, Answering, Taken, NoAnswer

\* What the board sends goes to the end of the line.
LEMMA LineSent ==
  ASSUME ParserType, ParserInFrame, wire \in Seq(Byte), NEW p \in Seq(Byte),
         Send(p), UNCHANGED parserVars
  PROVE  Line' = Line \o p /\ Line \in Seq(Byte)
<1>1. Consumed' = Consumed
  BY DEF Consumed, parserVars
<1>2. wire' = wire \o p
  BY DEF Send
<1>3. Consumed \in Seq(Byte)
  BY ConsumedType
<1>4. Consumed \o (wire \o p) = (Consumed \o wire) \o p
  BY <1>3, ConcatAssociative
<1>5. Consumed \o wire \in Seq(Byte)
  BY <1>3, ConcatProperties
<1> QED BY <1>1, <1>2, <1>4, <1>5 DEF Line

LEMMA PutOfReport ==
  ASSUME ParserType, NEW f \in Reports, NEW data \in Genuine[f], Put(f, data)
  PROVE  /\ \A g \in Servos : queues'[g] = queues[g]
         /\ Reported => Reported'
<1>1. f \in Functions /\ f \notin Servos
  BY ServosReportNothing
<1>2. queues' = queues \/ queues' = [queues EXCEPT ![f] = {data}]
  BY DEF Put
<1>3. DOMAIN queues = Functions
  BY DEF ParserType
<1>4. \A g \in Servos : queues'[g] = queues[g]
  <2> TAKE g \in Servos
  <2>1. g \in Functions /\ g # f
    BY <1>1, ServosReportNothing
  <2> QED BY <1>2, <1>3, <2>1
<1>5. ASSUME Reported PROVE Reported'
  <2>1. ASSUME NEW g \in Reports PROVE queues'[g] \subseteq Genuine[g]
    <3>1. queues[g] \subseteq Genuine[g] /\ g \in Functions
      BY <1>5, ServosReportNothing DEF Reported
    <3> QED BY <1>2, <1>3, <3>1
  <2> QED BY <2>1 DEF Reported
<1> QED BY <1>4, <1>5

\* The parser takes a byte of a line that begins with reports.
LEMMA ChatterTaken ==
  ASSUME ParserType, ParserInFrame, Reported, Taking,
         NEW f \in Reports, NEW data \in Genuine[f], NEW rest \in Seq(Byte),
         AtHead(f, data, rest)
  PROVE  /\ Line' = Line \/ Line' = rest
         /\ \A g \in Servos : queues'[g] = queues[g]
         /\ Reported'
<1>1. f \in Functions
  BY ServosReportNothing
<1>2. \/ Line' = Line /\ UNCHANGED queues
      \/ Line' = rest /\ Put(f, data)
  BY <1>1, ParseLine
<1>3. CASE Line' = Line /\ UNCHANGED queues
  BY <1>3 DEF Reported
<1>4. CASE Line' = rest /\ Put(f, data)
  BY <1>4, PutOfReport
<1> QED BY <1>2, <1>3, <1>4

LEMMA ByteTaken ==
  ASSUME ParserType, ParserInFrame, LineInv, Taking,
         UNCHANGED <<asked, exec, reading>>
  PROVE  LineInv'
<1>1. Waits' /\ Reported
  BY DEF LineInv, Waits
<1>2. ASSUME Line \in Chatter
      PROVE  /\ Line' \in Chatter /\ Reported'
             /\ \A g \in Servos : queues'[g] = queues[g]
  <2>1. Line # <<>>
    <3>1. Len(wire) # 0 /\ wire \in Seq(Byte) /\ Consumed \in Seq(Byte)
      BY ConsumedType, EmptySeq DEF Taking
    <3>2. Len(Line) = Len(Consumed) + Len(wire) /\ Len(Consumed) \in Nat
          /\ Len(wire) \in Nat
      BY <3>1, ConcatProperties DEF Line
    <3> QED BY <3>1, <3>2, EmptySeq
  <2>2. PICK p \in ReportPackets, rest \in Chatter : Line = p \o rest
    BY <1>2, <2>1, ChatterStarts
  <2>3. PICK f \in Reports : \E data \in Genuine[f] : p = Packets[f][data]
    BY <2>2 DEF ReportPackets
  <2>4. PICK data \in Genuine[f] : p = Packets[f][data]
    BY <2>3
  <2>5. AtHead(f, data, rest) /\ rest \in Seq(Byte)
    BY <2>2, <2>4, ChatterType DEF AtHead
  <2>6. /\ Line' = Line \/ Line' = rest
        /\ \A g \in Servos : queues'[g] = queues[g]
        /\ Reported'
    BY <1>1, <2>5, ChatterTaken
  <2> QED BY <1>2, <2>2, <2>6
<1>3. CASE Quiet
  BY <1>1, <1>2, <1>3 DEF LineInv, Quiet, NoAnswer
<1>4. CASE Asked
  BY <1>1, <1>2, <1>4 DEF LineInv, Asked, NoAnswer
<1>5. CASE Taken
  <2>1. Line \in Chatter /\ reading[1] \in Servos
    BY <1>5, ServosReportNothing DEF Taken, LineInv, Waits
  <2>2. \A g \in Servos : queues'[g] = queues[g]
    BY <1>2, <2>1
  <2>3. queues'[reading[1]] = queues[reading[1]]
    BY <2>1, <2>2
  <2>4. Taken'
    BY <1>2, <1>5, <2>1, <2>2, <2>3 DEF Taken
  <2> QED BY <1>1, <1>2, <2>1, <2>4 DEF LineInv
<1>6. CASE Answering
  <2>1. reading \in Requests /\ reading[1] \in Servos /\ reading[1] \in Functions
    BY <1>6, ServosReportNothing DEF Answering, LineInv, Waits
  <2>2. PICK v \in Chatter, w \in Chatter, result \in Results :
          Line = v \o (Packets[reading[1]][Answer(reading, result)] \o w)
    BY <1>6 DEF Answering
  <2> DEFINE answer == Answer(reading, result)
             p == Packets[reading[1]][answer]
             r == p \o w
  <2>3. /\ answer \in Genuine[reading[1]] /\ p \in Seq(Byte)
        /\ v \in Seq(Byte) /\ w \in Seq(Byte)
    BY <2>1, AnswerIsGenuine, PacketType, ChatterType
  <2>4. r \in Seq(Byte)
    BY <2>3, ConcatProperties
  <2>5. Line = v \o r
    BY <2>2
  <2>6. CASE v = <<>>
    <3>1. AtHead(reading[1], answer, w)
      BY <2>4, <2>5, <2>6, ConcatEmptySeq DEF AtHead
    <3> HIDE DEF answer, p, r
    <3>2. \/ Line' = Line /\ UNCHANGED queues
          \/ Line' = w /\ Put(reading[1], answer)
      BY <2>1, <2>3, <3>1, ParseLine
    <3>3. CASE Line' = Line /\ UNCHANGED queues
      <4>1. Answering'
        BY <1>6, <3>3 DEF Answering, NoAnswer
      <4>2. Reported'
        BY <1>1, <3>3 DEF Reported
      <4> QED BY <1>1, <4>1, <4>2 DEF LineInv
    <3>4. CASE Line' = w /\ Put(reading[1], answer)
      <4>1. queues' = [queues EXCEPT ![reading[1]] = {answer}]
        BY <1>6, <2>1, <3>4 DEF Put, Answering, NoAnswer
      <4>2. DOMAIN queues = Functions
        BY DEF ParserType
      <4>3. queues'[reading[1]] = {answer}
        BY <2>1, <4>1, <4>2
      <4>4. \A g \in Functions \ {reading[1]} : queues'[g] = queues[g]
        BY <4>1, <4>2
      <4>5. \A g \in Servos \ {reading[1]} : queues'[g] = {}
        BY <1>6, <4>4, ServosReportNothing DEF Answering, NoAnswer
      <4>6. Reported'
        BY <1>1, <2>1, <4>4, ServosReportNothing DEF Reported
      <4>7. queues'[reading'[1]] = {Answer(reading', result)}
        BY <4>3 DEF answer
      <4>8. Taken'
        BY <1>6, <3>4, <4>5, <4>7 DEF Taken, Answering
      <4> QED BY <1>1, <4>6, <4>8 DEF LineInv
    <3> QED BY <3>2, <3>3, <3>4
  <2>7. CASE v # <<>>
    <3>1. PICK q \in ReportPackets, rest \in Chatter : v = q \o rest
      BY <2>7, ChatterStarts
    <3>2. PICK f \in Reports : \E data \in Genuine[f] : q = Packets[f][data]
      BY <3>1 DEF ReportPackets
    <3>3. PICK data \in Genuine[f] : q = Packets[f][data]
      BY <3>2
    <3>4. q \in Seq(Byte) /\ rest \in Seq(Byte) /\ rest \o r \in Seq(Byte)
      BY <2>4, <3>1, ChatterType, ConcatProperties DEF ReportPackets
    <3> HIDE DEF r
    <3>5. Line = q \o (rest \o r)
      BY <2>4, <2>5, <3>1, <3>4, ConcatAssociative
    <3>6. AtHead(f, data, rest \o r)
      BY <3>3, <3>5 DEF AtHead
    <3>7. /\ Line' = Line \/ Line' = rest \o r
          /\ \A g \in Servos : queues'[g] = queues[g]
          /\ Reported'
      BY <1>1, <3>4, <3>6, ChatterTaken
    <3>8. \E u \in Chatter : Line' = u \o r
      BY <2>5, <3>1, <3>7
    <3>9. Answering'
      BY <1>6, <3>7, <3>8 DEF Answering, NoAnswer, r
    <3> QED BY <1>1, <3>7, <3>9 DEF LineInv
  <2> QED BY <2>6, <2>7
<1> QED BY <1>3, <1>4, <1>5, <1>6 DEF LineInv

LEMMA LineStep ==
  ASSUME TypeOK, ParserInFrame, LineInv, [Next]_vars, faults' = 0
  PROVE  LineInv'
<1>0. ParserType /\ wire \in Seq(Byte) /\ faults \in Nat
  BY DEF TypeOK, ParserType
<1>1. ASSUME NEW f \in Reports, NEW s \in Stances[f], StanceTaken(f, s) PROVE LineInv'
  BY <1>1, LineStays DEF StanceTaken, execVars
<1>2. ASSUME NEW f \in Reports, Report(f) PROVE LineInv'
  <2> DEFINE p == Packets[f][<<stance[f]>>]
  <2>1. f \in Functions /\ <<stance[f]>> \in Genuine[f]
    BY DEF Functions, Genuine, Inputs, TypeOK
  <2>2. p \in Seq(Byte)
    BY <2>1, PacketType
  <2>3. /\ Line' = Line \o p /\ Line \in Seq(Byte)
        /\ UNCHANGED <<asked, queues, exec, reading>>
    <3>1. Send(p) /\ UNCHANGED parserVars
      BY <1>2 DEF Report
    <3>2. UNCHANGED <<asked, queues, exec, reading>>
      BY <1>2 DEF Report, boardVars, execVars
    <3> QED BY <1>0, <2>2, <3>1, <3>2, LineSent
  <2>4. \A l \in Chatter : l \o p \in Chatter
    BY <2>1, ReportIsChatter
  <2> HIDE DEF p
  <2>5. Reported' /\ Waits'
    BY <2>3 DEF LineInv, Reported, Waits
  <2>6. CASE Quiet \/ Asked \/ Taken
    BY <2>3, <2>4, <2>5, <2>6 DEF LineInv, Quiet, Asked, Taken, NoAnswer
  <2>7. CASE Answering
    <3>1. reading \in Requests
      BY <2>7 DEF Answering, LineInv, Waits
    <3>2. PICK v \in Chatter, w \in Chatter, result \in Results :
            Line = v \o (Packets[reading[1]][Answer(reading, result)] \o w)
      BY <2>7 DEF Answering
    <3> DEFINE q == Packets[reading[1]][Answer(reading, result)]
    <3>3. q \in Seq(Byte) /\ v \in Seq(Byte) /\ w \in Seq(Byte)
      BY <3>1, AnswerIsGenuine, PacketType, ChatterType
    <3>4. Line' = v \o (q \o (w \o p))
      <4> HIDE DEF q
      <4>1. Line = v \o (q \o w) /\ q \o w \in Seq(Byte)
        BY <3>2, <3>3, ConcatProperties DEF q
      <4>2. (v \o (q \o w)) \o p = v \o ((q \o w) \o p)
        BY <2>2, <3>3, <4>1, ConcatAssociative
      <4>3. (q \o w) \o p = q \o (w \o p)
        BY <2>2, <3>3, ConcatAssociative
      <4> QED BY <2>3, <4>1, <4>2, <4>3
    <3>5. w \o p \in Chatter
      BY <2>4
    <3>6. Answering'
      <4>1. Line' = v \o (Packets[reading'[1]][Answer(reading', result)]
                            \o (w \o p))
        BY <2>3, <3>4
      <4> QED BY <2>3, <2>7, <3>5, <4>1 DEF Answering, NoAnswer
    <3> QED BY <2>5, <3>6 DEF LineInv
  <2> QED BY <2>6, <2>7 DEF LineInv
<1>3. ASSUME NEW r \in Requests, NEW v \in Results, Reply(r, v) PROVE LineInv'
  <2> DEFINE p == Packets[r[1]][Answer(r, v)]
  <2>1. p \in Seq(Byte)
    BY AnswerIsGenuine, PacketType
  <2>2. /\ Line' = Line \o p /\ Line \in Seq(Byte)
        /\ UNCHANGED <<queues, exec, reading>>
    <3>1. Send(p) /\ UNCHANGED parserVars
      BY <1>3 DEF Reply
    <3>2. UNCHANGED <<queues, exec, reading>>
      BY <1>3 DEF Reply, execVars
    <3> QED BY <1>0, <2>1, <3>1, <3>2, LineSent
  <2>3. r \in asked /\ asked' = asked \ {r}
    BY <1>3 DEF Reply
  <2>4. Asked /\ r = reading
    BY <2>3 DEF LineInv, Quiet, Asked, Answering, Taken
  <2>5. Line' = Line \o (p \o <<>>) /\ <<>> \in Chatter
    BY <2>1, <2>2, ConcatEmptySeq, ChatterIsExtended DEF Extended
  <2>6. Answering'
    <3>1. Line' = Line \o (Packets[reading'[1]][Answer(reading', v)] \o <<>>)
      BY <2>2, <2>4, <2>5
    <3>2. exec' = "waiting" /\ asked' = {} /\ NoAnswer' /\ Line \in Chatter
      BY <2>2, <2>3, <2>4 DEF Asked, NoAnswer
    <3> QED BY <2>5, <3>1, <3>2 DEF Answering
  <2>7. Reported' /\ Waits'
    BY <2>2 DEF LineInv, Reported, Waits
  <2> QED BY <2>6, <2>7 DEF LineInv
<1>4. CASE Recv
  <2>1. Received
    BY <1>0, <1>4 DEF Recv, ByteAltered, ByteLost
  <2>2. Taking /\ UNCHANGED <<asked, exec, reading>>
    BY <1>0, <2>1 DEF Received, NextByte, Taking, boardVars, execVars
  <2> QED BY <1>0, <2>2, ByteTaken
<1>5. ASSUME NEW f \in Reports, PubData(f) \/ PubRaised(f) PROVE LineInv'
  <2>1. queues' = [queues EXCEPT ![f] = {}]
        /\ UNCHANGED <<wire, parserVars, asked, exec, reading>>
    BY <1>5 DEF PubData, PubRaised, Get, boardVars, execVars
  <2>2. Line' = Line
    BY <2>1 DEF Line, Consumed, parserVars
  <2>3. DOMAIN queues = Functions
    BY <1>0 DEF ParserType
  <2>4. Reported' /\ Waits'
    <3>1. \A g \in Reports : queues'[g] \subseteq queues[g]
      BY <2>1, <2>3, ServosReportNothing
    <3> QED BY <2>1, <3>1 DEF LineInv, Reported, Waits
  <2>5. \A g \in Servos : queues'[g] = queues[g]
    <3> TAKE g \in Servos
    <3>1. g \in Functions /\ g # f
      BY ServosReportNothing
    <3> QED BY <2>1, <2>3, <3>1
  <2>6. CASE Quiet \/ Asked \/ Answering
    BY <2>1, <2>2, <2>4, <2>5, <2>6 DEF LineInv, Quiet, Asked, Answering, NoAnswer
  <2>7. CASE Taken
    <3>1. reading[1] \in Servos
      BY <2>7, ServosReportNothing DEF LineInv, Waits, Taken
    <3>2. queues'[reading[1]] = queues[reading[1]]
      BY <2>5, <3>1
    <3>3. Taken'
      BY <2>1, <2>2, <2>5, <2>7, <3>2 DEF Taken
    <3> QED BY <2>4, <3>3 DEF LineInv
  <2> QED BY <2>6, <2>7 DEF LineInv
<1>6. ASSUME Ends PROVE LineInv'
  <2>1. /\ exec' = "down" /\ asked' = {} /\ wire' = <<>> /\ state' = "startbyte1"
        /\ queues' = [f \in Functions |-> {}]
    BY <1>6 DEF Ends
  <2>2. Line' = <<>>
    <3>1. Consumed' = <<>>
      BY <2>1 DEF Consumed
    <3>2. <<>> \in Seq(Byte)
      OBVIOUS
    <3> QED BY <2>1, <3>1, <3>2, ConcatEmptySeq DEF Line
  <2>3. Quiet'
    <3>1. Line' \in Chatter
      BY <2>2, ChatterIsExtended DEF Extended
    <3>2. NoAnswer'
      BY <2>1, ServosReportNothing DEF NoAnswer
    <3> QED BY <2>1, <3>1, <3>2 DEF Quiet
  <2>4. Reported' /\ Waits'
    BY <2>1, ServosReportNothing DEF Reported, Waits
  <2> QED BY <2>3, <2>4 DEF LineInv
<1>7. CASE \/ MotorHeard \/ (\E s \in BOOLEAN : MotorWritten(s)) \/ CommandWritten
           \/ CallDone \/ \E n \in 0..MaxPackets : Commanded(n) \/ StateAsked(n)
  BY <1>7, QuietStays
     DEF MotorHeard, MotorWritten, CommandWritten, CallDone, Commanded,
         StateAsked, othersOfExec
<1>8. ASSUME NEW r \in Requests, ReadBegun(r) PROVE LineInv'
  <2>1. /\ exec = "read" /\ exec' = "waiting" /\ reading' = r
        /\ asked' = asked \cup {r} /\ UNCHANGED <<wire, parserVars, queues>>
    BY <1>8 DEF ReadBegun, othersOfExec
  <2>2. Line' = Line
    BY <2>1 DEF Line, Consumed, parserVars
  <2>3. Quiet
    BY <2>1 DEF LineInv, Asked, Answering, Taken
  <2>4. Asked'
    BY <2>1, <2>2, <2>3 DEF Quiet, Asked, NoAnswer
  <2> QED BY <2>1, <2>4 DEF LineInv, Reported, Waits
<1>9. CASE AnswerRead
  <2>1. /\ exec = "waiting" /\ exec' = "read" /\ queues[reading[1]] # {}
        /\ queues' = [queues EXCEPT ![reading[1]] = {}]
        /\ UNCHANGED <<wire, parserVars, asked>>
    BY <1>9 DEF AnswerRead, othersOfExec
  <2>2. reading[1] \in Servos /\ DOMAIN queues = Functions
    BY <1>0, <2>1, ServosReportNothing DEF LineInv, Waits, ParserType
  <2>3. Taken
    BY <2>1, <2>2 DEF LineInv, Quiet, Asked, Answering, NoAnswer
  <2>4. Line' = Line
    BY <2>1 DEF Line, Consumed, parserVars
  <2>5. NoAnswer'
    <3> SUFFICES ASSUME NEW g \in Servos PROVE queues'[g] = {}
      BY DEF NoAnswer
    <3>1. g \in Functions
      BY ServosReportNothing
    <3>2. CASE g = reading[1]
      BY <2>1, <2>2, <3>1, <3>2
    <3>3. CASE g # reading[1]
      BY <2>1, <2>2, <2>3, <3>1, <3>3 DEF Taken
    <3> QED BY <3>2, <3>3
  <2>6. Quiet'
    BY <2>1, <2>3, <2>4, <2>5 DEF Taken, Quiet
  <2>7. Reported'
    <3>1. \A g \in Reports : queues'[g] \subseteq queues[g]
      BY <2>1, <2>2, ServosReportNothing
    <3> QED BY <3>1 DEF LineInv, Reported
  <2> QED BY <2>1, <2>6, <2>7 DEF LineInv, Waits
<1>10. CASE OledHeard \/ CommandRaised \/ AnswerRaised \/ TimedOut \/ SpinEnds
  BY <1>6, <1>10 DEF OledHeard, CommandRaised, AnswerRaised, TimedOut, SpinEnds
<1>11. CASE Interrupted
  BY <1>11, LineStays DEF Interrupted, execVars
<1>12. CASE UNCHANGED vars
  BY <1>12, LineStays DEF vars, boardVars, execVars
<1> QED BY <1>1, <1>2, <1>3, <1>4, <1>5, <1>7, <1>8, <1>9, <1>10, <1>11, <1>12
        DEF Next, Board, Pub, Callback

\* A fault is not taken back.
LEMMA FaultsCount == TypeOK /\ [Next]_vars /\ faults' = 0 => faults = 0
<1> SUFFICES ASSUME TypeOK, [Next]_vars, faults' = 0 PROVE faults = 0
  OBVIOUS
<1>1. faults \in Nat
  BY DEF TypeOK
<1>2. CASE Recv
  BY <1>1, <1>2 DEF Recv, Received, ByteAltered, ByteLost
<1>3. CASE Board \/ Pub \/ Interrupted
  BY <1>3 DEF Board, StanceTaken, Report, Reply, Pub, PubData, PubRaised, Interrupted
<1>4. CASE Callback
  BY <1>4 DEF Callback, MotorHeard, MotorWritten, OledHeard, Commanded,
              CommandWritten, CommandRaised, StateAsked, ReadBegun, AnswerRaised,
              AnswerRead, TimedOut, CallDone, SpinEnds, Ends, othersOfExec
<1>5. CASE UNCHANGED vars
  BY <1>5 DEF vars
<1> QED BY <1>2, <1>3, <1>4, <1>5 DEF Next

LEMMA LineInit == Init => LineInv
<1> SUFFICES ASSUME Init PROVE LineInv
  OBVIOUS
<1>1. Line = <<>>
  <2>1. Consumed = <<>> /\ wire = <<>> /\ <<>> \in Seq(Byte)
    BY DEF Init, Consumed
  <2> QED BY <2>1, ConcatEmptySeq DEF Line
<1>2. Line \in Chatter
  BY <1>1, ChatterIsExtended DEF Extended
<1>3. NoAnswer /\ Reported
  BY ServosReportNothing DEF Init, NoAnswer, Reported
<1>4. exec # "waiting" /\ asked = {}
  BY DEF Init
<1> QED BY <1>2, <1>3, <1>4 DEF LineInv, Quiet, Waits

LEMMA LineSafe == Spec => [](TypeOK /\ (faults = 0 => LineInv))
<1> DEFINE Inv == /\ TypeOK /\ ParserInFrame /\ ReadPending
                  /\ faults = 0 => LineInv
<1>1. Init => Inv
  BY LinkInit, LineInit
<1>2. Inv /\ [Next]_vars => Inv'
  <2> SUFFICES ASSUME Inv, [Next]_vars PROVE Inv'
    OBVIOUS
  <2>1. TypeOK' /\ ParserInFrame' /\ ReadPending'
    BY LinkStep, ReadStep
  <2>2. ASSUME faults' = 0 PROVE LineInv'
    BY <2>2, FaultsCount, LineStep
  <2> QED BY <2>1, <2>2
<1> QED BY <1>1, <1>2, PTL DEF Spec

\* As long as no byte was lost or altered, what gets into a queue is what the
\* board sent for it, wherever on the line the packets begin and end.
THEOREM CleanLineIsGenuine == Spec => [](faults = 0 => PacketsAreGenuine)
<1>1. LineInv => PacketsAreGenuine
  <2> SUFFICES ASSUME LineInv, NEW f \in Functions
               PROVE  queues[f] \subseteq Genuine[f]
    BY DEF PacketsAreGenuine
  <2>1. CASE f \in Reports
    BY <2>1 DEF LineInv, Reported
  <2>2. CASE f \in Servos
    <3>1. CASE Taken
      <4>1. reading \in Requests
        BY <3>1 DEF Taken, LineInv, Waits
      <4>2. PICK result \in Results : queues[reading[1]] = {Answer(reading, result)}
        BY <3>1 DEF Taken
      <4>3. Answer(reading, result) \in Genuine[reading[1]]
        BY <4>1, AnswerIsGenuine
      <4>4. f # reading[1] => queues[f] = {}
        BY <2>2, <3>1 DEF Taken
      <4> QED BY <4>2, <4>3, <4>4
    <3>2. CASE ~Taken
      BY <2>2, <3>2 DEF LineInv, Quiet, Asked, Answering, NoAnswer
    <3> QED BY <3>1, <3>2
  <2> QED BY <2>1, <2>2, ServosReportNothing
<1> QED BY <1>1, LineSafe, PTL

\* And what a read takes from the queue is the answer to its own request:
\* no answer is left over from the reads before it.
THEOREM CleanLineAnswers == Spec => [](faults = 0 => AnswerMatchesRequest)
<1>1. LineInv => AnswerMatchesRequest
  <2> SUFFICES ASSUME LineInv, exec = "waiting", NEW data \in queues[reading[1]]
               PROVE  data[1] = reading[2]
    BY DEF AnswerMatchesRequest
  <2>1. reading[1] \in Servos
    BY ServosReportNothing DEF LineInv, Waits
  <2>2. Taken
    BY <2>1 DEF LineInv, Quiet, Asked, Answering, NoAnswer
  <2>3. PICK result \in Results : queues[reading[1]] = {Answer(reading, result)}
    BY <2>2 DEF Taken
  <2>4. data = Answer(reading, result)
    BY <2>3
  <2> QED BY <2>4 DEF Answer
<1> QED BY <1>1, LineSafe, PTL

(***************************************************************************)
(* Induction, for sets of natural numbers                                  *)
(***************************************************************************)
LEMMA LeastNatural ==
  ASSUME NEW S \in SUBSET Nat, S # {}
  PROVE  \E m \in S : \A k \in S : m <= k
<1> DEFINE below == {p \in Nat \X Nat : p[1] < p[2]}
<1>1. IsWellFoundedOn(below, Nat)
  BY NatLessThanWellFounded DEF OpToRel
<1>2. \A k, m \in Nat : k < m => <<k, m>> \in below
  OBVIOUS
<1> HIDE DEF below
<1>3. PICK m \in S : \A k \in S : ~ (<<k, m>> \in below)
  BY <1>1, WFMin
<1>4. ASSUME NEW k \in S PROVE m <= k
  <2>1. ~ (k < m)
    BY <1>2, <1>3
  <2>2. QED
    BY <2>1
<1>5. QED
  BY <1>4

LEMMA SetInduction ==
  ASSUME NEW S, 0 \in S, \A n \in Nat : n \in S => n + 1 \in S
  PROVE  \A n \in Nat : n \in S
<1> SUFFICES ASSUME Nat \ S # {} PROVE FALSE
  OBVIOUS
<1>1. PICK m \in Nat \ S : \A k \in Nat \ S : m <= k
  BY LeastNatural
<1>2. m # 0 /\ m - 1 \in Nat
  BY <1>1
<1>3. m - 1 \in S
  BY <1>1, <1>2
<1>4. QED
  BY <1>1, <1>2, <1>3

(***************************************************************************)
(* The checksum of the SDK                                                 *)
(***************************************************************************)
Weights == {1, 2, 4, 8, 16, 32, 64, 128}

LEMMA TableType == \A i \in 1..256 : crc8_table[i] \in Byte
BY DEF crc8_table, Byte

LEMMA BitType ==
  ASSUME NEW a \in Byte, NEW w \in Weights PROVE Bit(a, w) \in {0, 1}
BY DEF Bit, Byte, Weights

LEMMA XorType ==
  ASSUME NEW a \in Byte, NEW b \in Byte PROVE Xor(a, b) \in Byte
<1>1. \A w \in Weights : Differ(a, b, w) \in {0, w}
  BY DEF Differ
<1> QED BY <1>1 DEF Xor, Byte, Weights

LEMMA BitsMakeUp ==
  ASSUME NEW a \in Byte
  PROVE  a = Bit(a, 1) + 2 * Bit(a, 2) + 4 * Bit(a, 4) + 8 * Bit(a, 8)
               + 16 * Bit(a, 16) + 32 * Bit(a, 32) + 64 * Bit(a, 64)
               + 128 * Bit(a, 128)
BY DEF Bit, Byte

LEMMA XorCancels ==
  ASSUME NEW a \in Byte, NEW b \in Byte, NEW c \in Byte, Xor(a, c) = Xor(b, c)
  PROVE  a = b
<1>1. \A w \in Weights :
        /\ Differ(a, c, w) \in {0, w} /\ Differ(b, c, w) \in {0, w}
        /\ Bit(a, w) \in {0, 1} /\ Bit(b, w) \in {0, 1} /\ Bit(c, w) \in {0, 1}
  BY BitType DEF Differ
<1>2. \A w \in Weights : Differ(a, c, w) = Differ(b, c, w)
  BY <1>1 DEF Xor, Weights
<1>3. \A w \in Weights : Bit(a, w) = Bit(b, w)
  BY <1>1, <1>2 DEF Differ, Weights
<1> QED BY <1>3, BitsMakeUp DEF Weights

\* Where in the table each byte is: every byte is there once.
Places == <<
  1, 26, 51, 44, 101, 126, 87, 80, 201, 210, 251, 228, 173, 182, 159, 136,
  138, 145, 188, 163, 238, 245, 224, 199, 66, 89, 116, 107, 38, 61, 24, 15,
  12, 19, 58, 33, 112, 119, 94, 69, 196, 219, 242, 233, 168, 191, 150, 141,
  131, 156, 177, 170, 231, 256, 213, 206, 75, 84, 121, 98, 47, 56, 29, 6,
  23, 16, 37, 62, 115, 108, 65, 90, 223, 200, 237, 246, 187, 164, 137, 146,
  160, 135, 174, 181, 252, 227, 202, 209, 88, 79, 102, 125, 52, 43, 2, 25,
  30, 5, 48, 55, 122, 97, 76, 83, 214, 205, 232, 255, 178, 169, 132, 155,
  149, 142, 167, 192, 241, 234, 195, 220, 93, 70, 111, 120, 57, 34, 11, 20,
  45, 54, 31, 8, 73, 82, 123, 100, 229, 254, 215, 208, 129, 154, 179, 172,
  166, 189, 152, 143, 194, 217, 244, 235, 110, 117, 96, 71, 10, 17, 60, 35,
  40, 63, 22, 13, 68, 91, 114, 105, 240, 247, 222, 197, 140, 147, 186, 161,
  175, 184, 157, 134, 203, 212, 249, 226, 103, 128, 85, 78, 3, 28, 49, 42,
  59, 36, 9, 18, 95, 72, 109, 118, 243, 236, 193, 218, 151, 144, 165, 190,
  180, 171, 130, 153, 216, 207, 230, 253, 124, 99, 74, 81, 32, 7, 46, 53,
  50, 41, 4, 27, 86, 77, 104, 127, 250, 225, 204, 211, 158, 133, 176, 183,
  185, 162, 139, 148, 221, 198, 239, 248, 113, 106, 67, 92, 21, 14, 39, 64
>>
LEMMA TableIsOneToOne == \A i \in 1..256 : Places[crc8_table[i] + 1] = i
BY DEF crc8_table, Places

LEMMA UpdatedIs ==
  ASSUME NEW c \in Byte, NEW b \in Byte
  PROVE  Updated[c][b] = crc8_table[Xor(c, b) + 1]
<1> HIDE DEF crc8_table, Xor
<1> QED BY DEF Updated, Byte

LEMMA UpdatedType ==
  ASSUME NEW c \in Byte, NEW b \in Byte PROVE Updated[c][b] \in Byte
<1>1. Xor(c, b) + 1 \in 1..256
  <2>1. Xor(c, b) \in Byte
    BY XorType
  <2> QED BY <2>1 DEF Byte
<1> QED BY <1>1, TableType, UpdatedIs

LEMMA UpdatedIsOneToOne ==
  ASSUME NEW c \in Byte, NEW d \in Byte, NEW b \in Byte
  PROVE  /\ Updated[c][b] = Updated[d][b] => c = d
         /\ Updated[b][c] = Updated[b][d] => c = d
<1>1. ASSUME NEW x \in Byte, NEW y \in Byte, crc8_table[x + 1] = crc8_table[y + 1]
      PROVE  x = y
  <2>1. x + 1 \in 1..256 /\ y + 1 \in 1..256
    BY DEF Byte
  <2>2. x + 1 = y + 1
    BY <1>1, <2>1, TableIsOneToOne
  <2> QED BY <2>2 DEF Byte
<1>2. Xor(b, c) = Xor(c, b) /\ Xor(b, d) = Xor(d, b)
  BY DEF Xor, Differ
<1>3. Xor(c, b) \in Byte /\ Xor(d, b) \in Byte
  BY XorType
<1>4. Xor(c, b) = Xor(d, b) => c = d
  BY XorCancels
<1>5. /\ Updated[c][b] = crc8_table[Xor(c, b) + 1]
      /\ Updated[d][b] = crc8_table[Xor(d, b) + 1]
      /\ Updated[b][c] = crc8_table[Xor(c, b) + 1]
      /\ Updated[b][d] = crc8_table[Xor(d, b) + 1]
  BY <1>2, UpdatedIs
<1> QED BY <1>1, <1>3, <1>4, <1>5

\* What the recursion computes.
LEMMA ChecksUnfold ==
  ASSUME NEW data \in Seq(Byte)
  PROVE  /\ Checks(data)[0] = 0
         /\ \A i \in 1..Len(data) :
              Checks(data)[i] = Updated[Checks(data)[i - 1]][data[i]]
<1> DEFINE N == Len(data)
           Is(f, k) == f = [i \in 0..k |-> IF i = 0 THEN 0
                                           ELSE Updated[f[i - 1]][data[i]]]
           S == {k \in Nat : \E f : Is(f, k)}
<1>1. N \in Nat
  OBVIOUS
<1>2. 0 \in S
  <2> DEFINE one == [i \in 0..0 |-> 0]
  <2>1. Is(one, 0)
    OBVIOUS
  <2> HIDE DEF one, Is
  <2> QED BY <2>1
<1>3. ASSUME NEW k \in Nat, k \in S PROVE k + 1 \in S
  <2>1. PICK f : Is(f, k)
    BY <1>3
  <2> DEFINE g == [i \in 0..k + 1 |-> IF i = 0 THEN 0
                                      ELSE Updated[f[i - 1]][data[i]]]
  <2>2. ASSUME NEW i \in 0..k PROVE g[i] = f[i]
    <3>1. i \in 0..k + 1
      OBVIOUS
    <3>2. g[i] = IF i = 0 THEN 0 ELSE Updated[f[i - 1]][data[i]]
      BY <3>1
    <3>3. f[i] = IF i = 0 THEN 0 ELSE Updated[f[i - 1]][data[i]]
      BY <2>1
    <3> QED BY <3>2, <3>3
  <2>3. \A i \in 0..k + 1 : i # 0 => i - 1 \in 0..k
    OBVIOUS
  <2>4. Is(g, k + 1)
    <3>1. \A i \in 0..k + 1 :
            i # 0 => Updated[f[i - 1]][data[i]] = Updated[g[i - 1]][data[i]]
      BY <2>2, <2>3
    <3> QED BY <3>1
  <2> HIDE DEF g, Is
  <2> QED BY <2>4
<1>4. N \in S
  <2> HIDE DEF S, N
  <2> QED BY <1>1, <1>2, <1>3, SetInduction
<1>5. Is(Checks(data), N)
  BY <1>4, Zenon DEF Checks
<1> HIDE DEF N
<1>6. \A i \in 1..N : i \in 0..N /\ i # 0
  BY <1>1
<1>7. 0 \in 0..N
  BY <1>1
<1> QED BY <1>5, <1>6, <1>7 DEF N

LEMMA ChecksType ==
  ASSUME NEW data \in Seq(Byte), NEW i \in 0..Len(data)
  PROVE  Checks(data)[i] \in Byte
<1> DEFINE S == {k \in Nat : k <= Len(data) => Checks(data)[k] \in Byte}
<1>1. 0 \in S
  BY ChecksUnfold DEF Byte
<1>2. ASSUME NEW k \in Nat, k \in S PROVE k + 1 \in S
  <2> SUFFICES ASSUME k + 1 <= Len(data) PROVE Checks(data)[k + 1] \in Byte
    OBVIOUS
  <2>1. k + 1 \in 1..Len(data) /\ (k + 1) - 1 = k /\ Checks(data)[k] \in Byte
    BY <1>2
  <2>2. data[k + 1] \in Byte
    BY <2>1, ElementOfSeq
  <2>3. Checks(data)[k + 1] = Updated[Checks(data)[k]][data[k + 1]]
    BY <2>1, ChecksUnfold
  <2> QED BY <2>1, <2>2, <2>3, UpdatedType
<1> HIDE DEF S
<1>3. \A k \in Nat : k \in S
  BY <1>1, <1>2, SetInduction
<1> QED BY <1>3 DEF S

LEMMA ChecksumIsByte ==
  ASSUME NEW data \in Seq(Byte) PROVE checksum_crc8(data) \in Byte
<1>1. Len(data) \in 0..Len(data)
  OBVIOUS
<1> QED BY <1>1, ChecksType DEF checksum_crc8

\* What the theorems assume of a checksum is so of checksum_crc8.
THEOREM SdkMeetsAssumption ==
  \A f \in Functions : \A data \in Genuine[f] :
    checksum_crc8(<<f, Len(data)>> \o data) \in Byte
<1> TAKE f \in Functions
<1> TAKE data \in Genuine[f]
<1>1. data \in Seq(Byte) /\ <<f, Len(data)>> \in Seq(Byte)
  BY GenuineType, FunctionsAreBytes DEF Byte
<1>2. <<f, Len(data)>> \o data \in Seq(Byte)
  BY <1>1, ConcatProperties
<1> QED BY <1>2, ChecksumIsByte

\* checksum_crc8 notices every altered byte, in frames of any length: with the
\* others as they were, and whatever it became, the checksum is another.  So a
\* packet does not get through with one byte altered in its function or data.
THEOREM OneByteIsNoticed ==
  ASSUME NEW data \in Seq(Byte), NEW at \in 1..Len(data), NEW b \in Byte,
         b # data[at]
  PROVE  checksum_crc8([data EXCEPT ![at] = b]) # checksum_crc8(data)
<1> DEFINE other == [data EXCEPT ![at] = b]
<1>1. /\ other \in Seq(Byte) /\ Len(other) = Len(data)
      /\ other[at] = b /\ \A i \in 1..Len(data) : i # at => other[i] = data[i]
  BY ExceptSeq
<1> HIDE DEF other
<1> DEFINE same(k) == Checks(other)[k] = Checks(data)[k]
           S == {k \in Nat : k <= Len(data) => (same(k) <=> k < at)}
<1>2. 0 \in S
  BY <1>1, ChecksUnfold
<1>3. ASSUME NEW k \in Nat, k \in S PROVE k + 1 \in S
  <2> SUFFICES ASSUME k + 1 <= Len(data) PROVE same(k + 1) <=> k + 1 < at
    OBVIOUS
  <2>1. /\ k + 1 \in 1..Len(data) /\ (k + 1) - 1 = k /\ k \in 0..Len(data)
        /\ same(k) <=> k < at
    BY <1>3
  <2>2. /\ Checks(data)[k + 1] = Updated[Checks(data)[k]][data[k + 1]]
        /\ Checks(other)[k + 1] = Updated[Checks(other)[k]][other[k + 1]]
    BY <1>1, <2>1, ChecksUnfold
  <2>3. /\ data[k + 1] \in Byte /\ other[k + 1] \in Byte
        /\ Checks(data)[k] \in Byte /\ Checks(other)[k] \in Byte
    BY <1>1, <2>1, ChecksType, ElementOfSeq
  <2>4. CASE k + 1 < at
    BY <1>1, <2>1, <2>2, <2>4
  <2>5. CASE k + 1 = at
    <3>1. same(k) /\ other[k + 1] # data[k + 1]
      BY <1>1, <2>1, <2>5
    <3> QED BY <2>2, <2>3, <2>5, <3>1, UpdatedIsOneToOne
  <2>6. CASE k + 1 > at
    <3>1. ~same(k) /\ other[k + 1] = data[k + 1]
      BY <1>1, <2>1, <2>6
    <3> QED BY <2>2, <2>3, <2>6, <3>1, UpdatedIsOneToOne
  <2> QED BY <2>1, <2>4, <2>5, <2>6
<1> HIDE DEF S
<1>4. \A k \in Nat : k \in S
  BY <1>2, <1>3, SetInduction
<1>5. ~same(Len(data))
  <2>1. Len(data) \in Nat /\ ~(Len(data) < at)
    OBVIOUS
  <2> QED BY <1>4, <2>1 DEF S
<1> QED BY <1>1, <1>5 DEF checksum_crc8, other
=============================================================================
