----------------------------- MODULE MCBoardLink -----------------------------
(***************************************************************************)
(* An instance of BoardLink with the checksum of the SDK: two bus servos,  *)
(* and an SBUS receiver with a stick at two places and a signal to lose.   *)
(***************************************************************************)
EXTENDS BoardLink, Crc8

SomeStances == [f \in {Sbus} |-> {0, 1, 3}]

SomeRequests == {<<BusServo, 1>>, <<BusServo, 2>>}
=============================================================================
