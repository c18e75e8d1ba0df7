\* Two servos, SBUS and its loss, one byte of the line lost or altered, SIGINT.
SPECIFICATION Spec
CONSTANTS
  Checksum <- checksum_crc8
  Requests <- SomeRequests
  Reports = {9}
  Stances <- SomeStances
  Lost = {3}
  Noise = {5}
  MaxPackets = 1
  MaxFaults = 1
  MaxWire = 7
INVARIANTS
  TypeOK
  ParserInFrame
  PacketsAreGenuine
  AnswerMatchesRequest
  StopIsLast
PROPERTIES
  CallReturns
  ReportsCatchUp
CHECK_DEADLOCK FALSE
