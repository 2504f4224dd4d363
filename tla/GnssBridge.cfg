SPECIFICATION Spec
CONSTANTS
  MaxEvents = 1
  MaxRtcm = 1
  MaxFaults = 2
  MaxChunks = 3
INVARIANTS
  TypeOK
  CorrectionsIntact
  SocketClosed
CHECK_DEADLOCK FALSE
