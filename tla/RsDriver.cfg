SPECIFICATION Spec
CONSTANTS
  Capacity = 3
  MaxCount = 2
  NoBuffer = none
  MaxPackets = 4
  MaxSessions = 2
INVARIANTS TypeOK DecodedOnceUnlessRaced FreshCloud
PROPERTY StopReturns
CHECK_DEADLOCK FALSE
