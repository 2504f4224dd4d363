SPECIFICATION Spec
CONSTANTS
  Capacity = 3
  MaxCount = 2
  NoBuffer = none
  MaxPackets = 4
  MaxSessions = 1
INVARIANT OneOwner
CHECK_DEADLOCK FALSE
