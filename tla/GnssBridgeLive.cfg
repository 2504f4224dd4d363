SPECIFICATION Spec
CONSTANTS
  MaxEvents = 1
  MaxRtcm = 1
  MaxFaults = 1
  MaxChunks = 1
PROPERTIES
  StateShown
  WorkersEnd
  Recovers
CHECK_DEADLOCK FALSE
