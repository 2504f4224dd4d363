SPECIFICATION Spec
CONSTANTS
  MaxCommands = 3
  SeqMax = 2
  MaxSessions = 2
INVARIANTS
  IInv
  CallbackBound
  OwnAnswer
PROPERTIES
  CalledBack
CHECK_DEADLOCK FALSE
