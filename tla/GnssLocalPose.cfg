SPECIFICATION Spec
CONSTANTS
  Timeout = 2
  Tolerance = 1
  Day = 4
  MaxDrain = 2
  Times = {0, 2, 3, 4}
  MaxSentences = 3
  MaxLosses = 1
INVARIANTS
  TypeOK
  PosesInOrder
  PairedWhenValid
  OutageInvalidates
CHECK_DEADLOCK FALSE
