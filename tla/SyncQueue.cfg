SPECIFICATION Spec
CONSTANTS
  Capacity = 4
  Value = {a, b}
  NoValue = none
  MaxCount = 2
INVARIANTS IInv SlotExclusion NeverUnfilled
PROPERTY ImplementsFifo
