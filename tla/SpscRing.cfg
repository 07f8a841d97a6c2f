SPECIFICATION Spec
CONSTANTS
  Values = {v1, v2}
  NoItem = NoItem
  Capacity = 4
  Modulus = 8
INVARIANTS
  TypeOK
  SlotOwnership
PROPERTY ImplementsFifo
