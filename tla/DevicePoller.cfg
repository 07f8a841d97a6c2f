SPECIFICATION Spec
CONSTANTS
  TxModulus = 3
  CancelOutcomes = {"no", "error"}
  MaxStream = 1
  Blocks = 2
INVARIANTS
  TypeOK
  OneThingAtATime
  ReadingsAreWhole
PROPERTIES
  StatusIsEarned
  IdleConnectionIsKept
  RequestIsBounded
  StopQuiesces
  PollingContinues
CHECK_DEADLOCK FALSE
