SPECIFICATION Spec
CONSTANTS
  HeaderBytes = 1
  BatchBytes = {1, 2, 3}
  MaxSegment = 3
  MaxTotal = 6
  MaxTime = 1
  MaxBatches = 4
  MaxFaults = 2
  MaxCrashes = 1
  MaxStepsBack = 1
INVARIANTS
  TypeOK
  NothingOverwritten
  TotalIsBounded
  OldestGoFirst
CHECK_DEADLOCK FALSE
