SPECIFICATION Spec
CONSTANTS
  Capacity = 2
  FlushBatch = 2
  Retention = 1
  MaxTime = 0
  MaxSamples = 1
  MaxFailures = 0
  MaxCrashes = 0
INVARIANTS
  NothingLeftUnflushed
