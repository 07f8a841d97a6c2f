SPECIFICATION Spec
CONSTANTS
  Capacity = 2
  FlushBatch = 2
  Retention = 1
  MaxTime = 2
  MaxSamples = 4
  MaxFailures = 1
  MaxCrashes = 1
INVARIANTS
  TypeOK
  YoungSamplesSurvive
  MemoryFollowsLog
PROPERTIES
  ImplementsJournal
  PendingIsFlushed
