SPECIFICATION Spec
CONSTANTS
  Producers = {p1, p2}
  NoOne = NoOne
  QueueCapacity = 2
  BatchSize = 2
  MaxSamples = 3
  MaxStarts = 2
INVARIANTS
  TypeOK
  OneProducer
  NothingLost
  StoppedIsDrained
  CountersFollow
  BatchesHoldSamples
PROPERTIES
  SamplesReachSink
  StopReturns
  SubmitReturns
CHECK_DEADLOCK FALSE
