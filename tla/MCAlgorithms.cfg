SPECIFICATION Spec
CONSTANTS
  Contents <- MCContents
  Huge = 1000
  SensorLists <- MCSensorLists
  Limits <- MCLimits
  BatchSizes <- MCBatchSizes
  Lengths <- MCLengths
  Counts <- MCCounts
  Configurations <- MCConfigurations
INVARIANTS EverySensorIsRead DamageIsContained AcceptedConfigIsUsable
CHECK_DEADLOCK FALSE
