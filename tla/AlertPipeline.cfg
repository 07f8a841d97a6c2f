SPECIFICATION Spec
CONSTANTS
  Sensors = {s1}
  Devices = {d1}
  Detectors = 1
  VotesRequired = 1
  Cooldown = 1
  Channels = 2
  MaxQueue = 2
  MaxAttempts = 2
  Notified = {"limit"}
INVARIANTS
  TypeOK
  AlertsAreSpaced
PROPERTIES
  AttemptsAreJustified
  LastWordIsTrue
CHECK_DEADLOCK FALSE
