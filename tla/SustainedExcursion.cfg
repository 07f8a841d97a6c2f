SPECIFICATION Spec
CONSTANTS
  Sensors = {s1}
  Devices = {d1}
  Detectors = 1
  VotesRequired = 1
  Cooldown = 1
  Channels = 1
  MaxQueue = 1
  MaxAttempts = 1
  Notified = {"limit"}
INVARIANT SustainedExcursionIsAlerted
CHECK_DEADLOCK FALSE
