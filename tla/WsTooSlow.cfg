SPECIFICATION Spec
CONSTANTS
  Broadcasters = {b1}
  Limit = 1
  MaxFrames = 2
  MaxPings = 0
CHECK_DEADLOCK FALSE
INVARIANTS
  DisconnectIsClean
