SPECIFICATION Spec
CONSTANTS
  Broadcasters = {b1, b2}
  Limit = 2
  MaxFrames = 2
  MaxPings = 1
INVARIANTS
  TypeOK
  ClientSeesEveryFrame
PROPERTIES
  ClosedIsReleased
  QueuedIsDelivered
CHECK_DEADLOCK FALSE
