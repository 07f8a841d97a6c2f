SPECIFICATION SilentNetworkSpec
CONSTANTS
  TxModulus = 3
  CancelOutcomes = {"error"}
  MaxStream = 1
  Blocks = 1
PROPERTY ConnectIsBounded
CHECK_DEADLOCK FALSE
