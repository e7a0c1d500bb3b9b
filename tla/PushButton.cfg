SPECIFICATION Spec
CONSTANTS
  DebouncePress = 1
  DebounceRelease = 1
  ClickTimeout = 4
  HoldTime = 2
  QueueDepth = 2
  SimTimes = {1, 4}
  MaxLag = 1
  MaxInputs = 2
  LedDepth = 2
  Gateways = {g1}
  Addrs = {a1}
  Dark = dark
  None = None
INVARIANTS   LedTruthful
