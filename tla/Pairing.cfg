SPECIFICATION FairPairing
CONSTANTS
  Nodes = {n1, n2}
  Keys = {k1, k2}
  MaxRequests = 3
  HostOps = {"open", "cancel", "add", "remove"}
  Capacity = 1
  WindowSlices = 1
  MaxJoins = 2
  MaxExchanges = 2
  None = None
INVARIANTS NeverRefused
PROPERTIES  WindowResolves
CHECK_DEADLOCK FALSE
