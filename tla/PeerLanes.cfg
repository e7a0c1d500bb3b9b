SPECIFICATION Spec
CONSTANTS
  a1 = a1
  a2 = a2
  a3 = a3
  Addrs <- ThreeAddrs
  P = 2
  MaxPeers = 2
  PerBucket = 1
  Buckets = 2
  StaleRestore = FALSE
  MaxKey = 2
  MaxCtr = 3
  MaxAired = 3
  None = None
SYMMETRY AddrSymmetry
INVARIANTS LanesDisjoint WindowPerSession AckedWasAccepted 
PROPERTIES FloorNeverDrops
CHECK_DEADLOCK FALSE
