SPECIFICATION FairMaintenance
CONSTANTS
  TxDepth = 1
  ShellDepth = 2
  MgmtDepth = 1
  MaxFrames = 2
  MaxItems = 3
  MaxRequests = 1
  MaxPlugs = 1
  MaxWork = 2
  MaxWrites = 1
INVARIANTS DropsAccounted
PROPERTIES ParkedFreed 
CHECK_DEADLOCK FALSE
