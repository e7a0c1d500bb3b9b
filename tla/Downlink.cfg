SPECIFICATION FairSpec
CONSTANTS
  n1 = n1
  n2 = n2
  Nodes <- OneNode
  QueueCap = 2
  PerNodeCap = 2
  DownlinkReps = 2
  UplinkReps = 2
  ChunkReps = 2
  Chunks = 2
  Epochs = 2
  Ids = 1
  MaxResets = 1
  None = None
INVARIANTS PendingTruthful DeliveredWasRun LastMeansWhole
PROPERTIES ImplementsCommands ItemsLeave NodeSleeps
