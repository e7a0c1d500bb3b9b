SPECIFICATION SyncSpec
CONSTANTS
  N = 3
  Hop <- ThreeChannels
  Rendezvous = 0
  AcquireSlack = 1
  ResyncSlack = 1
  Limit = 2
  WritesFail = FALSE
  MaxTime = 13
  MaxRestarts = 2
  MaxCopies = 2
  None = None
INVARIANTS SecondBeaconLocks ClockTrue
CHECK_DEADLOCK FALSE
