SPECIFICATION Spec
CONSTANTS
  Bands <- TwoBands
  Permil <- Permils
  Cap = 2
  Limit = 2001
  Toa = 1
  AckToa = 1
  Droppable = {"try"}
  MaxReps = 2
  AckWindow = 1
  Channels = 2
  OffTime = 1
  MaxSends = 2
  MaxTime = 3
INVARIANTS AirtimeBounded NotStarved DeliveredMeansTaken
CHECK_DEADLOCK FALSE
