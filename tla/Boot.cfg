SPECIFICATION BootSpec
CONSTANTS
  Threshold = 2
  Healthy = 3
  Half = 2
  MaxAge = 1
  MaxBoots = 5
  MaxCrashes = 2
INVARIANTS WearBounded CrashReportedOnce HangBounded
CHECK_DEADLOCK FALSE
