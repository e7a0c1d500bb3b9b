SPECIFICATION Spec
CONSTANTS
  k1 = k1
  k2 = k2
  short = short
  long = long
  Keys <- MCKeys
  Values <- OneValue
  WordsOf <- OneLength
  Absent = Absent
  Blank = Blank
  Junk = Junk
  None = None
  Header = 1
  Half = 5
  Budget = 2
  Threshold = 3
  TornWipe = FALSE
  MaxGen = 3
SYMMETRY KeySymmetry
INVARIANTS NoBuriedRecord PlannedCopyIntact MaintenanceSettles
PROPERTIES ImplementsMap RefusedOnlyWhenFull
CHECK_DEADLOCK FALSE
