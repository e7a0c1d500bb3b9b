SPECIFICATION FairSpec
CONSTANTS
  Window = 2
  MaxCalls = 4
INVARIANTS ResultsTrue NoVeto
PROPERTIES CallsEnd
CHECK_DEADLOCK FALSE
