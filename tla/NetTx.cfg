SPECIFICATION Spec
CONSTANTS
  MaxCtr = 5
  Reserve = 2
  Chunks = 1
  Ops = {"send", "fhss", "pair", "fetch", "serve"}
  FailsIn = {"boot", "send", "fhss"}
  DroppedIn = {"send"}
INVARIANTS NonceUnique
