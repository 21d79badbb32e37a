CONSTANTS
  N = 2
  Kinds = {"copy", "move", "delete", "compress"}
  Crossing = {FALSE}
  Variables = {v}
  MaxFaults = 1
SPECIFICATION Spec
CHECK_DEADLOCK FALSE
INVARIANTS
  JournalIsEvidence
