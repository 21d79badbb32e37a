CONSTANTS
  N = 2
  Kinds = {"copy"}
  Crossing = {FALSE}
  Variables = {}
  MaxFaults = 1
SPECIFICATION Spec
CHECK_DEADLOCK FALSE
PROPERTIES
  CopyResumeCompletes
