CONSTANTS
  N = 2
  Kinds = {"copy", "move", "delete", "compress"}
  Crossing = {TRUE, FALSE}
  Variables = {v}
  MaxFaults = 2
SPECIFICATION Spec
CHECK_DEADLOCK FALSE
INVARIANTS
  TypeOK
  NoItemLost
  JournalNamesEveryChange
  ReversedMeansRestored
  CrashedCanRollBack
PROPERTIES
  AppliedMeansPublished
  OutsideFilesKept
  ResumeCompletes
