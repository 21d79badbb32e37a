SPECIFICATION Spec
CONSTANTS
  MaxInt = 4
  Inputs <- MCInputs
  Scripts <- MCScripts
  Initrcs <- MCInitrcs
  Files <- MCFiles
  Typed <- MCTyped
  Tables <- MCTables
  MaxInputs = 3
  Presses = 1
CHECK_DEADLOCK FALSE
INVARIANTS
  TypeOK
  ScopesFollowBlocks
  EachNameHasOneOwner
PROPERTIES
  LeavingRunsNothing
  InterruptEndsInput
