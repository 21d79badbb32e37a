CONSTANTS
  s1 = s1
  s2 = s2
  Shells = {s1, s2}
  Characters <- MCCharacters
  Keys <- MCKeys
  Builtins <- MCBuiltins
  Paths <- MCPaths
  MaxLine = 3
  Scenarios <- MCScenarios
SPECIFICATION Spec
CHECK_DEADLOCK FALSE
INVARIANTS
  TypeOK
  FileIsLatest
  ListingMatchesRecall
  BrowsingReturns
  CutPasteRestores
PROPERTIES
  NewestIsRecalled
