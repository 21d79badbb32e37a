SPECIFICATION Spec
CONSTANTS
  MaxId = 3
  MaxStages = 2
  HistoryLimit = 1
  Waiters = {w1}
  Launches <- MixedLaunches
INVARIANTS
  TypeOK
  LaunchStateAgrees
  CompletedMeansFinalStageSucceeded
  OwnedIffActive
  RegistryConsistent
PROPERTIES
  FirstCauseWins
  ImplementsLifecycle
  OnlyCancellingAreTerminated
