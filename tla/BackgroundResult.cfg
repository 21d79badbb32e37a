SPECIFICATION Spec
CONSTANTS
  MaxId = 2
  MaxStages = 2
  HistoryLimit = 1
  Waiters = {}
  Launches <- BackgroundLaunch
INVARIANT
  BackgroundResultIsFinalStage
