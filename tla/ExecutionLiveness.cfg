SPECIFICATION FairSpec
CONSTANTS
  MaxId = 3
  MaxStages = 1
  HistoryLimit = 1
  Waiters = {w1}
  Launches <- LivenessLaunches
PROPERTIES
  TimeoutEndsExecution
  CancellationTakesEffect
