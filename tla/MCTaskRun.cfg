SPECIFICATION FairSpec
CONSTANTS
  Tasks <- AllTasks
  MaxCancels = 1
  MaxRetries = 1
INVARIANTS
  SilentUntilIndexed
  EndIsLast
  ReportsBeforeEnd
  BodyRunsOnce
  CancelIsTold
  WorkingMeansAnswered
PROPERTIES
  ImplementsLifecycle
  TaskSettles
CHECK_DEADLOCK FALSE
