SPECIFICATION Spec
CONSTANTS
  Tasks <- AskingTasks
  MaxCancels = 0
  MaxRetries = 0
INVARIANT QuestionAnswerable
CHECK_DEADLOCK FALSE
