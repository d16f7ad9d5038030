SPECIFICATION FairSpec
CONSTANTS
  m1 = m1
  m2 = m2
  x1 = x1
  Messages = {m1, m2}
  Others = {x1}
  None = None
  OldTurns = 1
  MaxIdle = 1
  MaxEvents = 2
INVARIANTS
  CursorHasNoGap
  AnswerShown
PROPERTIES
  TurnEnds
CHECK_DEADLOCK FALSE
