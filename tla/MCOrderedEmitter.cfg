SPECIFICATION FairSpec
CONSTANTS
  q1 = q1
  q2 = q2
  Producers = {q1, q2}
  Events <- StreamEvents
  MaxPending = 2
  MaxCharacters = 3
  MaxEmits = 5
INVARIANTS
  OrderedDispatch
  NoLostWakeup
PROPERTY
  WaitersResume
CHECK_DEADLOCK FALSE
