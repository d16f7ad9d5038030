SPECIFICATION FairSpec
CONSTANTS
  c1 = c1
  c2 = c2
  t1 = t1
  Scripts <- SteerScripts
  Calls = {c1}
  BgPrompt = BgPrompt
  NoTask = NoTask
  MaxWaits = 2
  MaxAsks = 2
  Resends = {FALSE, TRUE}
INVARIANTS
  UsedAtMostOnce
  NoDeliveryLost
  RequestIsServed
PROPERTIES
  AnswersReachTheTurn
  SteerReplacesStartedTurn
CHECK_DEADLOCK FALSE
