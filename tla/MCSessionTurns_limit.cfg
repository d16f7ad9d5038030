SPECIFICATION Spec
CONSTANTS
  c1 = c1
  c2 = c2
  t1 = t1
  Scripts <- LimitScripts
  Calls = {c1}
  BgPrompt = BgPrompt
  NoTask = NoTask
  MaxWaits = 1
  MaxAsks = 0
  Resends = {FALSE}
INVARIANTS
  NoDeliveryLost
CHECK_DEADLOCK FALSE
