SPECIFICATION FairSpec
CONSTANTS
  a1 = a1
  a2 = a2
  t1 = t1
  t2 = t2
  t3 = t3
  r1 = r1
  k1 = k1
  k2 = k2
  Agents = {a1, a2}
  Tasks = {t1, t2, t3}
  Runs = {r1}
  Nobody = Nobody
  Slots = {k1, k2}
  MaxTurns = 1
  MaxSteps = 2
  MaxCalls = 2
INVARIANTS
  ClaimWillEnd
  WorkingTaskHasLease
  TaskNotOrphaned
PROPERTIES
  LeaseReleased
CHECK_DEADLOCK FALSE
