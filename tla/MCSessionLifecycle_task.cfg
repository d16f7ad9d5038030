SPECIFICATION Spec
CONSTANTS
  p1 = p1
  p2 = p2
  k1 = k1
  a1 = a1
  a2 = a2
  Mode = "task"
  Callers = {p1, p2}
  First = p1
  NoCaller = NoCaller
  Children = {k1}
  Attempts = {a1}
  MaxTurns = 2
  MaxFaults = 2
  MaxDeclines = 1
INVARIANTS
  TaskReportsOnce
CHECK_DEADLOCK FALSE
