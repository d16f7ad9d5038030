----------------------------- MODULE MCTaskRun -----------------------------
(* Small instances of TaskRun for TLC.                                     *)
EXTENDS TaskRun

Task(w, k, a, r, q) ==
  [workflow |-> w, kind |-> k, agent |-> a, reports |-> r, asks |-> q]

\* An ordinary background tool, workflow tools that report or ask, and a
\* subagent task.
AllTasks == {Task(FALSE, "tool", FALSE, 2, 0), Task(TRUE, "tool", FALSE, 2, 0),
             Task(TRUE, "tool", FALSE, 0, 1), Task(TRUE, "subagent", TRUE, 1, 0),
             Task(TRUE, "subagent", TRUE, 0, 1)}
\* A workflow tool that asks, and asks again.
AskingTasks == {Task(TRUE, "tool", FALSE, 0, 2)}
=============================================================================
