--------------------------- MODULE MCSessionTurns ---------------------------
(* Small instances of SessionTurns for TLC.                                *)
EXTENDS SessionTurns

CONSTANTS c1, c2, t1

Delivery(n, msg, steer, answers, stop, prompt, did, task, tdi, caller) ==
  [kind |-> "deliver", n |-> n, msg |-> msg, steer |-> steer,
   answers |-> answers, stop |-> stop, prompt |-> prompt, did |-> did,
   task |-> task, tdi |-> tdi, caller |-> caller]
Message(n, steer) ==
  Delivery(n, TRUE, steer, NoTask, FALSE, FALSE, NoTask, NoTask, FALSE, FALSE)
Answer(n, p) ==
  Delivery(n, FALSE, FALSE, p, FALSE, FALSE, NoTask, NoTask, FALSE, FALSE)
StopAnswer(n, p) ==
  Delivery(n, FALSE, FALSE, p, TRUE, FALSE, NoTask, NoTask, FALSE, FALSE)
\* A task's notification (taskDeliveryId) and a caller's message to a task.
TaskMessage(n, task) ==
  Delivery(n, TRUE, FALSE, NoTask, FALSE, FALSE, <<task, "view">>, task, TRUE, FALSE)
TaskPrompt(n, task) ==
  Delivery(n, FALSE, FALSE, NoTask, FALSE, TRUE, <<task, "ask">>, task, TRUE, FALSE)
CallerMessage(n, task) ==
  Delivery(n, TRUE, FALSE, NoTask, FALSE, FALSE, <<task, "">>, task, FALSE, TRUE)
CancelTurn(n, k) == [kind |-> "cancel", n |-> n, task |-> NoTask, turn |-> k]
CancelTask(n, task) == [kind |-> "cancel", n |-> n, task |-> task, turn |-> 0]
Plain(n, k) == [kind |-> k, n |-> n]

\* A steering message, and an answer to a child's question, timely or stale.
SteerCommands == {Message(1, TRUE), Answer(2, c1)}
\* A task: its notification twice, a caller's message, its cancellation, its
\* session-limit prompt, declined.
TaskCommands == {TaskMessage(1, t1), TaskMessage(2, t1), CallerMessage(3, t1),
                 CancelTask(4, t1), TaskPrompt(5, t1), StopAnswer(6, BgPrompt)}
\* Messages, a guarded cancel and the session controls; reset takes the path of
\* the timeout.
ControlCommands == {Message(11, TRUE), Message(12, FALSE), CancelTurn(13, 1),
                    Plain(14, "clear"), Plain(15, "timeout")}
\* A background task's session-limit prompt, declined, and a user's message.
LimitCommands == {TaskPrompt(1, t1), StopAnswer(2, BgPrompt), Message(3, FALSE),
                  Message(4, FALSE)}

SteerScripts == {SteerCommands}
SessionScripts == {TaskCommands, ControlCommands}
LimitScripts == {LimitCommands}
=============================================================================
