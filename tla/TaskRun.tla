------------------------------ MODULE TaskRun ------------------------------
(***************************************************************************)
(* One background task: the durable run that owns it                       *)
(* (execution/tasks/child/workflow.ts taskRunWorkflow), the authored body  *)
(* that run executes (execution/tools/workflow/body.ts), and the parent    *)
(* session that starts, acknowledges, rejects, answers and cancels it      *)
(* (execution/tasks/parent).                                               *)
(*                                                                         *)
(* Handling one payload changes the run's local variables and performs     *)
(* durable steps.  The local changes are one action, the steps they call   *)
(* for are queued in todo and performed one at a time: everybody else acts *)
(* in between, and a forced shutdown can cut them off.  A step that wakes  *)
(* the parent, appends to the progress stream or sends what the body says  *)
(* may run again after it has taken effect.                                *)
(*                                                                         *)
(* A delivery to the parent is [kind, n, src]: kind and n are its          *)
(* taskDeliveryId, src says which report, question or request it carries.  *)
(***************************************************************************)
EXTENDS Naturals, Sequences, FiniteSets, Functions

CONSTANTS
  Tasks,        \* the tasks to choose from: see TaskConstants
  MaxCancels,   \* bound: cancelOwnedTask calls
  MaxRetries    \* bound: durable steps that run again after taking effect

(* workflow: the task runs a workflow body (else an ordinary background     *)
(* tool, executed inside the parent's step); agent: the body invokes one    *)
(* agent and forwards what it says (a subagent task is such a body and      *)
(* nothing else); reports, asks: bounds on what the executor says.          *)
ASSUME TaskConstants ==
  /\ Tasks \subseteq [workflow : BOOLEAN, kind : {"tool", "subagent"},
                      agent : BOOLEAN, reports : Nat, asks : Nat]
  /\ \A t \in Tasks : t.agent => t.workflow
  /\ \A t \in Tasks : t.kind = "subagent" => t.agent
  /\ MaxCancels \in Nat /\ MaxRetries \in Nat

VARIABLES
  task,         \* the task, chosen once
  run,          \* local variables of taskRunWorkflow
  todo,         \* durable steps the payload in hand still calls for
  reader,       \* per channel: raceChannelReads' read is idle, pending, landed
  workflow,     \* hook of the run's owner inbox: what the body sent
  commands,     \* hook of the task inbox: what the parent sent
  view,         \* the last view on the run's eve.task stream
  progress,     \* the run's task-progress stream
  body,         \* the executing body
  parent,       \* the parent's step: the tool call that started the task
  cancel,       \* cancelOwnedTask
  inbox,        \* the parent session's inbox
  told,         \* deliveries the parent session accepted
  proxied,      \* questions the parent shows its user
  retries

vars == <<task, run, todo, reader, workflow, commands, view, progress, body,
          parent, cancel, inbox, told, proxied, retries>>
----------------------------------------------------------------------------
Channels == {"workflow", "commands", "body"}
TerminalStatuses == {"completed", "failed", "cancelled"}
Statuses == TerminalStatuses \cup {"working", "input_required"}
isTerminalTaskStatus(s) == s \in TerminalStatuses
isReadyTaskStatus(s) == s = "input_required" \/ isTerminalTaskStatus(s)
NoResult == [kind |-> "none", reports |-> 0]

----------------------------------------------------------------------------
(* Deliveries and their identities (child/steps.ts).  A question of the     *)
(* body has the coordinates of the call, one of an agent those of the step  *)
(* that asked.                                                              *)
wakeTaskParentStep(s) == [kind |-> s, n |-> 0, src |-> 0]
wakeTaskUpdateParentStep(u) == [kind |-> "update", n |-> u.index, src |-> u.n]
wakeTaskMessageParentStep(m) == [kind |-> "message", n |-> m.index, src |-> m.n]
wakeTaskOwnerRequestParent(n) == [kind |-> "owner", n |-> n, src |-> n]
wakeWorkflowTaskInputRequestParentStep(q) ==
  [kind |-> "input", n |-> IF task.agent THEN q ELSE 0, src |-> q]
taskDeliveryId(d) == <<d.kind, d.n>>
IsEnd(d) == isTerminalTaskStatus(d.kind)

Nothing == [kind |-> "none", n |-> 0, src |-> 0]
Step(op, d) == [op |-> op, d |-> d, view |-> [status |-> "working", requests |-> {}]]
Wake(d) == Step("wake", d)
appendTaskViewStep(r) ==
  [op |-> "view", d |-> Nothing,
   view |-> [status |-> r.status, requests |-> r.requests]]
Map(f(_), s) == [i \in DOMAIN s |-> f(s[i])]
FlushedUpdates(r) == Map(LAMBDA u : Wake(wakeTaskUpdateParentStep(u)), r.updates)

----------------------------------------------------------------------------
(* applyTaskTransition (tasks/transitions.ts).  A command is [kind, q].     *)
(* Wrong variant: a terminal task still moves.                              *)
AcceptsAlways(r, c) ==
  c.kind = "answered" => r.status = "input_required" /\ c.q \in r.requests
Accepts(r, c) ==
  /\ ~isTerminalTaskStatus(r.status)
  /\ c.kind = "answered" => r.status = "input_required" /\ c.q \in r.requests

Moved(r, status, requests) == [r EXCEPT !.status = status, !.requests = requests]
applyTaskTransition(r, c) ==
  CASE c.kind = "complete" -> Moved(r, "completed", {})
    [] c.kind \in {"fail", "reject-dispatch"} -> Moved(r, "failed", {})
    [] c.kind = "cancel" -> Moved(r, "cancelled", {})
    [] c.kind = "require-input" -> Moved(r, "input_required", {c.q})
    [] c.kind = "answered" ->
         Moved(r, IF r.requests = {c.q} THEN "working" ELSE "input_required",
               r.requests \ {c.q})
    [] OTHER -> r

(* What applyPayload does with a command once the payload's own effects are *)
(* in r: the run's variables afterwards and the steps still to perform.     *)
ApplyCommand(r, c) ==
  LET v == applyTaskTransition(r, c)
      settled == r.settled \/ (c.kind = "cancel" /\ ~r.reading)
      flushes == ~isTerminalTaskStatus(v.status) /\ r.acked
      asks == r.ask # 0 /\ r.acked /\ v.status = "input_required"
      wakes == /\ ~r.rejected /\ r.acked
               /\ c.kind # "cancel" \/ settled
               /\ \/ isTerminalTaskStatus(v.status)
                  \/ /\ ~isReadyTaskStatus(r.status)
                     /\ isReadyTaskStatus(v.status)
                     /\ r.ask = 0
  IN CASE c.kind = "ready" /\ isTerminalTaskStatus(r.status) ->
            [run |-> [r EXCEPT !.updates = <<>>],
             steps |-> Append(FlushedUpdates(r), Wake(wakeTaskParentStep(r.status)))]
       [] ~(c.kind = "ready" /\ isTerminalTaskStatus(r.status)) /\ ~Accepts(r, c) ->
            [run |-> r, steps |-> <<>>]
       [] OTHER ->
            [run |-> [v EXCEPT
                !.settled = settled,
                !.updates = IF flushes THEN <<>> ELSE @,
                !.ask = IF asks \/ v.status # "input_required" THEN 0 ELSE @],
             steps |-> <<appendTaskViewStep(v)>>
               \o (IF c.kind = "cancel" THEN <<Step("abort", Nothing)>> ELSE <<>>)
               \o (IF flushes THEN FlushedUpdates(r) ELSE <<>>)
               \o (IF asks THEN <<Wake(wakeWorkflowTaskInputRequestParentStep(r.ask))>>
                   ELSE IF wakes THEN <<Wake(wakeTaskParentStep(v.status))>>
                   ELSE <<>>)]

----------------------------------------------------------------------------
(* The run's loop.  Local actions leave everybody else alone.               *)
Running == run.phase = "running"
\* Wrong variants: the run ends before the parent is ready; a result does not
\* wait for the reports made before it.
FinishedUnheard(r) == isTerminalTaskStatus(r.status) /\ r.settled
ResultInHand == run.result # NoResult
isFinished(r) == isTerminalTaskStatus(r.status) /\ r.acked /\ r.settled
ResultDue == run.result # NoResult /\ run.index >= run.result.reports
AtLoopTop == Running /\ todo = <<>>
Racing == AtLoopTop /\ ~ResultDue /\ ~isFinished(run)

others == <<task, progress, parent, cancel, inbox, told, proxied, retries>>

(* The loop top: the body's result is applied once its reports are.         *)
SettleBody ==
  /\ AtLoopTop /\ ResultDue
  /\ LET a == ApplyCommand([run EXCEPT !.settled = TRUE],
                           [kind |-> run.result.kind, q |-> 0])
     IN /\ run' = [a.run EXCEPT !.result = NoResult]
        /\ todo' = a.steps \o
             (IF a.run.status = "cancelled" /\ run.acked /\ ~run.rejected
              THEN <<Wake(wakeTaskParentStep("cancelled"))>> ELSE <<>>)
  /\ UNCHANGED <<reader, workflow, commands, view, body, others>>

Finish ==
  /\ AtLoopTop /\ ~ResultDue /\ isFinished(run)
  /\ run' = [run EXCEPT !.phase = "finished"]
  /\ UNCHANGED <<todo, reader, workflow, commands, view, body, others>>

(* raceChannelReads: landed reads are claimed in array order; only a race   *)
(* that finds none issues new reads.  What the body sent is in the run's    *)
(* event log before the step that sent it returns: a read that is waiting   *)
(* for it lands before the body's result does.                              *)
Readers == {"workflow", "commands"} \cup (IF run.reading THEN {"body"} ELSE {})
Arm ==
  /\ Racing /\ \A c \in Readers : reader[c] # "landed"
  /\ \E c \in Readers : reader[c] = "idle"
  /\ reader' = [c \in Channels |-> IF c \in Readers /\ reader[c] = "idle"
                                   THEN "pending" ELSE reader[c]]
  /\ UNCHANGED <<run, todo, workflow, commands, view, body, others>>

Land(c) ==
  /\ Running /\ reader[c] = "pending"
  /\ CASE c = "workflow" -> workflow # <<>>
       [] c = "commands" -> commands # <<>>
       [] OTHER -> /\ body.pc = "returned"
                   /\ ~(reader["workflow"] = "pending" /\ workflow # <<>>)
  /\ reader' = [reader EXCEPT ![c] = "landed"]
  /\ UNCHANGED <<run, todo, workflow, commands, view, body, others>>

ClaimBody ==
  /\ Racing /\ run.reading /\ reader["body"] = "landed"
  /\ reader["workflow"] # "landed" /\ reader["commands"] # "landed"
  /\ run' = [run EXCEPT !.reading = FALSE, !.result = body.result]
  /\ reader' = [reader EXCEPT !["body"] = "idle"]
  /\ UNCHANGED <<todo, workflow, commands, view, body, others>>

(* handleUpdate, handleMessage, handleOwnerRequest.                         *)
handleUpdate(r, u) ==
  IF task.kind # "subagent"
    THEN [run |-> r, steps |-> <<Step("progress", [kind |-> "update", n |-> u.index, src |-> u.n])>>]
  ELSE IF r.rejected THEN [run |-> r, steps |-> <<>>]
  ELSE IF r.acked /\ ~isTerminalTaskStatus(r.status)
    THEN [run |-> r, steps |-> <<Wake(wakeTaskUpdateParentStep(u))>>]
  ELSE [run |-> [r EXCEPT !.updates = Append(@, u)], steps |-> <<>>]

\* Wrong variant: a message does not wait for the acknowledgement.
EagerMessage(r, m) ==
  IF r.rejected \/ isTerminalTaskStatus(r.status) THEN [run |-> r, steps |-> <<>>]
  ELSE [run |-> r, steps |-> <<Wake(wakeTaskMessageParentStep(m))>>]
handleMessage(r, m) ==
  IF r.rejected \/ isTerminalTaskStatus(r.status) THEN [run |-> r, steps |-> <<>>]
  ELSE IF ~r.acked
    THEN [run |-> [r EXCEPT !.messages = Append(@, m)], steps |-> <<>>]
  ELSE [run |-> r, steps |-> <<Wake(wakeTaskMessageParentStep(m))>>]

handleOwnerRequest(r, n) ==
  IF r.rejected \/ isTerminalTaskStatus(r.status) THEN [run |-> r, steps |-> <<>>]
  ELSE IF ~r.acked
    THEN [run |-> [r EXCEPT !.owners = Append(@, n)], steps |-> <<>>]
  ELSE [run |-> r, steps |-> <<Wake(wakeTaskOwnerRequestParent(n))>>]

ClaimWorkflow ==
  /\ Racing /\ reader["workflow"] = "landed"
  /\ LET m == Head(workflow)
         counted == [run EXCEPT !.index = @ + 1]
         report == [n |-> m.n, index |-> run.index]
         a == CASE m.kind = "update" -> handleUpdate(counted, report)
                [] m.kind = "message" -> handleMessage(counted, report)
                [] m.kind = "owner" -> handleOwnerRequest(run, m.n)
                [] OTHER -> ApplyCommand([run EXCEPT !.ask = m.n],
                                         [kind |-> "require-input", q |-> m.n])
     IN run' = a.run /\ todo' = a.steps
  /\ workflow' = Tail(workflow)
  /\ reader' = [reader EXCEPT !["workflow"] = "idle"]
  /\ UNCHANGED <<commands, view, body, others>>

(* applyPayload of ready and reject-dispatch: the body starts, or never     *)
(* will; what waited for the answer is released, or dropped.                *)
(* Wrong variant: every acknowledgement starts the body.                    *)
StartsAgain(r, over) == ~over /\ task.workflow /\ r.result = NoResult /\ ~r.settled
StartsBody(r, over) ==
  ~over /\ task.workflow /\ ~r.reading /\ r.result = NoResult /\ ~r.settled
Acknowledged(r, rejects) ==
  LET over == rejects \/ isTerminalTaskStatus(r.status)
  IN [r EXCEPT !.acked = TRUE, !.rejected = @ \/ rejects,
               !.settled = @ \/ over,
               !.reading = @ \/ StartsBody(r, over),
               !.messages = <<>>, !.owners = <<>>]
flushPendingTraffic(r, rejects) ==
  IF r.rejected \/ rejects THEN <<>>
  ELSE Map(LAMBDA m : Wake(wakeTaskMessageParentStep(m)), r.messages)
       \o Map(LAMBDA n : Wake(wakeTaskOwnerRequestParent(n)), r.owners)

(* resolveAnsweredCommand: only an outstanding question's answer is passed  *)
(* on, and only when it has arrived is the question settled.                *)
resolveAnsweredCommand(r, q) ==
  IF r.status = "input_required" /\ q \in r.requests
    THEN <<Step("answer", [kind |-> "answer", n |-> q, src |-> q])>> ELSE <<>>

ClaimCommand ==
  /\ Racing /\ reader["commands"] = "landed" /\ reader["workflow"] # "landed"
  /\ LET c == Head(commands)
         acks == c.kind \in {"ready", "reject-dispatch"}
         rejects == c.kind = "reject-dispatch"
         r == IF acks THEN Acknowledged(run, rejects) ELSE run
         report == [n |-> c.n, index |-> c.n]
         a == CASE c.kind = "update" -> handleUpdate(r, report)
                [] c.kind = "message" -> handleMessage(r, report)
                [] c.kind = "answer" ->
                     [run |-> r, steps |-> resolveAnsweredCommand(r, c.n)]
                [] OTHER -> ApplyCommand(r, [kind |-> c.kind, q |-> 0])
     IN /\ run' = a.run
        /\ todo' = (IF acks THEN flushPendingTraffic(run, rejects) ELSE <<>>) \o a.steps
        /\ body' = IF acks /\ StartsBody(run, rejects \/ isTerminalTaskStatus(run.status))
                     THEN [body EXCEPT !.pc = "running", !.starts = @ + 1] ELSE body
  /\ commands' = Tail(commands)
  /\ reader' = [reader EXCEPT !["commands"] = "idle"]
  /\ UNCHANGED <<workflow, view, others>>

----------------------------------------------------------------------------
(* The durable steps, one action per kind of effect.                        *)
Current == Head(todo)
Performs(op) == Running /\ todo # <<>> /\ Current.op = op

PublishView ==
  /\ Performs("view")
  /\ view' = Current.view /\ todo' = Tail(todo)
  /\ UNCHANGED <<run, reader, workflow, commands, body, others>>

AbortBody ==
  /\ Performs("abort")
  /\ body' = [body EXCEPT !.aborted = TRUE] /\ todo' = Tail(todo)
  /\ UNCHANGED <<run, reader, workflow, commands, view, others>>

(* A step can fail after the stream, or the parent's inbox, has what it     *)
(* writes: it is run again.                                                 *)
DoneOrAgain ==
  \/ todo' = Tail(todo) /\ UNCHANGED retries
  \/ retries < MaxRetries /\ retries' = retries + 1 /\ UNCHANGED todo

AppendProgress ==
  /\ Performs("progress")
  /\ progress' = Append(progress, Current.d) /\ DoneOrAgain
  /\ UNCHANGED <<task, run, reader, workflow, commands, view, body, parent,
                 cancel, inbox, told, proxied>>

WakeParent ==
  /\ Performs("wake")
  /\ inbox' = Append(inbox, Current.d) /\ DoneOrAgain
  /\ UNCHANGED <<task, run, reader, workflow, commands, view, progress, body,
                 parent, cancel, told, proxied>>

(* deliverTaskInputResponsesStep and the command it resolves to.  The hook  *)
(* of a body's own question lives as long as the run; an agent may be gone. *)
DeliverAnswer ==
  /\ Performs("answer")
  /\ LET q == Current.d.n
         a == ApplyCommand(run, [kind |-> "answered", q |-> q])
     IN /\ run' = a.run /\ todo' = a.steps
        /\ body' = [body EXCEPT !.answered = @ \cup {q}]
  /\ UNCHANGED <<reader, workflow, commands, view, others>>

\* Wrong variant: an answer nobody received settles the question.
AnswerLost ==
  /\ Performs("answer") /\ task.agent
  /\ LET a == ApplyCommand(run, [kind |-> "answered", q |-> Current.d.n])
     IN run' = a.run /\ todo' = a.steps
  /\ UNCHANGED <<reader, workflow, commands, view, body, others>>
AnswerUnreachable ==
  /\ Performs("answer") /\ task.agent
  /\ todo' = <<>>
  /\ UNCHANGED <<run, reader, workflow, commands, view, body, others>>

RunStep ==
  \/ SettleBody \/ Finish \/ Arm \/ (\E c \in Channels : Land(c))
  \/ ClaimBody \/ ClaimWorkflow \/ ClaimCommand
  \/ PublishView \/ AbortBody \/ AppendProgress \/ WakeParent
  \/ DeliverAnswer \/ AnswerUnreachable

----------------------------------------------------------------------------
(* executeWorkflowBody: authored code, so any of these in any order.  It    *)
(* lives inside the run.  Its own yields are counted, an agent's reports    *)
(* and its requests to the owner (agent-invoke, agent-settled) are not.     *)
Executing == Running /\ body.pc = "running"
bodyOthers == <<task, run, todo, reader, commands, view, progress, parent,
                cancel, inbox, told, proxied, retries>>
Unanswered == {q \in 1..body.asked : q \notin body.answered}
\* An agent speaks once the parent session has been asked to start it.
AgentSpeaks ==
  task.agent => /\ body.owned = 1
                /\ \E i \in DOMAIN told : told[i] = wakeTaskOwnerRequestParent(1)

(* resumeHookStep: what the body sends is in the hook before its step       *)
(* returns, and the step may run once more until then.  A yield and an      *)
(* agent's messages are awaited; ask is not, so its step may still run when *)
(* the body has gone on, or has returned.                                   *)
Sends(m, b) ==
  /\ workflow' = Append(workflow, m)
  /\ body' = [b EXCEPT !.flight =
                {f \in @ : ~task.agent /\ (f.kind = "ask" \/ m.kind = "ask")} \cup {m}]
Unawaited(flight) == {f \in flight : ~task.agent /\ f.kind = "ask"}

BodyReports ==
  /\ Executing /\ body.sent < task.reports
  /\ AgentSpeaks
  /\ \E kind \in IF task.agent THEN {"update"} ELSE {"update", "message"} :
       Sends([kind |-> kind, n |-> body.sent + 1],
             [body EXCEPT !.sent = @ + 1, !.yields = IF task.agent THEN @ ELSE @ + 1])
  /\ UNCHANGED bodyOthers

(* ask, or an agent's input request forwarded by invokeAgent.  An agent     *)
(* parks on its question; a body may ask again before the answer.           *)
BodyAsks ==
  /\ Executing /\ body.asked < task.asks
  /\ task.agent => Unanswered = {}
  /\ AgentSpeaks
  /\ Sends([kind |-> "ask", n |-> body.asked + 1], [body EXCEPT !.asked = @ + 1])
  /\ UNCHANGED bodyOthers

(* invokeAgent: agent-invoke first, agent-settled when the agent replied.   *)
BodyOwnerRequest ==
  /\ Executing /\ task.agent /\ body.owned < 2
  /\ body.owned = 1 => AgentSpeaks /\ ~body.aborted
  /\ Sends([kind |-> "owner", n |-> body.owned + 1], [body EXCEPT !.owned = @ + 1])
  /\ UNCHANGED bodyOthers

(* The run counts a repeated report like any other (again is history).      *)
BodyResends ==
  /\ Running /\ retries < MaxRetries /\ retries' = retries + 1
  /\ \E m \in body.flight :
       /\ workflow' = Append(workflow, m)
       /\ body' = [body EXCEPT !.again = IF m.kind \in {"update", "message"} THEN @ + 1 ELSE @]
  /\ UNCHANGED <<task, run, todo, reader, commands, view, progress, parent, cancel, inbox, told,
                 proxied>>

BodyReturns ==
  /\ Executing
  /\ task.agent => body.owned = 2
  /\ \E kind \in {"complete", "fail"} :
       body' = [body EXCEPT !.pc = "returned", !.flight = Unawaited(@),
                            !.result = [kind |-> kind, reports |-> body.yields]]
  /\ UNCHANGED <<workflow, bodyOthers>>

BodyThrows ==
  /\ Executing
  /\ body' = [body EXCEPT !.pc = "returned", !.flight = Unawaited(@),
                 !.result = [kind |-> IF body.aborted THEN "cancel" ELSE "fail",
                             reports |-> body.yields]]
  /\ UNCHANGED <<workflow, bodyOthers>>

BodyStep ==
  BodyReports \/ BodyAsks \/ BodyOwnerRequest \/ BodyResends \/ BodyReturns \/ BodyThrows

----------------------------------------------------------------------------
(* The parent's step (tool-execution.ts): a workflow task's record settles  *)
(* as soon as its run has started; an ordinary tool reports and completes   *)
(* through the task inbox, before the step ends.                            *)
parentOthers == <<task, run, todo, reader, workflow, view, progress, body,
                  told, proxied>>
sendTaskCommand(kind, n) == commands' = Append(commands, [kind |-> kind, n |-> n])

ToolReports ==
  /\ Running /\ parent.pc = "step" /\ ~parent.settled /\ parent.sent < task.reports
  /\ \E kind \in {"update", "message"} : sendTaskCommand(kind, parent.sent + 1)
  /\ parent' = [parent EXCEPT !.sent = @ + 1]
  /\ UNCHANGED <<parentOthers, cancel, inbox, retries>>

ToolCompletes ==
  /\ Running /\ parent.pc = "step" /\ ~parent.settled
  /\ sendTaskCommand("complete", 0)
  /\ parent' = [parent EXCEPT !.settled = TRUE]
  /\ UNCHANGED <<parentOthers, cancel, inbox, retries>>

(* commit, and rollback of a cancelled turn: settled records are kept (they *)
(* are indexed with the step's session), the others compensated.            *)
StepCommits ==
  /\ parent.pc = "step"
  /\ parent' = [parent EXCEPT !.pc = IF parent.settled THEN "indexed" ELSE "rejected"]
  /\ IF parent.settled THEN UNCHANGED commands ELSE sendTaskCommand("reject-dispatch", 0)
  /\ UNCHANGED <<parentOthers, cancel, inbox, retries>>

(* rollback of a failed step: every record is compensated.                  *)
StepFails ==
  /\ parent.pc = "step"
  /\ parent' = [parent EXCEPT !.pc = "rejected"]
  /\ sendTaskCommand("reject-dispatch", 0)
  /\ UNCHANGED <<parentOthers, cancel, inbox, retries>>

(* A durable step, hence retried: the run can be told twice that the parent *)
(* is ready.  A run that is gone has ended, which is as good.               *)
acknowledgeDelegatedTasksStep ==
  /\ parent.pc = "indexed"
  /\ IF Running THEN sendTaskCommand("ready", 0) ELSE UNCHANGED commands
  /\ \/ parent' = [parent EXCEPT !.pc = "acked"] /\ UNCHANGED retries
     \/ retries < MaxRetries /\ retries' = retries + 1 /\ UNCHANGED parent
  /\ UNCHANGED <<parentOthers, cancel, inbox>>

(* The parent session takes a delivery: duplicates by id are dropped        *)
(* (acceptTaskDelivery); a question is shown if the run's view still asks   *)
(* it (recordTaskInputRequestStep).                                         *)
\* Wrong variant: the ids of earlier deliveries are forgotten.
NoneSeen == {}
Seen == {taskDeliveryId(told[i]) : i \in DOMAIN told}
ParentReceives ==
  /\ inbox # <<>>
  /\ LET d == Head(inbox)
         fresh == taskDeliveryId(d) \notin Seen
     IN /\ told' = IF fresh THEN Append(told, d) ELSE told
        /\ proxied' = IF fresh /\ d.kind = "input" /\ view.status = "input_required"
                            /\ view.requests = {d.src}
                       THEN proxied \cup {d.src} ELSE proxied
  /\ inbox' = Tail(inbox)
  /\ UNCHANGED <<task, run, todo, reader, workflow, commands, view, progress,
                 body, parent, cancel, retries>>

(* routeProxiedDeliverStep: the answer goes through the task; when the task *)
(* has ended it stays with the parent, and so does the route.               *)
UserAnswers(q) ==
  /\ q \in proxied /\ Running
  /\ sendTaskCommand("answer", q)
  /\ proxied' = proxied \ {q}
  /\ UNCHANGED <<task, run, todo, reader, workflow, view, progress, body,
                 parent, cancel, inbox, told, retries>>

----------------------------------------------------------------------------
(* cancelOwnedTask (dispatch.ts) and cancelTaskOwnedWork (task-cancel.ts),  *)
(* inside a durable step.                                                   *)
cancelOthers == <<task, todo, reader, workflow, view, progress, body, parent,
                  told, proxied>>

CancelSends ==
  /\ parent.pc = "acked" /\ cancel.pc \in {"idle", "returned", "threw"}
  /\ cancel.calls < MaxCancels
  /\ cancel' = [pc |-> "sent", calls |-> cancel.calls + 1,
                delivery |-> IF Running THEN "delivered" ELSE "unreachable"]
  /\ IF Running THEN sendTaskCommand("cancel", 0) ELSE UNCHANGED commands
  /\ UNCHANGED <<cancelOthers, run, inbox, retries>>

CancelSees ==
  /\ cancel.pc = "sent" /\ isTerminalTaskStatus(view.status)
  /\ cancel' = [cancel EXCEPT !.pc = IF view.status = "cancelled"
                                     THEN "stopping" ELSE "returned"]
  /\ UNCHANGED <<cancelOthers, run, commands, inbox, retries>>

CancelTimesOut ==
  /\ cancel.pc = "sent" /\ ~isTerminalTaskStatus(view.status)
  /\ cancel' = [cancel EXCEPT !.pc = "threw"]
  /\ UNCHANGED <<cancelOthers, run, commands, inbox, retries>>

(* The run ends by itself within the grace period, or is stopped.           *)
(* Wrong variant: whoever stops the run leaves the notice to it.            *)
StopsSilently(forced) ==
  /\ cancel.pc = "stopping"
  /\ forced \/ ~Running
  /\ run' = IF Running THEN [run EXCEPT !.phase = "killed"] ELSE run
  /\ cancel' = [cancel EXCEPT !.pc = IF cancel.delivery = "unreachable"
                                     THEN "waking" ELSE "returned"]
  /\ UNCHANGED <<cancelOthers, commands, inbox, retries>>
CancelStops(forced) ==
  /\ cancel.pc = "stopping"
  /\ forced \/ ~Running
  /\ run' = IF Running THEN [run EXCEPT !.phase = "killed"] ELSE run
  /\ cancel' = [cancel EXCEPT !.pc = IF forced \/ cancel.delivery = "unreachable"
                                     THEN "waking" ELSE "returned"]
  /\ UNCHANGED <<cancelOthers, commands, inbox, retries>>

CancelWakes ==
  /\ cancel.pc = "waking"
  /\ inbox' = Append(inbox, wakeTaskParentStep("cancelled"))
  /\ cancel' = [cancel EXCEPT !.pc = "returned"]
  /\ UNCHANGED <<cancelOthers, run, commands, retries>>

(* The step crashes and starts over.                                        *)
CancelCrashes ==
  /\ cancel.pc \in {"sent", "stopping", "waking"} /\ retries < MaxRetries
  /\ retries' = retries + 1
  /\ cancel' = [cancel EXCEPT !.pc = "sent",
                   !.delivery = IF Running THEN "delivered" ELSE "unreachable"]
  /\ IF Running THEN sendTaskCommand("cancel", 0) ELSE UNCHANGED commands
  /\ UNCHANGED <<cancelOthers, run, inbox>>

CancelProceeds ==
  \/ CancelSees \/ CancelTimesOut \/ CancelWakes
  \/ \E forced \in BOOLEAN : CancelStops(forced)

ParentStep ==
  \/ ToolReports \/ ToolCompletes \/ StepCommits \/ StepFails
  \/ acknowledgeDelegatedTasksStep \/ ParentReceives
  \/ \E q \in proxied : UserAnswers(q)
  \/ CancelSends \/ CancelProceeds \/ CancelCrashes

----------------------------------------------------------------------------
Init ==
  /\ task \in Tasks
  /\ run = [phase |-> "running", status |-> "working", requests |-> {},
            acked |-> FALSE, rejected |-> FALSE, settled |-> ~task.workflow,
            reading |-> FALSE, result |-> NoResult, index |-> 0, ask |-> 0,
            updates |-> <<>>, messages |-> <<>>, owners |-> <<>>]
  /\ todo = <<appendTaskViewStep(run)>>
  /\ reader = [c \in Channels |-> "idle"]
  /\ workflow = <<>> /\ commands = <<>> /\ progress = <<>>
  /\ view = [status |-> "working", requests |-> {}]
  /\ body = [pc |-> "none", starts |-> 0, sent |-> 0, yields |-> 0, owned |-> 0,
             asked |-> 0, answered |-> {}, aborted |-> FALSE, result |-> NoResult,
             flight |-> {}, again |-> 0]
  /\ parent = [pc |-> "step", settled |-> task.workflow, sent |-> 0]
  /\ cancel = [pc |-> "idle", calls |-> 0, delivery |-> "none"]
  /\ inbox = <<>> /\ told = <<>> /\ proxied = {} /\ retries = 0

Next == RunStep \/ BodyStep \/ ParentStep

(* The engine runs durable steps to their end and delivers what is queued.  *)
(* Nobody is obliged to report, answer or cancel, no body to return.        *)
Fairness ==
  /\ WF_vars(RunStep)
  /\ WF_vars(StepCommits \/ StepFails) /\ WF_vars(acknowledgeDelegatedTasksStep)
  /\ WF_vars(ParentReceives) /\ WF_vars(CancelProceeds)

Spec == Init /\ [][Next]_vars
FairSpec == Spec /\ Fairness

----------------------------------------------------------------------------
(* Properties.                                                              *)
Delivery == [kind : TerminalStatuses \cup {"update", "message", "owner", "input", "answer", "none"},
             n : Nat, src : Nat]
View == [status : Statuses, requests : SUBSET Nat]
Report == [n : Nat, index : Nat]
Result == [kind : {"none", "complete", "fail", "cancel"}, reports : Nat]
CommandKinds == {"ready", "reject-dispatch", "cancel", "complete", "update",
                 "message", "answer"}

RunState ==
  [phase : {"running", "finished", "killed"}, status : Statuses, requests : SUBSET Nat,
   acked : BOOLEAN, rejected : BOOLEAN, settled : BOOLEAN, reading : BOOLEAN,
   result : Result, index : Nat, ask : Nat, updates : Seq(Report),
   messages : Seq(Report), owners : Seq(Nat)]
DurableStep ==
  [op : {"view", "abort", "progress", "wake", "answer"}, d : Delivery, view : View]

Message == [kind : {"update", "message", "owner", "ask"}, n : Nat \ {0}]
BodyState ==
  [pc : {"none", "running", "returned"}, starts : Nat, sent : Nat, yields : Nat,
   owned : 0..2, asked : Nat, answered : SUBSET Nat, aborted : BOOLEAN, result : Result,
   flight : SUBSET Message, again : Nat]

\* The type of every variable.
TypeOK ==
  /\ task \in Tasks /\ run \in RunState /\ todo \in Seq(DurableStep)
  /\ reader \in [Channels -> {"idle", "pending", "landed"}]
  /\ workflow \in Seq(Message)
  /\ commands \in Seq([kind : CommandKinds, n : Nat])
  /\ view \in View /\ progress \in Seq(Delivery)
  /\ body \in BodyState
  /\ parent \in [pc : {"step", "indexed", "acked", "rejected"}, settled : BOOLEAN,
                 sent : Nat]
  /\ cancel \in [pc : {"idle", "sent", "stopping", "waking", "returned", "threw"},
                 calls : Nat, delivery : {"none", "delivered", "unreachable"}]
  /\ inbox \in Seq(Delivery) /\ told \in Seq(Delivery)
  /\ proxied \subseteq Nat /\ retries \in Nat

Delivered == Range(inbox) \cup Range(told)
Ends == {d \in Delivered : IsEnd(d)}

\* Nothing a task says reaches the parent session before its step has indexed
\* the task, and nothing ever does when the dispatch was rejected: the wake
\* steps wait for "ready" however the tool's reports, its completion, the
\* commit and the acknowledgement interleave (delegate.ts:81,104).
SilentUntilIndexed == Delivered # {} => parent.pc \in {"indexed", "acked"}

\* The parent hears the end once and nothing of the task after it, whatever
\* steps are retried and whoever sends the last wake (child/steps.ts:126).
EndIsLast == \A i \in DOMAIN told : IsEnd(told[i]) => i = Len(told)

\* A task without an agent: when the parent is told that it completed, the reports
\* the executor made have been handed over from the first on, in order, messages to
\* the parent and updates to the progress stream, and all of them if no sending step
\* of the body ran again.  The result of a body overtakes its last reports in the
\* race of the channels; reportCount holds it back.  But the run counts what it
\* receives: each repeated report makes the result due one report early, and costs
\* at most that one (child/workflow.ts:108, 137).
HandedOver(kind, s) == {s[i].src : i \in {j \in DOMAIN s : s[j].kind = kind}}
Ordered(kind, s) ==
  \A i, j \in DOMAIN s : i < j /\ s[i].kind = kind /\ s[j].kind = kind => s[i].src <= s[j].src
Spoken == body.sent + parent.sent
ReportsBeforeEnd ==
  ~task.agent =>
    /\ wakeTaskParentStep("completed") \in Range(told) =>
         \E k \in 0..Spoken :
           /\ HandedOver("message", told) \cup HandedOver("update", progress) = 1..k
           /\ k + body.again >= Spoken
    /\ Ordered("message", told) /\ Ordered("update", progress)

\* The body runs at most once, however often the acknowledging step is retried,
\* and never for a dispatch the parent rejected.
BodyRunsOnce == body.starts <= 1 /\ (parent.pc = "rejected" => body.starts = 0)

\* When cancelOwnedTask has returned with the task cancelled, the parent session has been told of the
\* end: by the run as it unwound, or by the caller when it had to stop the run
\* or found its inbox closed (dispatch.ts:154).
CancelIsTold == cancel.pc = "returned" /\ view.status = "cancelled" => Ends # {}

\* The view leaves input_required only for an end or for an answer that the
\* asking executor has: a working task waits for nobody.
WorkingMeansAnswered ==
  view.status = "working" /\ todo = <<>> /\ run.phase # "killed"
     => \A q \in 1..body.asked :
          q \in body.answered \/ [kind |-> "ask", n |-> q] \in Range(workflow)

\* A question asked is answerable: when nothing is on its way any more, every
\* question the executor still waits for is shown to the user or the run is
\* over.  (docs/tools/workflows.mdx: "It stays answerable until it is answered
\* or the run ends.")
AllQuiet == /\ todo = <<>> /\ inbox = <<>> /\ workflow = <<>> /\ commands = <<>>
QuestionAnswerable ==
  AllQuiet /\ Executing /\ ~isTerminalTaskStatus(run.status)
     => \A q \in Unanswered : q \in proxied \/ task.agent

\* The run, its body and the parent's step together are a task as
\* TaskLifecycle describes it: whatever is retried, raced, cancelled or stopped,
\* the published status moves only until it is terminal, and the parent hears
\* of the end once, as published, and only of a task it has indexed.
HeardEnd == {told[i].kind : i \in {j \in DOMAIN told : IsEnd(told[j])}}
Lifecycle == INSTANCE TaskLifecycle WITH
  dispatch <- CASE parent.pc = "step" -> "pending"
                [] parent.pc = "rejected" -> "rejected"
                [] OTHER -> "accepted",
  status <- view.status,
  heard <- IF HeardEnd = {} THEN "none" ELSE CHOOSE s \in HeardEnd : TRUE
ImplementsLifecycle == Lifecycle!Spec

\* A task whose executor is done, or whose dispatch was rejected, settles: its
\* run is not left behind waiting for an acknowledgement, a body or a result,
\* and the session that indexed it hears of the end.
ExecutorDone == body.pc = "returned" \/ (~task.workflow /\ parent.settled)
TaskSettles ==
  (ExecutorDone \/ parent.pc = "rejected")
    ~> (~Running /\ (parent.pc = "rejected" \/ HeardEnd # {}))
=============================================================================
