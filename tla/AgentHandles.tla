---------------------------- MODULE AgentHandles ----------------------------
(***************************************************************************)
(* The store of delegated agents in a session's state                      *)
(* (subagents/handles) and everybody who changes it: the tool calls of a   *)
(* step that start or steer background subagents                           *)
(* (execution/tasks/parent/tool-execution.ts), workflow tool runs of a     *)
(* turn (turn-workflow-tool-run.ts), and the driver, which applies what    *)
(* background tasks send while the session is parked                       *)
(* (route-child-delivery.ts).                                              *)
(*                                                                         *)
(* A step works on a copy of the session state and returns it.  The driver *)
(* keeps its own copy in a cursor; a turn that ran elsewhere returns a     *)
(* state that is merged with it (workflow-entry.ts runTurn).               *)
(*                                                                         *)
(* An owner is a background task or a workflow tool run; a lease names its *)
(* owner and the call it is for.  The phases starting and running have no  *)
(* production caller any more and are left out.  Names and targets of      *)
(* agents always match.                                                    *)
(***************************************************************************)
EXTENDS Naturals, Sequences, FiniteSets

CONSTANTS
  Agents,      \* agent ids
  Tasks,       \* ids of background subagent tasks
  Runs,        \* ids of workflow tool runs
  Nobody,      \* no owner
  Slots,       \* the background tool calls of one step, run concurrently
  MaxTurns,    \* bound: turns
  MaxSteps,    \* bound: steps of a turn
  MaxCalls     \* bound: agents one workflow tool run invokes

ASSUME HandleConstants ==
  /\ Agents # {} /\ Tasks # {}
  /\ Nobody \notin Tasks \cup Runs /\ Tasks \cap Runs = {}
  /\ MaxTurns \in Nat /\ MaxSteps \in Nat /\ MaxCalls \in Nat

VARIABLES
  cursor,    \* the driver's SessionStateCursor
  base,      \* dispatchedSessionState
  mine,      \* the state the turn works on
  turn,      \* where the turn is
  scope,     \* BackgroundToolExecutionScope of the step in progress
  tasks,     \* the background tasks
  calls,     \* calls[r]: agents run r has asked for
  mail,      \* what tasks sent, not applied yet: the driver's inbox and buffer
  used       \* agent and task ids minted so far

vars == <<cursor, base, mine, turn, scope, tasks, calls, mail, used>>

----------------------------------------------------------------------------
(* Handles and owner leases: applyAgentHandleStoreCommand and               *)
(* abandonAgentInvocationOwners (transitions.ts).  H is a store.            *)
Owners == Tasks \cup Runs
Handle(phase, owner, call) == [phase |-> phase, owner |-> owner, call |-> call]
Absent == Handle("absent", Nobody, 0)
Available == Handle("available", Nobody, 0)
Parked == Handle("parked", Nobody, 0)
Free(h) == h \in {Available, Parked}
LeasedTo(h, o) == h.phase \in {"reserved", "claimed"} /\ h.owner = o

reserve(H, a, o, c) == [H EXCEPT ![a] = Handle("reserved", o, c)]
confirm(H, a) == [H EXCEPT ![a].phase = "claimed"]
claim(H, a, o, c) == IF Free(H[a]) THEN [H EXCEPT ![a] = Handle("claimed", o, c)] ELSE H
remove(H, a, o) == IF H[a].phase = "claimed" /\ H[a].owner # o THEN H
                   ELSE [H EXCEPT ![a] = Absent]

Released(H, os, idle) ==
  [a \in Agents |-> CASE H[a].owner \in os /\ H[a].phase = "reserved" -> Absent
                      [] H[a].owner \in os /\ H[a].phase = "claimed" -> idle
                      [] OTHER -> H[a]]
\* Wrong variant: only what the owner reserved is released.
ReleasesReservations(H, o) ==
  [a \in Agents |-> IF H[a] = Handle("reserved", o, H[a].call) THEN Absent ELSE H[a]]
releaseOwner(H, o) == Released(H, {o}, Available)
abandonAgentInvocationOwners(H, os) == Released(H, os, Parked)

(* settleTaskAgentInvocationStep: the claim of that call, else the owner's  *)
(* only claim, is given up; the agent is gone, idle, or was cancelled.      *)
Claims(H, o) == {a \in Agents : H[a].phase = "claimed" /\ H[a].owner = o}
SettledHandle(outcome) ==
  CASE outcome = "terminal" -> Absent [] outcome = "cancelled" -> Parked [] OTHER -> Available
settleTaskAgentInvocation(H, o, c, outcome) ==
  LET exact == {a \in Claims(H, o) : H[a].call = c}
      settled == IF exact # {} THEN exact
                 ELSE IF Cardinality(Claims(H, o)) = 1 THEN Claims(H, o) ELSE {}
  IN IF settled = {} THEN H
     ELSE [H EXCEPT ![CHOOSE a \in settled : TRUE] = SettledHandle(outcome)]
Outcomes == {"parked", "terminal", "cancelled"}

(* dispatchAgentInvocation: the stores it can return.  An agent that is     *)
(* known is resumed under the owner's claim, a new one started under its    *)
(* reservation; a lost address or a failed start removes the handle, a      *)
(* delivery that may be tried again keeps the claim.                        *)
dispatchAgentInvocation(H, a, o, c) ==
  LET fresh == H[a] = Absent \/ H[a] = Handle("reserved", o, c)
      reserved == reserve(H, a, o, c)
      claimed == claim(H, a, o, c)
  IN IF fresh THEN {confirm(reserved, a), remove(reserved, a, o)}
     ELSE IF claimed[a] = Handle("claimed", o, c) THEN {claimed, remove(claimed, a, o)}
     ELSE {H}

(* mergeTaskOwnedAgentHandlesIntoTurnState.                                 *)
Mutated(b, d) == {a \in Agents : b[a] # d[a]}
Conflicts(b, d, t) ==
  {a \in Mutated(b, d) : t[a] # Absent /\ t[a] # b[a] /\ t[a] # d[a]}
mergeTaskOwnedAgentHandlesIntoTurnState(b, d, t) ==
  [a \in Agents |-> IF a \in Mutated(b, d) THEN d[a] ELSE t[a]]

----------------------------------------------------------------------------
(* A step's background tool calls.                                          *)
Idle == [pc |-> "idle", task |-> Nobody, agent |-> Nobody, old |-> Nobody]
NoSession == [handles |-> [a \in Agents |-> Absent], index |-> {}, runs |-> {}]
NoScope == [on |-> FALSE, store |-> [a \in Agents |-> Absent],
            calls |-> [k \in Slots |-> Idle]]
CallsOf(pc) == {k \in Slots : scope.calls[k].pc = pc}
Between(pc, n) == [pc |-> pc, n |-> n, steps |-> 0, cancelled |-> FALSE]
Stepping == turn.pc \in {"inline", "run"}

BeginStep ==
  /\ Stepping /\ ~scope.on /\ turn.steps < MaxSteps
  /\ scope' = [NoScope EXCEPT !.on = TRUE, !.store = mine.handles]
  /\ turn' = [turn EXCEPT !.steps = @ + 1]
  /\ UNCHANGED <<cursor, base, mine, tasks, calls, mail, used>>

SetCall(k, pc, t, a, old) ==
  [scope EXCEPT !.calls[k] = [pc |-> pc, task |-> t, agent |-> a, old |-> old]]
(* Ids are minted and a tool call is any of the calls not made yet: which   *)
(* one is of no account.                                                    *)
Fresh(S) == CHOOSE x \in S : TRUE
Mints(t, S) == S \ used # {} /\ t = Fresh(S \ used)
Calls(k) == scope.on /\ scope.calls[k] = Idle /\ k = Fresh(CallsOf("idle"))
steeringFree(a) == \A j \in Slots :
  ~(scope.calls[j].pc = "steering" /\ scope.calls[j].agent = a)

(* startTask: a new agent is reserved; a known one claimed, if need be by   *)
(* cancelling the task that has it (claimAgentForSteering).                 *)
CallStartsFresh(k, t, a) ==
  /\ Calls(k) /\ Mints(t, Tasks) /\ Mints(a, Agents)
  /\ scope' = [SetCall(k, "starting", t, a, Nobody) EXCEPT
                 !.store = reserve(scope.store, a, t, 1)]
  /\ used' = used \cup {t, a}
  /\ UNCHANGED <<cursor, base, mine, turn, tasks, calls, mail>>

CallResumes(k, t, a) ==
  /\ Calls(k) /\ Mints(t, Tasks) /\ scope.store[a] # Absent
  /\ LET h == scope.store[a]
         steers == h.phase = "claimed" /\ h.owner \in mine.index /\ steeringFree(a)
     IN scope' = IF Free(h)
                   THEN [SetCall(k, "claimed", t, a, Nobody) EXCEPT
                           !.store = claim(scope.store, a, t, 1)]
                 ELSE SetCall(k, IF steers THEN "steering" ELSE "failed", t, a, h.owner)
  /\ used' = used \cup {t}
  /\ UNCHANGED <<cursor, base, mine, turn, tasks, calls, mail>>

(* cancelOwnedTask has returned: the old task is over and has told the      *)
(* session; its lease is given up in the store as it is now.                *)
Ended(t) == [tasks EXCEPT ![t].pc = "ended"]
Told(t) == IF tasks[t].pc = "working"
             THEN Append(mail, [kind |-> "view", task |-> t, outcome |-> "none"]) ELSE mail
\* Wrong variant: the store read before the cancellation is written back.
CallSteersStale(k) ==
  /\ scope.calls[k].pc = "steering"
  /\ LET c == scope.calls[k]
         after == claim(releaseOwner(mine.handles, c.old), c.agent, c.task, 1)
     IN /\ scope' = [SetCall(k, IF LeasedTo(after[c.agent], c.task) THEN "claimed" ELSE "failed",
                             c.task, c.agent, Nobody) EXCEPT !.store = after]
        /\ tasks' = Ended(c.old) /\ mail' = Told(c.old)
  /\ UNCHANGED <<cursor, base, mine, turn, calls, used>>
CallSteers(k) ==
  /\ scope.calls[k].pc = "steering"
  /\ LET c == scope.calls[k]
         after == claim(releaseOwner(scope.store, c.old), c.agent, c.task, 1)
     IN /\ scope' = [SetCall(k, IF LeasedTo(after[c.agent], c.task) THEN "claimed" ELSE "failed",
                             c.task, c.agent, Nobody) EXCEPT !.store = after]
        /\ tasks' = Ended(c.old) /\ mail' = Told(c.old)
  /\ UNCHANGED <<cursor, base, mine, turn, calls, used>>

CallSteeringThrows(k) ==
  /\ scope.calls[k].pc = "steering"
  /\ scope' = [scope EXCEPT !.calls[k].pc = "failed"]
  /\ UNCHANGED <<cursor, base, mine, turn, tasks, calls, mail, used>>

RunStarts(k) ==
  /\ scope.calls[k].pc \in {"starting", "claimed"}
  /\ scope' = [scope EXCEPT !.calls[k].pc = "settled"]
  /\ tasks' = [tasks EXCEPT ![scope.calls[k].task] =
                 [pc |-> "working", agent |-> scope.calls[k].agent, invoked |-> FALSE]]
  /\ UNCHANGED <<cursor, base, mine, turn, calls, mail, used>>

(* The start throws before the record has its task: compensate gives up a   *)
(* claim, but not a reservation.                                            *)
RunStartThrows(k) ==
  /\ scope.calls[k].pc \in {"starting", "claimed"}
  /\ scope' = [scope EXCEPT
       !.calls[k].pc = IF @ = "starting" THEN "failed" ELSE "unclaimed"]
  /\ UNCHANGED <<cursor, base, mine, turn, tasks, calls, mail, used>>

----------------------------------------------------------------------------
(* commit, and rollback of a cancelled step: incomplete records are         *)
(* compensated, started tasks indexed.                                      *)
StepDone == scope.on /\ CallsOf("starting") \cup CallsOf("claimed") \cup CallsOf("steering") = {}
NewTasks == {scope.calls[k].task : k \in CallsOf("settled")}
Unclaimed == {scope.calls[k].task : k \in CallsOf("unclaimed")}
\* Wrong variant: started tasks are not indexed.
CommittedUnindexed ==
  [mine EXCEPT !.handles = Released(scope.store, Unclaimed, Available)]
Committed ==
  [mine EXCEPT !.handles = Released(scope.store, Unclaimed, Available),
               !.index = @ \cup NewTasks]

EndsStep(pc, c) ==
  /\ scope' = NoScope
  /\ turn' = [turn EXCEPT !.pc = pc, !.cancelled = c]
  /\ UNCHANGED <<base, tasks, calls, mail, used>>

(* inline-turn.ts: only a step that goes on by itself moves the driver's    *)
(* cursor; everything else is the turn's result or is handed to a turn run  *)
(* together with the step.                                                  *)
InlineContinues ==
  /\ StepDone /\ turn.pc = "inline" /\ NewTasks = {}
  /\ cursor' = Committed /\ mine' = Committed
  /\ EndsStep("inline", FALSE)

InlineHandsOver ==
  /\ StepDone /\ turn.pc = "inline" /\ NewTasks # {}
  /\ mine' = Committed /\ UNCHANGED cursor
  /\ EndsStep("run", FALSE)

RunContinues ==
  /\ StepDone /\ turn.pc = "run"
  /\ mine' = Committed /\ UNCHANGED cursor
  /\ EndsStep("run", FALSE)

StepSettles(cancelled) ==
  /\ StepDone
  /\ mine' = Committed /\ UNCHANGED cursor
  /\ EndsStep("result", cancelled)

(* An inline step that reached another deployment is deferred: the turn is  *)
(* dispatched anew, from the state it was first dispatched with.            *)
InlineDefers ==
  /\ turn.pc = "inline" /\ ~scope.on
  /\ mine' = base
  /\ turn' = [turn EXCEPT !.pc = "run"]
  /\ UNCHANGED <<cursor, base, scope, tasks, calls, mail, used>>

(* Workflow tool runs: dispatched by a step, read by the waiting turn.      *)
DispatchRuns(rs) ==
  /\ StepDone /\ rs # {} /\ rs \cap (cursor.runs \cup mine.runs) = {} /\ \A r \in rs : calls[r] = {}
  /\ mine' = [Committed EXCEPT !.runs = rs] /\ UNCHANGED cursor
  /\ EndsStep("wait", FALSE)

others == <<cursor, base, scope, tasks, mail>>
handleWorkflowToolRunRequest(r, a) ==
  /\ turn.pc = "wait" /\ r \in mine.runs /\ Cardinality(calls[r]) < MaxCalls
  /\ mine.handles[a] # Absent \/ Mints(a, Agents)
  /\ \E H \in dispatchAgentInvocation(mine.handles, a, r, Cardinality(calls[r]) + 1) :
       mine' = [mine EXCEPT !.handles = H]
  /\ calls' = [calls EXCEPT ![r] = @ \cup {Cardinality(@) + 1}]
  /\ used' = used \cup {a}
  /\ UNCHANGED <<turn, others>>

SettleRunInvocation(r, c, outcome) ==
  /\ turn.pc = "wait" /\ r \in mine.runs /\ c \in calls[r]
  /\ mine' = [mine EXCEPT !.handles = settleTaskAgentInvocation(@, r, c, outcome)]
  /\ UNCHANGED <<turn, calls, used, others>>

handleWorkflowToolRunOutcome(r, cancelled) ==
  /\ turn.pc = "wait" /\ r \in mine.runs
  /\ mine' = [mine EXCEPT !.runs = @ \ {r},
       !.handles = IF cancelled THEN abandonAgentInvocationOwners(@, {r}) ELSE releaseOwner(@, r)]
  /\ turn' = [turn EXCEPT !.pc = IF mine'.runs = {} THEN "run" ELSE "wait"]
  /\ UNCHANGED <<calls, used, others>>

WaitCancelled ==
  /\ turn.pc = "wait"
  /\ turn' = [turn EXCEPT !.pc = "result", !.cancelled = TRUE]
  /\ UNCHANGED <<mine, calls, used, others>>

----------------------------------------------------------------------------
(* runTurn: dispatch, and what the driver makes of the result.              *)
RunTurn(inline) ==
  /\ turn.pc = "parked" /\ turn.n < MaxTurns
  /\ base' = cursor /\ mine' = cursor
  /\ turn' = Between(IF inline THEN "inline" ELSE "run", turn.n + 1)
  /\ UNCHANGED <<cursor, scope, tasks, calls, mail, used>>

\* A turn with no step left to take returns its state.
TurnEnds ==
  /\ Stepping /\ ~scope.on /\ turn.steps = MaxSteps
  /\ turn' = [turn EXCEPT !.pc = "result"]
  /\ UNCHANGED <<cursor, base, mine, scope, tasks, calls, mail, used>>

rebaseTaskAgentHandleMutations ==
  /\ turn.pc = "result"
  /\ IF Conflicts(base.handles, cursor.handles, mine.handles) # {}
       THEN turn' = [turn EXCEPT !.pc = "crashed"] /\ UNCHANGED cursor
     ELSE /\ cursor' = [mine EXCEPT !.handles = mergeTaskOwnedAgentHandlesIntoTurnState(
                                         base.handles, cursor.handles, mine.handles)]
          /\ turn' = Between(IF turn.cancelled THEN "settling" ELSE "parked", turn.n)
  /\ base' = NoSession /\ mine' = NoSession
  /\ UNCHANGED <<scope, tasks, calls, mail, used>>

\* Wrong variant: runs are forgotten before their leases are looked up.
SettleForgetsRuns ==
  /\ turn.pc = "settling"
  /\ cursor' = [cursor EXCEPT !.runs = {}]
  /\ turn' = [turn EXCEPT !.pc = "parked"]
  /\ UNCHANGED <<base, mine, scope, tasks, calls, mail, used>>
settleCancelledTurnStep ==
  /\ turn.pc = "settling"
  /\ cursor' = [cursor EXCEPT !.runs = {},
                  !.handles = abandonAgentInvocationOwners(@, cursor.runs)]
  /\ turn' = [turn EXCEPT !.pc = "parked"]
  /\ UNCHANGED <<base, mine, scope, tasks, calls, mail, used>>

(* The parked driver applies what tasks sent: agent-invoke is dispatched if *)
(* the task is indexed and not over, agent-settled is settled, a terminal   *)
(* view releases what the task still has.                                   *)
Admits(t) == t \in cursor.index /\ tasks[t].pc = "working"
routeDeliverToChildren ==
  /\ turn.pc = "parked" /\ mail # <<>>
  /\ LET m == Head(mail)
         H == cursor.handles
         stores == CASE m.kind = "invoke" /\ Admits(m.task) ->
                          dispatchAgentInvocation(H, tasks[m.task].agent, m.task, 1)
                     [] m.kind = "settled" ->
                          {settleTaskAgentInvocation(H, m.task, 1, m.outcome)}
                     [] m.kind = "view" /\ m.task \in cursor.index ->
                          {releaseOwner(H, m.task)}
                     [] OTHER -> {H}
     IN \E S \in stores : cursor' = [cursor EXCEPT !.handles = S]
  /\ mail' = Tail(mail)
  /\ UNCHANGED <<base, mine, turn, scope, tasks, calls, used>>

(* A background subagent task: it asks for its agent, may pass on how the   *)
(* agent settled, and ends, by itself or cancelled.                         *)
Send(t, kind, outcome) ==
  mail' = Append(mail, [kind |-> kind, task |-> t, outcome |-> outcome])
taskOthers == <<cursor, base, mine, turn, scope, calls, used>>

TaskInvokes(t) ==
  /\ tasks[t].pc = "working" /\ ~tasks[t].invoked
  /\ \E i \in {cursor, mine} : t \in i.index
  /\ Send(t, "invoke", "none")
  /\ tasks' = [tasks EXCEPT ![t].invoked = TRUE]
  /\ UNCHANGED taskOthers

TaskSettles(t, outcome) ==
  /\ tasks[t].pc = "working" /\ tasks[t].invoked
  /\ mail' = mail \o <<[kind |-> "settled", task |-> t, outcome |-> outcome],
                       [kind |-> "view", task |-> t, outcome |-> "none"]>>
  /\ tasks' = Ended(t)
  /\ UNCHANGED taskOthers

TaskEnds(t) ==
  /\ tasks[t].pc = "working"
  /\ \E i \in {cursor, mine} : t \in i.index
  /\ Send(t, "view", "none")
  /\ tasks' = Ended(t)
  /\ UNCHANGED taskOthers

----------------------------------------------------------------------------
(* The session begins between turns.  Its first agent may be there already: *)
(* idle, or with a background task of an earlier turn.                      *)
Init ==
  /\ LET a == Fresh(Agents)
         t == Fresh(Tasks)
     IN \E h \in {Absent, Available, Parked, Handle("claimed", t, 1)} :
         LET owned == h.owner = t
         IN /\ cursor = [handles |-> [x \in Agents |-> IF x = a THEN h ELSE Absent],
                         index |-> IF owned THEN {t} ELSE {}, runs |-> {}]
            /\ tasks = [x \in Tasks |->
                 IF owned /\ x = t THEN [pc |-> "working", agent |-> a, invoked |-> TRUE]
                 ELSE [pc |-> "none", agent |-> Nobody, invoked |-> FALSE]]
            /\ used = (IF h = Absent THEN {} ELSE {a}) \cup (IF owned THEN {t} ELSE {})
  /\ base = NoSession /\ mine = NoSession
  /\ turn = Between("parked", 0)
  /\ scope = NoScope /\ mail = <<>>
  /\ calls = [r \in Runs |-> {}]

CallNext ==
  \/ \E k \in Slots, t \in Tasks, a \in Agents :
       CallStartsFresh(k, t, a) \/ CallResumes(k, t, a)
  \/ \E k \in Slots :
       CallSteers(k) \/ CallSteeringThrows(k) \/ RunStarts(k) \/ RunStartThrows(k)

TurnNext ==
  \/ BeginStep \/ InlineContinues \/ InlineHandsOver \/ RunContinues \/ InlineDefers
  \/ \E cancelled \in BOOLEAN : StepSettles(cancelled)
  \/ \E rs \in SUBSET Runs : DispatchRuns(rs)
  \/ \E r \in Runs, a \in Agents : handleWorkflowToolRunRequest(r, a)
  \/ \E r \in Runs, c \in 1..MaxCalls, o \in Outcomes : SettleRunInvocation(r, c, o)
  \/ \E r \in Runs, cancelled \in BOOLEAN : handleWorkflowToolRunOutcome(r, cancelled)
  \/ WaitCancelled \/ TurnEnds

DriverNext ==
  \/ \E inline \in BOOLEAN : RunTurn(inline)
  \/ rebaseTaskAgentHandleMutations \/ settleCancelledTurnStep
  \/ routeDeliverToChildren

TaskNext ==
  \E t \in Tasks : TaskInvokes(t) \/ TaskEnds(t) \/ \E o \in Outcomes : TaskSettles(t, o)

Next == CallNext \/ TurnNext \/ DriverNext \/ TaskNext
Spec == Init /\ [][Next]_vars
FairSpec == Spec /\ WF_vars(CallNext \/ TurnNext \/ DriverNext)

----------------------------------------------------------------------------
(* Properties.                                                              *)
Handles == [phase : {"absent", "available", "parked", "reserved", "claimed"},
            owner : Owners \cup {Nobody}, call : Nat]
Session == [handles : [Agents -> Handles], index : SUBSET Tasks, runs : SUBSET Runs]
CallPhases == {"idle", "starting", "claimed", "steering", "settled", "failed", "unclaimed"}

\* The type of every variable.
TypeOK ==
  /\ cursor \in Session /\ base \in Session /\ mine \in Session
  /\ turn \in [pc : {"parked", "inline", "run", "wait", "result", "settling", "crashed"},
               n : 0..MaxTurns, steps : 0..MaxSteps, cancelled : BOOLEAN]
  /\ scope \in [on : BOOLEAN, store : [Agents -> Handles],
                calls : [Slots -> [pc : CallPhases, task : Tasks \cup {Nobody},
                                   agent : Agents \cup {Nobody}, old : Owners \cup {Nobody}]]]
  /\ tasks \in [Tasks -> [pc : {"none", "working", "ended"},
                          agent : Agents \cup {Nobody}, invoked : BOOLEAN]]
  /\ calls \in [Runs -> SUBSET (1..MaxCalls)]
  /\ mail \in Seq([kind : {"invoke", "settled", "view"}, task : Tasks,
                   outcome : Outcomes \cup {"none"}])
  /\ used \subseteq Agents \cup Tasks

\* Between turns a claimed agent has an owner that will give it up: a task of
\* this session that is at work, or whose end is on its way to the session.  A
\* claim nobody gives up makes the agent busy for good.
ClaimWillEnd ==
  turn.pc = "parked" =>
    \A a \in Agents : cursor.handles[a].phase = "claimed" =>
      \E t \in cursor.index :
        /\ cursor.handles[a].owner = t
        /\ \/ tasks[t].pc = "working"
           \/ \E i \in DOMAIN mail : mail[i].task = t /\ mail[i].kind = "view"

\* Between turns a task at work has the lease on its agent, unless the agent was
\* lost; so no two tasks talk to one agent, however calls of one step
\* interleave, steps are cancelled or a turn's state is merged.
WorkingTaskHasLease ==
  turn.pc = "parked" =>
    \A t \in cursor.index : tasks[t].pc = "working" =>
      LET h == cursor.handles[tasks[t].agent] IN LeasedTo(h, t) \/ h = Absent

\* A task at work is known to the session: it is in the driver's index, in the
\* state the turn works on, or belongs to the step in progress.  Cancelling a
\* turn or deferring its step loses none (tool-execution.ts:101).
TaskNotOrphaned ==
  turn.pc # "crashed" =>
    \A t \in Tasks : tasks[t].pc = "working" => t \in cursor.index \cup mine.index \cup NewTasks

\* The leases of tasks that are over are given up, again and again as tasks end:
\* the terminal view, or the step that steered the agent away, releases them.
LeaseReleased ==
  []<>(\/ turn.pc = "crashed"
       \/ \A t \in Tasks : tasks[t].pc = "ended" => Claims(cursor.handles, t) = {})

=============================================================================
