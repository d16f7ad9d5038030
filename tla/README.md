# A TLA+ model of eve's session runtime

eve (`packages/eve`) runs agents as durable workflows. A *session* is one
workflow run, the *driver*, that owns the session's public inbox; each *turn*
runs inline in the driver or in a workflow run of its own; children, background
tasks, timers and channels talk to the driver by resuming *hooks*, durable
queues of the workflow engine. This directory models that core: the inbox, the
private protocol between driver and turn, the life of a session run with its
failure paths, the emitter that orders a turn's event stream, the background
tasks a session dispatches, the leases on the agents it shares with them, and
the client that follows the stream.

Paths below are relative to `packages/eve/src` unless they start with `docs/`.

## 1. Inventory

| Part | State it keeps | Operations | What makes it hard |
|---|---|---|---|
| Command inbox, `execution/session-command-inbox.ts` | three hook slots, retired aliases, one armed read per hook, the sorted ready queue, the offered read | claim, rekey, `next`, `consumeNext`, authorization window, dispose | a read that resolves in the middle of a rekey, or with the window closed; two aliases alive at once |
| Parked wait, `execution/parked-delivery-wait.ts` | buffered deliveries and controls, shared with turns | take, coalesce, defer, route to descendants | three sources in one arrival order |
| Turn control receiver, `execution/turn-control-receiver.ts` | the open request, the outstanding delivery, seen and cancelled tasks | buffer, forward, cancel, service a request | a forwarded delivery is provisional; control sends repeat |
| Turn run, `execution/turn-workflow.ts`, `turn-cancellation-control.ts`, `turn-execution-cursor.ts` | pending calls, collected results, the pending request, the abort signal | step, dispatch, wait, request, accept, settle, cancel, fail | cancellation against completion; its hooks exist only after it has claimed them |
| Inline turn, `execution/inline-turn.ts` | an abort controller | step, abort, hand over to a turn run | reads the same inbox as the other two readers |
| Routing to descendants, `execution/route-child-delivery.ts`, `proxied-deliver-step.ts`, `subagents/hitl-proxy.ts` | the table of proxied prompts | split a delivery, answer a child, decline a limit | one coalesced delivery with several addressees |
| Session run, `execution/workflow-entry.ts`, `workflow-entry-finalization.ts` | `CrashCleanupState`, the current action, collected callbacks, the timer | claim, run turns, settle, answer, park, finalize, crash | every awaited step may throw; promises to callers, parents, children and channels hold on every path |
| Stream emitter, `harness/ordered-stream-emitter.ts` | pending emissions, two counters, waiters | emit, pump, close and drain | back-pressure, failure with waiters asleep |
| Background tasks, `tasks/`, `execution/tasks/`, `execution/tools/workflow/body.ts` | the task run's view, result and channels, the session's task index | dispatch, acknowledge, report, ask, answer, cancel, notify | a cancel races a result; steps and notifications repeat; shutdown cuts steps off |
| Agent handles, `subagents/handles/` | one handle per agent: its phase and the lease of its owner | reserve, confirm, claim, release, settle, abandon, merge | a step, a turn run and the driver each change a copy of the store |
| Workflow tool runs, `execution/turn-workflow-tool-run.ts`, `harness/workflow-*` | run records, interrupts | start, interrupt, resume, cancel | ownership across turns |
| Human input and approvals, `harness/pending-input-batches.ts`, `approval-delivery-coordinator.ts` | open batches | ask, answer in part, retire | stale and partial answers |
| Session limits, `harness/session-limit-*.ts`, `session-usage-limits.ts` | totals and grants | account, stop, continue | children report to the same totals |
| Client, `client/`, `protocol/event-dedupe.ts` | stream cursor, the store's events and pending messages, the active turn | send, follow up, resume, reset, reconnect | overlap and gaps after a reconnect; readers that outlive a reset |
| Tool loop, durable store, wire encoding, activity, channels, sandboxes, compiler, CLI, evals, bindings | | | translation and I/O around the above |

A channel or a client sends a *command* (deliver, cancel, clear, compact,
reset, timeout) by resuming the stable hook or the channel alias. The driver
reads commands in whichever state it is: with an inline turn, with a turn run,
or parked. With a turn run it also reads the *control hook*, on which the turn
asks for deliveries, acknowledges or releases them and reports its result. The
driver forwards deliveries to the *turn inbox*, where children report too, and
cancellations to the *cancel hook*. A background task is a workflow run too: it
reads its own two inboxes and the result of its body, and wakes the session by
sending commands. The agents a session keeps alive are leased to the task or
tool run that talks to them. A client posts messages and reads the log of
events from its cursor on.

`PROJECT.json` lists the hazards, each at its line and with the properties that
would catch it going wrong.

## 2. Modules

| Module | Models |
|---|---|
| `SessionInbox` | the command inbox and how its three kinds of reader use it |
| `SessionTurns` | driver, turn and parked wait on one FIFO inbox: receiver, turn run, inline turn, parked wait, routing |
| `SessionLifecycle` | the session run from claim to crash path; a turn is one action |
| `OrderedEmitter` | the stream emitter with several producers |
| `TaskRun` | one background task: its durable run, its body, the session that owns it |
| `TaskLifecycle` | what a background task promises its session; `TaskRun` implements it |
| `AgentHandles` | the agent handle store and everybody who changes it |
| `EveAgentStore` | the client store, its session, its readers and the log they read |
| `SessionLifecycle_proofs`, `OrderedEmitter_proofs`, `SessionInbox_proofs`, `TaskRun_proofs`, `EveAgentStore_proofs`, `AgentHandles_proofs`, `SessionTurns_proofs` | theorems about the module of that name |
| `SequenceLemmas` | what appending to, taking from and mapping over a sequence does to its elements; used by the proofs |
| `MC...` | instances for TLC |

Each module abstracts what another details. `SessionTurns` reads one FIFO
queue: that the multiplexed inbox behaves like one is what `SessionInbox` checks
(`ExactlyOnceInOrder`, `NoReadLost`, `CommittedEventuallyConsumed`).
`SessionLifecycle` takes a turn as one action with any outcome. `TaskRun` knows
of the session only that it drops a delivery whose id it has seen, which is what
`TaskDeliveryOnce` says of `SessionTurns`. `AgentHandles` takes the task as
something that may report its invocations and its end at any time, and
`EveAgentStore` takes the session as a log of turns.

**SessionInbox.** Variables carry the names of the code's closure variables. A
payload is its position in its hook, so *exactly once, in order* can be said per
hook. A promise continuation that can interleave with others is an action:
`ReadResolves` (the `then` in `arm`), `OfferedWakes` (the body of `offered`),
`RekeyStart`, `RekeyClaimed` and `RekeyReleased` (the three parts of
`rekeyContinuation` between its awaits). The driver is reduced to a mode that
says which reader is active, and a command to how that reader classifies it:
buffered, control, or handled on the spot. Hook iterators never close here,
because only `dispose` releases a hook that is not being replaced.

**SessionTurns.** A command is a record of what the code looks at: has a message,
steers, answers which prompt, declines a limit, carries a task id or a caller.
`d` and `t` are the driver's and the turn's places in their code. The state
machine of a delivery request is explicit: `TurnRequests`, `ServiceTakesResponse`,
`ForwardedReadsControl`, `TurnAccepts`, `TurnLeavesWait`. A control send may be
duplicated (`Resends`), as a workflow step may be retried after its effect.
`ForwardLands` and `ForwardGivesUp` are the two ends of the bounded retry loop
that forwards a cancellation. What a step of the model loop computes is a free
choice among its outcomes. `Scripts` bounds the instance: it is the sets of
commands a session may be sent, in any order and at any time.

**SessionLifecycle.** `pc` is the awaited step the run is at. A step that can
throw has a second action for the throw, which follows the code's `finally`
blocks and `catch`. The reply cell, the resolved flag, the snapshot of children
and the terminal flag are `CrashCleanupState`. History variables count what the
outside world sees: replies per caller, terminal events from a turn and from the
driver, reports to the parent. `broken` records
that a step of the catch, or a reply after the terminal event, has thrown: the
code gives up there on purpose, and the properties say so.

**OrderedEmitter.** Several producers call `emit`; deltas with the same
coordinates and consecutive partials of one call merge into the last pending
emission; the pump takes one at a time and may fail. `ids` records which source
events an emission stands for, so that order can be stated across merges.

**TaskRun.** `run` holds the local variables of `taskRunWorkflow`; `reader` is
the race over its three channels, where a read once started stays pending
(`Arm`, `Land`). Handling a payload (`ClaimWorkflow`, `ClaimCommand`,
`ClaimBody`) changes the local variables at once and queues the durable steps it
calls for in `todo`; they are performed one at a time (`PublishView`,
`AppendProgress`, `WakeParent`, `DeliverAnswer`, ...), and the two that append
progress and wake the session may be repeated after their effect (`DoneOrAgain`;
publishing a view or aborting the body twice changes nothing). What the body sends
goes through a durable step of its own, `resumeHookStep`, which may run again as
long as it is in flight (`BodyResends`): until the next report the body sends, or its
return, for the reports and agent messages it awaits, and until the run ends for a
question, which it does not await. The forced stop of a cancellation cuts
the queue off. The body may report, ask, send requests for its agent, return or
throw. The step of the parent that started the task indexes it (`StepCommits`) or
rejects it (`StepFails`), and acknowledges an indexed one in a durable step that
may repeat; `cancelOwnedTask` is a process of its own with its awaits and
its retries. A delivery to the session is identified as in `execution/tasks/child/steps.ts`, so that
two deliveries with one id are visible as such. `told` is what the session has
accepted, `proxied` the questions it shows.

**TaskLifecycle.** Three variables and three actions: the session decides
whether the task is its own, the status moves until it is terminal, and a session
that has accepted the task hears the end once, as it was. `TaskRun` instantiates
it with `dispatch` from the parent's tool call, `status` from the published view
and `heard` from the deliveries accepted (`ImplementsLifecycle`).

**AgentHandles.** `cursor` is the driver's state, `base` the one it dispatched a
turn with, `mine` the turn's, and `scope` the one of the step in progress; the
merge at the end of a turn run (`rebaseTaskAgentHandleMutations`) makes them one again.
The tool calls of a step are concurrent between their awaits, workflow tool runs
ask for agents and settle them, and background tasks invoke agents, settle
invocations and end, by mail the driver applies in order. A merge that throws
ends the turn in `crashed`.

**EveAgentStore.** The log is the durable stream, an event its position in it.
`turn` is the active turn and the await its coroutine is at, `reader` the
stream it reads with the reconnection state of `client/open-stream.ts`, `ups` the
follow-ups in flight. `stale` has the readers of turns that a reset or a resume
replaced. Such a reader goes on with what its connection has read already: it has
counted the event its consumer then discards, and passes over events of other
deliveries without meeting the consumer, so it may write a cursor anywhere in
`MayReach`. `resume` may replace a send whose session has failed and which
still follows its steered turns; a resume that is not over is returned again.

The server is external, and as hard as `execution/workflow-steps.ts` and
`workflow-entry.ts` make it. An event carries the delivery ids the session's
context has (`server.ids`): a turn with messages takes them over, a task's
notification empties them, and a turn without a message or after an authorization
goes on with what it finds. Other turns run while an authorization is waited
for, an authorization asked for again supersedes the open one, a delivery may be
dropped, and the session may end. `OldTurns` turns were recorded before stream
version 20, without event ids, so their events are admitted again whenever they
are replayed. History variables keep what the ids do not say: the deliveries an
event, the running turn and the open authorization really belong to (`of`, `turn`,
`waits`), those whose authorization's turn carries only other ids (`misnamed`), those
`dropped`, the events a send passed over (`passed`), and the length of the stream
at the last reset (`forgot`). Connections are cut and requests are lost.

Operators named as *wrong variants* are definitions with a plausible mistake in
them; each property has one that it detects. They are not part of any `Next`.

## 3. Runs

| Run | Instance | Shows |
|---|---|---|
| `inbox_reads` | 2 aliases, 3 payloads, at most 2 per hook | no read lost, repeated or overtaken; a committed payload is consumed, also from a retired alias |
| `inbox_callbacks` | 1 alias, 2 payloads | *violated*: a callback surfaces as a session command |
| `turns_hitl` | a steering message, an answer to a child, repeated control sends, 2 waits, 2 asks | a delivery is used once, none is lost, an open request is served; the answer reaches a waiting turn; the message replaces a started turn |
| `turns_session` | either a task's notification sent twice, a caller's message, the cancel, a limit prompt and its refusal, or two messages, a guarded cancel, clear and timeout | one copy of a notification takes effect, none after the cancel was read, and a cancelled task begins no turn; a cancel hits its turn; messages begin turns in order |
| `turns_limit` | a limit prompt, its refusal, two messages | *violated*: a coalesced message is dropped |
| `lifecycle_conversation` | 2 turns, 2 throws, 1 decline, 2 callers, 1 child, 2 attempts | the end is announced once by the driver, children end, callers are answered, callbacks accumulate |
| `lifecycle_task` | the same in task mode, 1 attempt | the parent gets exactly one report |
| `emitter` | 2 producers, 5 events of 4 kinds, limits 2 and 3 | order kept across merges, no sleeping waiter with room, producers and the drain resume |
| `task` | 5 kinds of task, 1 cancel, 1 repeated step | the session hears of indexed tasks only, of the reports from the first on and in order before the end (a repeated report hides at most one), and of the true end last and once; the body runs once; after a cancellation the session has been told of the end; a task shown as working waits for no answer; `TaskRun` implements `TaskLifecycle`; a finished executor is heard of and its run ends |
| `task_ask` | a body that asks twice | *violated*: the second question is dropped |
| `handles` | 2 agents, 3 tasks, 1 tool run, 2 concurrent calls, 2 steps | a claimed agent has an owner that will give it up, a task at work holds its lease, none is forgotten; the leases of ended tasks are released |
| `store` | 2 messages, 1 of another client, 1 recorded turn without event ids, 2 faults, server turns of other kinds or user actions | of what came after the last reset the cursor skips no event; a finished send has shown its message's turn, also with other turns between; every turn of the store ends but for two disclosed kinds |

Each module has a `TypeOK`; it is a property of a run for `SessionLifecycle`
only. It is proved there and for `OrderedEmitter`, `SessionInbox`, `TaskRun` and
`AgentHandles`; the proof of `AnswerInvariant` has the types it needs of
`EveAgentStore`.

**Bounds.** Two aliases give a rekey with and without a predecessor, and a
released alias with payloads left. Three payloads put one
read each in the stash, the ready queue and the offer. Two waits and two asks per turn let a
message about one request arrive during the next. Two throws let a step of the
crash path fail as well; two turns make the state left by one turn meet the
next. A limit of two pending events is reached, exceeded by the one emission
that is always accepted, and drained. The two scripts of `turns_session` are
alternatives: a session is sent one of them, since together they exceed what TLC
can enumerate. The five tasks are a plain tool, workflow bodies that report or
ask, and subagents that report or ask; one cancel and one repeated step are each placed anywhere (435,000
states). Two agents, three tasks and one tool run let two owners compete
for one agent while a third ends, in a step and across a turn run (726,000
states). In `store` a budget of two is shared by lost requests and connections, messages of
others, dropped deliveries, turns without a delivery, pauses for an authorization,
the end of the session, resumes and resets, so every pair of them occurs (201,000
states): another turn while an authorization is waited for, one that takes over
its ids, or a reset and a resume with readers left behind. Deadlock is not
checked: the bounds stop producers, and a session may wait for input forever.

**Fairness.** All of it is weak and on steps the program or the workflow engine
runs by itself: continuations whose promise has settled, reads of a hook with a
payload, steps that return or throw. No producer is obliged to send, no child
to answer, no rekey to begin and no session to end. `turns_hitl` assumes in
addition that a step of a turn returns, `emitter` that a write ends,
successfully or not. `task` obliges the run to read and handle what arrived and
to perform its durable steps, the parent's step to commit or fail, and the session
to acknowledge, to receive and to go on with a cancellation it began; no body has to report, return or be answered.
`handles` obliges steps, tool runs and the driver to go on, not the background
tasks. `store` assumes that turns of the server end and queued deliveries begin one or are
dropped, that the user completes an authorization, and that connections yield what
is in the log or fail. It does not assume that every accepted message gets a
turn.

## 4. Where the code departs from what is written

Three are the subject of a run that must find them.

1. **`inbox_callbacks`.** The inbox promises that callbacks "never surface as
   ordinary session activity", and that callers close the window "only after
   consuming any authorization read they were offered". A parked wait that
   returns a buffered control closes it without consuming, the read stays
   offered, and the next turn takes it as a session command.
2. **`turns_limit`.** Declining a limit returns `parentAction` without the
   remainder of the coalesced delivery; a user message in it is gone.
3. **`task_ask`.** A question of a background body has the coordinates of its
   tool call, so the second has the delivery id of the first; the session has seen
   it and drops it, and the body waits for an answer nobody is asked for. The
   documentation says several requests may be outstanding at once.

The following were met while modelling. They need a throw or a rare order, and
appear as named exceptions of the properties or as remarks here.

- A forwarded cancellation tries 50 times, 20 ms apart, and its failure is
  ignored; a turn run that starts later is not cancelled (`gaveUp` in
  `SteerReplacesStartedTurn`).
- Declining a limit while parked on an unsettled turn forgets the caller. The
  action re-entered then still says `cancelled`, and the boundary of the same
  cancelled turn is emitted again.
- `finalizeDone` marks the terminal event only after
  `terminateChildSessionsStep`, so if that throws the driver's `session.failed`
  follows the turn's `session.completed`. `DriverAnnouncesOnce` counts the
  driver's own events only, so no property covers this.
- A caller told of a cancellation stays in the reply cell until the rekey has
  succeeded, so if the rekey throws it is rejected as well: the second disjunct
  of `RepliesOnce`.
- A subagent task's result is not held back for the reports its agent sent:
  `execution/tools/workflow/body.ts` counts only what the body itself yields, so
  `ReportsBeforeEnd` is about tasks without an agent.
- A report whose sending step ran again is counted twice by the run
  (`execution/tools/workflow/body.ts:74`, `tasks/child/workflow.ts:107-108`, `137`). The
  result is then due one report early: a hook with the reports 1, 1, 2 and a
  `reportCount` of 2 drops report 2. `ReportsBeforeEnd` allows one report at the end
  to be missing per repeat, and none without.
- A claim that failed in an inline step and was made again later makes the
  merge throw "changed ownership while its turn was running"
  (`subagents/handles/query.ts`): the `crashed` exceptions in `AgentHandles`.
- A reservation is not undone when starting the task throws
  (`execution/tasks/parent/tool-execution.ts`). `LeaseReleased` speaks of the claims
  of ended tasks; that every claim has somebody to end it is `ClaimWillEnd`.
- Events without an id are admitted again (`protocol/event-dedupe.ts:35-36`) and
  `hasCompleteInitialPrefix` compares only lengths, so a resume may show the events of an
  old turn twice; after a send has passed over another delivery's turn, it may
  append older events behind newer ones. No property says otherwise.
- A reader that reset left behind counts events before its consumer discards them
  (`client/session.ts:219`, `250`), and the session given to the store is kept, so the
  cursor may pass events of before the reset which nobody is shown: `forgot` in
  `CursorHasNoGap`.
- While an authorization is waited for, the turn of another delivery may take over the
  ids (`execution/workflow-steps.ts:202-212`). The turn of the authorization then carries
  the other's, the reader of the send passes it over (`client/session.ts:229`), and
  as its stream is kept alive the send never ends: `misnamed` in `AnswerShown` and
  `TurnEnds`. Nor does a send whose accepted delivery is dropped: `dropped` in
  `TurnEnds`.
- Rejecting a submission without an id marks the first pending one as failed, and
  a follow-up folded into a turn leaves its submission pending.

## 5. What is proved

`SessionLifecycle_proofs` proves, for every mode, every set of callers, children
and attempts and every bound, under the assumption `LifecycleConstants` only:
`TypeCorrect`, `Invariance`, `AnnouncesOnce`, `EndAnnounced`,
`ChildrenTerminated`, `AtMostOneReply`, `HeldCallerAnswered`, `ReportsOnce` and
the action property `CallbacksKept`.

The properties speak of the end of a run, so none is inductive. `IInv` says what
holds at each step on the way:

- `ControlInv`: which of `thrown`, `outcome`, `created` and `callerResolved` go
  with which `pc`. A run in a crash step has thrown; one in setup, in the loop or
  in finalization has not.
- `TerminalInv`: without `terminalEmitted` the driver has announced and reported
  nothing; with it there is an event, and in task mode the report is out or is
  the step the run is at.
- `ChildrenInv`: no recorded child is live once the end is, or is about to be,
  announced.
- `RepliesInv`: whom the cell holds has not been answered, except between the
  notice of a cancellation and the clearing of the cell; everyone else has at
  most one reply.
- `HeldInv`: once the end is announced, the held caller has its reply or the run
  is at the step that sends it.

Each part is proved preserved by one lemma with a case per action, from the type
invariant and the parts before it. `RepliesOnce` needs its
second disjunct: without it the formula is false (section 4).

`OrderedEmitter_proofs` proves `NoWakeupLost`, `CountersAreExact` and
`EmitterTypeCorrect` for every set of producers and events and every limit,
from `EmitterConstants` only. That nobody sleeps while the queue has room
is not inductive, because the pump stops when the queue is empty and does
not look for waiters: it relies on the last dequeue having found capacity. With
an empty queue there is capacity exactly if both counters are zero, so the
counters must be known to equal the sums over the queue (`CountersExact`). `IInv`
is the conjunction of the type invariant, the exact counters and the property.
A sum over a sequence would need induction over its length; instead
`AddsUp(len, w, total)` says that *some* function of partial sums from zero
reaches the total. Each change of the queue then has a lemma that builds
the new partial sums from the old: one more weight at the end
(`AppendedAddsUp`), a last weight that grows (`GrownAddsUp`), the first weight
removed (`ShiftedAddsUp`).

`DispatchInOrder` says that merging keeps the order. What was written, what is
being written and what is pending are taken as one stream, whose emissions
carry the ids of the source events they stand for. `DispatchInv` says that the ids
rise along the stream, each under the kind and key of its event, and that the
only accepted events missing from it are partials the next snapshot replaced. It
needs `Tip`: a partial at the end of the queue is the last event accepted, so
replacing it skips nothing else.

`SessionInbox_proofs` proves `ConsumedOnce`, `ReadsKept`, `CallbackFirst` and
`InboxTypes`, for every set of aliases and payloads, from `InboxConstants`. The
invariant follows a read from the hook to its consumer:

- `Stashed`: what was read from a hook is consumed, in order, or is the one read
  in its stash.
- `Queue`, `Offered`, `Enqueued`: the ready queue is sorted by arrival; the
  stashed read of an enabled hook is in it or offered. Both at once happens to
  one read only: a callback that was offered when its window was opened again is
  queued a second time, and once it is consumed the copy stays, as a read of
  nothing, until the window closes (`Leftover`).
- `CallbacksBehind`: a callback in the queue is younger than an offered session
  read.
- `Slots`: which hooks are enabled, live or being replaced in which mode.

`TaskRun_proofs` proves `Silence`, `EndOnce`, `BodyOnce`, `CancelTold`,
`TaskTypes`, `Refinement`, `ReportsFirst` and `WorkingAnswered`, for every task, from `TaskConstants`. The
properties are about deliveries, but what they rest on is the queue of durable
steps `todo`: its steps are in the order the run decided them (`InOrder`), an end
is in it only of a run that is finished, and the view that says so is published
before. The other parts tie the run to its body, to the pending reads, to the
parent's step and to the cancelling process (`RunInv`, `BodyInv`, `ReaderInv`,
`EndInv`, `CancelInv`). `Refinement` shows step by step that the run
implements `TaskLifecycle`: its initial states are the abstract ones, and every
step decides the dispatch, moves the status, tells the parent, or is a stutter.

`ReportsFirst` proves `ReportsBeforeEnd`, for every number of reports, retries and
cancellations. A report is made into a hook, claimed by the run, perhaps held back
until the task is acknowledged, queued as a durable step, put into the parent's
inbox and accepted there, or appended to the progress stream; each of these may be
overtaken or interrupted. `ReportInv` follows it all the way:

- `SourceInv`: each hook is in order, and the reports with a copy still to claim are
  the last ones, `k+1..Spoken`. Only the last report made is sent again, and only while its
  body runs. `Counted`: whatever the run claims next, its index is at most the
  report's number and the repeats so far.
- `CompleteInv`: nothing waits behind a completion, and a run that has become
  `completed` has counted as many reports as the executor made (`HeardOut`). This is
  where `reportCount` is needed.
- `NumberInv`, `LineInv`: what is on its way was claimed, and no earlier report is
  still to be claimed (`Heard`); from the messages held back through the steps in hand and
  the inbox to what was told, no message is behind a later one. The order is `<=`,
  because a repeated step, of the body or of the run, puts a report there twice.
- `CoverInv`: every claimed report is in one of those places, unless the task failed, was
  cancelled or was rejected, which is when the code drops reports.

Once the end is told, nothing is in hand or held back, so what was claimed has been
handed over: the reports from the first on, of which at most `body.again` are missing
at the end.

`WorkingAnswered` proves `WorkingMeansAnswered` of the tasks that ask one question at
a time (`OneAtATime`: an agent parks on its question; a body without one asks at
most once). Of a body that asks again before the answer it is false, as section 4
says of `task_ask`, because the second question overwrites the first in the run's
requests. `AskedInv`: only the last question is open; it is in the hook once, or the
run has ended, or it is exactly what the run asks; and an answer passed on, or
already received, is to a question the run has claimed.

`EveAgentStore_proofs` proves `NoGap` and `WholeAnswer`, for every set of messages
and of other clients' messages, any number of recorded turns, every reconnection
limit and any number of faults, from `StoreConstants`. `NoGap` rests on
`PlacesCovered`: the cursor alone is not enough.

- `Places`: every place that may be written to the cursor later is behind what is
  `Known`: shown, passed over, or on the stream at the last reset. Such places are
  where a post began, where the reader is, and all that the connection of a replaced
  reader has read.
- `EndInv`, `ModeInv`: a terminal event is the last one; which stream is read where.
- `FailInv`: a send that is followed though its session has failed has read the whole
  stream, so that a resume which replaces it leaves nothing for its reader to count.

`WholeAnswer` rests on `AnswerInvariant`:

- `History`: an event names the deliveries it belongs to, or none, or those of the turn
  before (`Names`); a closed turn has no more events, a boundary leaves a turn closed
  or waiting for an authorization, and a superseded authorization is asked for again
  at once (`Goes`).
- `Now`: what the session still does with a delivery, in terms of what the stream has.
- `QueueInv`, `FreshInv`: what the client has not posted is nowhere in the
  session, and is posted once.
- `ReadInv`: the reader of a send has shown what it passed of its message's turn and
  knows whether an authorization is open; so a boundary it settles on closes the turn.
- `DoneInv`: after that everything of the turn is shown, and nothing is added.

`AgentHandles_proofs` proves `NoOrphan`, `LeaseHeld`, `ClaimsEnd` and
`HandleTypes`, for every set of agents, tasks and tool runs, from
`HandleConstants`. The store exists in up to four copies (`cursor`, `base`,
`mine`, `scope`), so the invariants speak of every copy that can still become the
session's. For `NoOrphan` they say which calls a step has, whom they steer away
and which tasks each copy has indexed. For the leases (`LeaseInvariant`), every
command is shown to do one of two things to a copy: it loosens the leases of some
owners, or one owner takes an agent that nobody else holds. Then tasks
at work hold their lease in every copy that knows of them, and every claim in a
copy belongs to an owner that is alive or a tool run of the waiting turn.

`SessionTurns_proofs` first proves `RequestServed` and `CancelsOwnTurn`, for every set
of commands, calls and bounds and with or without repeated sends, from
`TurnConstants`. A request in service can look lost in many ways: its copy is
still on the hook, its close is on its way behind it, the delivery forwarded for
it was ignored. `TurnInvariant` rules them out:

- `Phases`: which mode of the driver goes with which mode of the turn; a terminal
  message is on the hook only of a finished turn.
- `HookInv`: the ids on the control hook never fall, every request but the open
  one has its close behind it, and nothing closes the open one.
- `ForwardInv`: a delivery in the turn's inbox or an acceptance on the control
  hook answers only the request in service or one that is over. Without it
  `serviceDeliveryRequest`, which ignores acceptances, could pass over the close
  of its own request.
- `ServiceInv`: the request in service is the open one or its close is on its way,
  and no older request is on the hook.
- `CancelInv`: the cancellation being forwarded, and those on the cancel hook, were
  read during the present turn.

The same module proves what becomes of a delivery: `UsedOnce`, `TaskOnce`,
`CancelledSilent`, `MessagesInOrder`, `DeclineLoses`, `NothingLost` and `TurnTypes`. `TInv` is the type invariant
with what the messages on the hooks carry. `LateInv` says what is still on the
hooks of a turn that has finished: the result comes last and has what the turn
kept, a request is closed one way only, and the delivery on its way to the turn is
the outstanding one. With these, every step is one of a few moves between places
(`StepMoves`): a delivery is in the inbox, in the driver's buffer, being routed
(`Mid`), forwarded and not accepted (`Out`) or kept by the turn that accepted it
(`Kept`). The model's variables are not these places: after a turn has accepted a
delivery, and until the driver has read the acceptance, `outstanding` still has
it, and the result of a finished turn has a copy of what the turn kept. The
invariants are then about places and moves only, and none of their proofs opens an
action:

- `LiveInv`, `UseInv`: no delivery is in two places or twice in one, one that was
  used is in none, and nothing was used twice.
- `OnceInv`: a task delivery that was used or is in hand has been seen, and no two
  have the same id. After the session has ended it speaks of the used ones only.
- `FreshInv`: nothing buffered or being routed belongs to a cancelled task. What
  was forwarded or kept may, which is why it is filtered when it returns.
- `OrderInv`: the messages that began turns, then those being routed, then the
  buffered ones, then the inbox are in the order of sending; and what was forwarded
  has no message, so that what returns to the front of the buffer overtakes none.
- `AccountInv`: every delivery that was sent is in a place, used or discarded with
  its task, or some answer declined a session limit. Each move has a lemma that
  nothing leaves a place except to another one, to a use or to the discarded.

`NoDeliveryLost` is false where a limit is declined (section 4, `turns_limit`), so
it is proved as two facts. `DeclineLoses` has no hypothesis on the commands: a
delivery that is nowhere means that a declining answer was used. `NothingLost`
concludes `NoDeliveryLost` for sets of commands without such an answer, as in
`turns_hitl`.

`DeliveryInvariant` is their conjunction. Besides what it said of the kinds of
commands, `TurnConstants` says that a cancel's turn guard is a number (0 for none).
For these proofs the filters of the code (`shouldDiscard`, the parent's share of a
routed delivery) are `Filter`, the elements at a set of positions, instead of
`SelectSeq`, which the prover cannot expand.

All theorems hold for every value of the constants that satisfies the assumption
named. `IInv`, `ReportInv`, `AskInv`, `AInv`, `LInv` and `DInv` are the conjunctions of the parts; each was
checked by TLC on the instance of its run before it was proved.

Only model-checked: liveness, which is beyond the proof system here
(`CommittedEventuallyConsumed`, `AnswersReachTheTurn`, `SteerReplacesStartedTurn`,
`WaitersResume`, `TaskSettles`, `LeaseReleased`, `TurnEnds`). Every safety invariant
and action property of the passing runs is stated by a theorem, two of them with the
hypothesis they need: `NoDeliveryLost` (`NothingLost`) and `WorkingMeansAnswered`
(`WorkingAnswered`).

## 6. Not modelled

The tool loop (model calls, prompts, provider formats), serialization and
migrations of the session, wire encodings, activity rendering, channel adapters,
sandboxes, compiler, CLI, evals and tracing: translation and I/O whose outcome
enters the models as a free choice. `runLegacyTurnWorkflow`, kept for payloads of
older deployments, is left out. Of the modelled parts these are left out: the
task command that binds an executor, which nothing sends; the handle phases
`starting` and `running`, which nothing enters; the client's answers,
cancellation, detaching, creation of a first session and its message reducer;
interrupts of workflow tool runs and their records in the harness; batches of
human input and approvals; the totals of session limits. The workflow engine is
external: hooks are FIFO and durable, steps run at least once, a claim succeeds
for one owner.

## 7. Plan

Done: `OrderedEmitter`, `SessionLifecycle`, `SessionInbox`, `TaskRun` with its
abstract specification, `AgentHandles`, `EveAgentStore` and `SessionTurns`, all with proofs. In this
order:

1. `InputBatches`: pending batches, partial and stale answers, approvals.
2. `WorkflowToolRuns`: interrupts and cancellation of a run across turns.
3. `SessionLimits`: totals and grants with children reporting.
4. An abstract FIFO inbox that `SessionInbox` implements, and a composition of
   `SessionTurns` on it.
