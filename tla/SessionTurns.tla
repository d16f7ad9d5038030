---------------------------- MODULE SessionTurns ----------------------------
(***************************************************************************)
(* One session driver and the turn it is running.                          *)
(*                                                                         *)
(* The driver (workflow-entry.ts runDriverLoop) runs one turn at a time.   *)
(* A turn starts inline in the driver (inline-turn.ts) or as a turn run    *)
(* (turn-workflow.ts) that talks to the driver through three private       *)
(* hooks: the control hook (turn to driver), the turn inbox (driver and    *)
(* children to turn) and the cancel hook (driver to turn).  While the turn *)
(* is active the driver keeps reading session commands                     *)
(* (turn-control-receiver.ts); between turns it parks on them              *)
(* (parked-delivery-wait.ts).  The command inbox is one FIFO queue here;   *)
(* SessionInbox models how it is multiplexed from hooks.                   *)
(***************************************************************************)
EXTENDS Integers, Sequences, FiniteSets, SequencesExt, FiniteSetsExt

CONSTANTS
  Scripts,      \* bound: the sets of session commands one session may be sent
  Calls,        \* runtime-action call ids a turn can dispatch to children
  BgPrompt,     \* a background task's session-limit prompt
  NoTask,       \* an undefined task or delivery id
  MaxWaits,     \* bound: coordination waits of one turn
  MaxAsks,      \* bound: input requests raised by one turn's children
  Resends       \* the set {FALSE} or BOOLEAN: may a control send repeat?

(***************************************************************************)
(* A delivery is classified by what the code looks at.  msg: a payload has *)
(* a message; steer: turnPolicy "steer"; answers: the prompt its input     *)
(* responses answer; stop: the answer declines a session limit; prompt: it *)
(* carries a task's input request; did: taskDeliveryId or caller.taskId;   *)
(* task: the task that id originates from; tdi: did is a taskDeliveryId;   *)
(* caller: it carries a caller.  A cancel has a task and a turn guard      *)
(* (0: none).  n tells commands apart.                                     *)
(***************************************************************************)
Commands == UNION Scripts
Prompts == Calls \cup {BgPrompt}
IsDelivery(c) == c.kind = "deliver"
Deliveries == {c \in Commands : IsDelivery(c)}

ASSUME TurnConstants ==
  /\ MaxWaits \in Nat /\ MaxAsks \in Nat
  /\ Resends \in {{FALSE}, BOOLEAN}
  /\ BgPrompt \notin Calls
  /\ \A c \in Commands : c.kind \in {"deliver", "cancel", "clear", "reset", "timeout"}
  /\ \A c \in Commands : c.kind = "cancel" => c.turn \in Nat

VARIABLES
  \* ---- session command inbox (external producers) ------------------------
  sent,         \* commands sent so far, in order
  inbox,        \* commands not consumed yet
  shown,        \* prompts users have seen: only those can be answered
  \* ---- driver --------------------------------------------------------------
  d,            \* what the driver is doing, see DriverModes
  back,         \* the mode to return to once a cancellation is forwarded
  fwd,          \* the cancellation being forwarded, see Cancel
  turn,         \* turnDispatchIndex
  buffered,     \* bufferedDeliveries
  controls,     \* bufferedSessionControls
  seen,         \* seenTaskDeliveries
  cancelled,    \* cancelledTaskIds
  request,      \* the delivery request being serviced
  outstanding,  \* <<>> or the one delivery forwarded and not acknowledged
  routing,      \* deliveries taken for the parent that are being routed
  prompts,      \* proxied input requests in the session state
  \* ---- the turn ------------------------------------------------------------
  t,            \* what the turn is doing, see TurnModes
  control,      \* the turn's control hook
  tInbox,       \* the turn's inbox
  cancelLive,   \* the turn's cancel hook is claimed
  cancelQ,      \* cancellations on the cancel hook, not read yet
  aborted,      \* the abort signal: NotAborted or the cancellation that set it
  initial,      \* initialCancellation: NotAborted or a cancellation
  pending,      \* pendingDeliveryRequest, 0 when undefined
  reqSeq,       \* deliveryRequestSeq
  tBuffered,    \* remainders of deliveries the turn accepted
  calls,        \* calls of the current wait without a result
  asking,       \* children blocked on an input request
  waits, asks,  \* bounds
  \* ---- history -------------------------------------------------------------
  uses,         \* uses[c]: times delivery c reached a turn or a child
  started,      \* deliveries that began a turn, in order
  dropped,      \* deliveries discarded with their cancelled task or as repeats
  gaveUp        \* a cancellation was given up before its turn run had started

driverVars == <<d, back, fwd, turn, buffered, controls, seen, cancelled,
                request, outstanding, routing>>
turnVars == <<t, control, tInbox, cancelLive, cancelQ, aborted, initial,
              pending, reqSeq, tBuffered, calls, asking, waits, asks>>
histVars == <<uses, started, dropped, gaveUp>>
vars == <<sent, inbox, shown, driverVars, prompts, turnVars, histVars>>

(***************************************************************************)
(* inline     waitForStep of an inline turn                                *)
(* await      TurnControlReceiver.waitForAction                            *)
(* service    serviceDeliveryRequest, waiting for an input response        *)
(* forwarded  awaitForwardedDelivery                                       *)
(* cancelling forwardTurnCancellationStep is running                       *)
(* parked     waitForNextSessionAction                                     *)
(* routing    routeDeliverToChildren on behalf of the parked wait          *)
(* ended      the session is over                                          *)
(***************************************************************************)
DriverModes == {"inline", "await", "service", "forwarded", "cancelling",
                "parked", "routing", "ended"}
TurnModes == {"inline", "starting", "step", "wait", "finished"}
ControlKinds == {"request", "accepted", "cancelled", "result", "error"}

-----------------------------------------------------------------------------
(* Helpers.                                                                *)

\* Wrong variants of the helpers below: a delivery id is not remembered; nothing
\* is discarded with its task; new deliveries go to the front; nothing steers; a
\* response in the buffer is not looked for.
SeenForgets(c) == seen
KeepAll(q, tasks) == q
BufferInFront(c) == <<c>> \o buffered
SteersNever(c) == FALSE
NoResponse == 0

\* acceptTaskDelivery.
Accepts(c) == c.did = NoTask \/ (c.task \notin cancelled /\ c.did \notin seen)
Seen(c) == IF c.did = NoTask THEN seen ELSE seen \cup {c.did}

\* The elements of q at the positions I, in their order.  (SelectSeq, in a form
\* that can be reasoned about: the k-th of them has k positions of I up to it.)
Nth(I, k) == CHOOSE i \in I : Cardinality({j \in I : j <= i}) = k
Filter(q, I) == [k \in 1..Cardinality(I) |-> q[Nth(I, k)]]

\* shouldDiscard / isCancelledTaskDelivery, for a set of cancelled tasks.
Keep(q, tasks) ==
  Filter(q, {i \in DOMAIN q : q[i].did = NoTask \/ q[i].task \notin tasks})
Discarded(q, tasks) == ToSet(q) \ ToSet(Keep(q, tasks))

\* bufferDelivery; steering; takeInputResponseDelivery (0 if there is none); the
\* buffered form of a session control.
BufferDelivery(c) == Append(buffered, c)
Steers(c) == c.steer /\ c.msg
FirstResponse == SelectInSeq(buffered, LAMBDA c : ~c.msg)
ControlOf(c) == IF c.kind = "timeout" THEN "expired" ELSE c.kind

\* takeBufferedTurnDelivery: the head and the deliveries that coalesce with
\* it, never a task delivery with another and never two callers.
Mergeable(q, k) ==
  /\ \A i \in 2..k : ~q[1].tdi /\ ~q[i].tdi
  /\ Cardinality({i \in 1..k : q[i].caller}) <= 1 \/ k = 1
MergeLen(q) == Max({k \in 1..Len(q) : \A j \in 1..k : Mergeable(q, j)})

\* routeDeliverToChildren.  Task prompts are recorded first; without a proxied
\* request the rest belongs to the parent; otherwise responses to proxied
\* requests go to the children, and declining a session limit cancels the
\* turn, whatever else the delivery carried.
RoutedPrompts(ds) ==
  prompts \cup (IF \E i \in DOMAIN ds : ds[i].prompt THEN {BgPrompt} ELSE {})
Ordinary(ds) == {i \in DOMAIN ds : ~ds[i].prompt}
ToChild(ds) == {c \in ToSet(ds) : ~c.prompt /\ c.answers \in RoutedPrompts(ds)}
Answered(ds) == {c.answers : c \in ToChild(ds)}
CancelsTurn(ds) == \E c \in ToChild(ds) : c.stop
Remainder(ds) == Filter(ds, {i \in Ordinary(ds) : ds[i] \notin ToChild(ds)})

Use(cs) == uses' = [c \in Deliveries |-> uses[c] + (IF c \in cs THEN 1 ELSE 0)]

\* sendTurnControlStep is at-least-once: the step may repeat the resume before
\* it returns, so the copies are adjacent.
Copies(m, again) == IF again THEN <<m, m>> ELSE <<m>>
Send(m) == \E again \in Resends : control' = control \o Copies(m, again)
Msg(k, id) == [kind |-> k, id |-> id, action |-> "", rem |-> <<>>]
Result(action) == [kind |-> "result", id |-> 0, action |-> action,
                   rem |-> tBuffered]

\* forwardTurnDeliveryStep, at-least-once too.  A turn that is gone has no
\* inbox: HookNotFoundError is ignored.
Relay(id, c) ==
  LET m == [kind |-> "delivery", id |-> id, what |-> c]
  IN IF t = "finished" THEN UNCHANGED tInbox
     ELSE \E again \in Resends : tInbox' = tInbox \o Copies(m, again)

\* A TurnCancelPayload: its turnId guard (0 for none) and, as history, the
\* turn during which the driver read the command behind it.
Cancel(guard) == [guard |-> guard, from |-> turn]
NotAborted == [guard |-> 0, from |-> 0]
\* Wrong variant: the guard is not looked at.
MatchesAny(payload) == TRUE
\* matchesActiveTurn.
Matches(payload) == payload.guard \in {0, turn}

\* A running turn: its run has claimed the inbox and not finished.
Running == t \in {"step", "wait"}
InTurn == {"await", "service", "forwarded"}

-----------------------------------------------------------------------------
(* Starting and ending a turn.                                             *)

\* runTurn: a fresh control token, hence fresh control, inbox and cancel
\* hooks.  An accepted same-deployment delivery runs inline first.
StartTurn(used, begins, inline) ==
  /\ turn' = turn + 1
  /\ d' = IF inline THEN "inline" ELSE "await"
  /\ t' = IF inline THEN "inline" ELSE "starting"
  /\ control' = <<>> /\ tInbox' = <<>> /\ cancelQ' = <<>>
  /\ cancelLive' = FALSE /\ aborted' = NotAborted /\ initial' = NotAborted
  /\ pending' = 0 /\ reqSeq' = 0 /\ tBuffered' = <<>>
  /\ calls' = {} /\ asking' = {} /\ waits' = 0 /\ asks' = 0
  /\ Use(used)
  /\ started' = started \o begins

\* The driver has the turn's action: the session ends, or it parks, after
\* settleCancelledTurnStep (which drops proxied requests) if it was cancelled.
DriverTakes(action) ==
  /\ d' = IF action = "done" THEN "ended" ELSE "parked"
  /\ prompts' = IF action = "cancelled" THEN {} ELSE prompts
  /\ request' = 0
  /\ outstanding' = <<>>

-----------------------------------------------------------------------------
(* Session commands.                                                       *)

SendCommand(c) ==
  /\ c \notin ToSet(sent)
  /\ \E script \in Scripts : ToSet(sent) \cup {c} \subseteq script
  /\ d # "ended"
  /\ IsDelivery(c) /\ c.answers # NoTask => c.answers \in shown
  /\ sent' = Append(sent, c)
  /\ inbox' = Append(inbox, c)
  /\ UNCHANGED <<shown, driverVars, prompts, turnVars, histVars>>

\* forwardTurnCancellationStep: the driver awaits it.
StartForward(guard) ==
  /\ fwd' = Cancel(guard)
  /\ back' = d
  /\ d' = "cancelling"

StayHere == UNCHANGED <<d, back, fwd>>

\* A cancel guarded by another turn keeps the guard, unless it names a task.
Guard(c) == IF c.task # NoTask /\ c.turn # turn THEN 0 ELSE c.turn

\* TurnControlReceiver.handleSessionCommand.
HandleDelivery(c) ==
  /\ IsDelivery(c)
  /\ IF Accepts(c)
     THEN /\ seen' = Seen(c)
          /\ buffered' = BufferDelivery(c)
          /\ IF Steers(c) THEN StartForward(0) ELSE StayHere
          /\ UNCHANGED dropped
     ELSE /\ dropped' = dropped \cup {c}
          /\ StayHere
          /\ UNCHANGED <<seen, buffered>>
  /\ UNCHANGED <<controls, cancelled>>

HandleControl(c) ==
  /\ c.kind \in {"clear", "timeout", "reset"}
  /\ controls' = Append(controls, ControlOf(c))
  /\ IF c.kind = "reset" THEN StartForward(0) ELSE StayHere
  /\ UNCHANGED <<seen, buffered, cancelled, dropped>>

DiscardTask(c) ==
  LET tasks == cancelled \cup ({c.task} \ {NoTask})
  IN /\ cancelled' = tasks
     /\ buffered' = Keep(buffered, tasks)
     /\ dropped' = dropped \cup Discarded(buffered, tasks)

HandleCancel(c) ==
  /\ c.kind = "cancel"
  /\ DiscardTask(c)
  /\ StartForward(Guard(c))
  /\ UNCHANGED <<seen, controls>>

\* While a request is being serviced an input response is not buffered, it is
\* the delivery to forward.
TakesForRequest(c) == d = "service" /\ IsDelivery(c) /\ ~c.msg /\ Accepts(c)

ReceiverReadsCommand ==
  /\ d \in InTurn
  /\ inbox # <<>>
  /\ LET c == Head(inbox)
     IN /\ ~TakesForRequest(c)
        /\ HandleDelivery(c) \/ HandleControl(c) \/ HandleCancel(c)
  /\ inbox' = Tail(inbox)
  /\ UNCHANGED <<sent, shown, turn, request, outstanding, routing, prompts, turnVars,
                 uses, started, gaveUp>>

\* The private cancel hook exists: the cancellation is committed to it.
ForwardLands ==
  /\ d = "cancelling"
  /\ cancelLive
  /\ cancelQ' = Append(cancelQ, fwd)
  /\ d' = back
  /\ UNCHANGED <<sent, inbox, shown, back, fwd, turn, buffered, controls, seen,
                 cancelled, request, outstanding, routing, prompts, t, control,
                 tInbox, cancelLive, aborted, initial, pending, reqSeq,
                 tBuffered, calls, asking, waits, asks, histVars>>

\* 50 attempts 20 ms apart found no hook: the step returns false, which the
\* receiver does not look at.
ForwardGivesUp ==
  /\ d = "cancelling"
  /\ ~cancelLive
  /\ d' = back
  /\ gaveUp' = (gaveUp \/ t = "starting")
  /\ UNCHANGED <<sent, inbox, shown, back, fwd, turn, buffered, controls, seen,
                 cancelled, request, outstanding, routing, prompts, turnVars,
                 uses, started, dropped>>

-----------------------------------------------------------------------------
(* The driver reads the control hook.                                      *)

\* waitForAction ignores what is neither terminal nor a request.
AwaitReadsControl ==
  /\ d = "await"
  /\ control # <<>>
  /\ LET m == Head(control)
     IN \/ /\ m.kind = "request"
           /\ request' = m.id
           /\ LET i == FirstResponse
              IN IF i = 0
                 THEN /\ d' = "service"
                      /\ UNCHANGED <<buffered, outstanding, tInbox>>
                 ELSE /\ d' = "forwarded"
                      /\ outstanding' = <<buffered[i]>>
                      /\ buffered' = RemoveAt(buffered, i)
                      /\ Relay(m.id, buffered[i])
           /\ UNCHANGED <<prompts, dropped>>
        \/ /\ m.kind = "result"
           /\ buffered' = Keep(m.rem, cancelled) \o buffered
           /\ dropped' = dropped \cup Discarded(m.rem, cancelled)
           /\ DriverTakes(m.action)
           /\ UNCHANGED tInbox
        \/ /\ m.kind = "error"
           /\ d' = "ended"
           /\ UNCHANGED <<buffered, request, outstanding, tInbox, prompts, dropped>>
        \/ /\ m.kind \in {"accepted", "cancelled"}
           /\ UNCHANGED <<d, buffered, request, outstanding, tInbox, prompts, dropped>>
  /\ control' = Tail(control)
  /\ UNCHANGED <<sent, inbox, shown, back, fwd, turn, controls, seen, cancelled,
                 routing, t, cancelLive, cancelQ, aborted, initial, pending,
                 reqSeq, tBuffered, calls, asking, waits, asks, uses, started, gaveUp>>

\* serviceDeliveryRequest, while it waits for an input response.
ServiceReadsControl ==
  /\ d = "service"
  /\ control # <<>>
  /\ LET m == Head(control)
     IN \/ /\ m.kind = "result"
           /\ buffered' = Keep(m.rem, cancelled) \o buffered
           /\ dropped' = dropped \cup Discarded(m.rem, cancelled)
           /\ DriverTakes(m.action)
        \/ /\ m.kind = "error"
           /\ d' = "ended"
           /\ UNCHANGED <<buffered, request, outstanding, prompts, dropped>>
        \/ /\ m.kind = "cancelled" /\ m.id = request
           /\ d' = "await" /\ request' = 0
           /\ UNCHANGED <<buffered, outstanding, prompts, dropped>>
        \/ /\ m.kind \in {"request", "accepted"} \/ (m.kind = "cancelled" /\ m.id # request)
           /\ UNCHANGED <<d, buffered, request, outstanding, prompts, dropped>>
  /\ control' = Tail(control)
  /\ UNCHANGED <<sent, inbox, shown, back, fwd, turn, controls, seen, cancelled,
                 routing, t, tInbox, cancelLive, cancelQ, aborted, initial,
                 pending, reqSeq, tBuffered, calls, asking, waits, asks, uses,
                 started, gaveUp>>

\* serviceDeliveryRequest takes an input response and forwards it.
ServiceTakesResponse ==
  /\ d = "service"
  /\ inbox # <<>>
  /\ LET c == Head(inbox)
     IN /\ TakesForRequest(c)
        /\ seen' = Seen(c)
        /\ outstanding' = <<c>>
        /\ Relay(request, c)
  /\ inbox' = Tail(inbox)
  /\ d' = "forwarded"
  /\ UNCHANGED <<sent, shown, back, fwd, turn, buffered, controls, cancelled, request,
                 routing, prompts, t, control, cancelLive, cancelQ, aborted,
                 initial, pending, reqSeq, tBuffered, calls, asking, waits, asks,
                 histVars>>

\* Wrong variant: a released delivery is not put back.
ReturnedNever == <<>>
\* The provisional delivery of a request that is over, unless its task is.
Returned == Keep(outstanding, cancelled)

\* awaitForwardedDelivery: the delivery is provisional until the turn accepts
\* it; released, it goes back in front, behind the turn's own remainders.
ForwardedReadsControl ==
  /\ d = "forwarded"
  /\ control # <<>>
  /\ LET m == Head(control)
         returned == Returned
         lost == Discarded(outstanding, cancelled)
     IN \/ /\ m.kind = "accepted" /\ m.id = request
           /\ d' = "await" /\ request' = 0 /\ outstanding' = <<>>
           /\ UNCHANGED <<buffered, prompts, dropped>>
        \/ /\ m.kind = "cancelled" /\ m.id = request
           /\ d' = "await" /\ request' = 0 /\ outstanding' = <<>>
           /\ buffered' = returned \o buffered
           /\ dropped' = dropped \cup lost
           /\ UNCHANGED prompts
        \/ /\ m.kind = "result"
           /\ buffered' = Keep(m.rem, cancelled) \o returned \o buffered
           /\ dropped' = dropped \cup lost \cup Discarded(m.rem, cancelled)
           /\ DriverTakes(m.action)
        \/ /\ m.kind = "error"
           /\ d' = "ended"
           /\ UNCHANGED <<buffered, request, outstanding, prompts, dropped>>
        \/ /\ m.kind = "request" \/ (m.kind \in {"accepted", "cancelled"} /\ m.id # request)
           /\ UNCHANGED <<d, buffered, request, outstanding, prompts, dropped>>
  /\ control' = Tail(control)
  /\ UNCHANGED <<sent, inbox, shown, back, fwd, turn, controls, seen, cancelled,
                 routing, t, tInbox, cancelLive, cancelQ, aborted, initial,
                 pending, reqSeq, tBuffered, calls, asking, waits, asks, uses,
                 started, gaveUp>>
-----------------------------------------------------------------------------
(* An inline turn.                                                         *)

\* InlineTurnControl.abort: the first payload wins.
InlineAbort(guard) ==
  initial' = IF initial = NotAborted THEN Cancel(guard) ELSE initial

\* InlineTurnControl.handle.
InlineReadsCommand ==
  /\ d = "inline"
  /\ inbox # <<>>
  /\ LET c == Head(inbox)
     IN \/ /\ IsDelivery(c) /\ Accepts(c)
           /\ seen' = Seen(c)
           /\ buffered' = BufferDelivery(c)
           /\ IF Steers(c) THEN InlineAbort(0) ELSE UNCHANGED initial
           /\ UNCHANGED <<controls, cancelled, dropped>>
        \/ /\ IsDelivery(c) /\ ~Accepts(c)
           /\ dropped' = dropped \cup {c}
           /\ UNCHANGED <<seen, buffered, initial, controls, cancelled>>
        \/ /\ c.kind \in {"clear", "timeout", "reset"}
           /\ controls' = Append(controls, ControlOf(c))
           /\ IF c.kind = "reset" THEN InlineAbort(0) ELSE UNCHANGED initial
           /\ UNCHANGED <<seen, buffered, cancelled, dropped>>
        \/ /\ c.kind = "cancel"
           /\ DiscardTask(c)
           /\ IF Guard(c) \in {0, turn} THEN InlineAbort(Guard(c)) ELSE UNCHANGED initial
           /\ UNCHANGED <<seen, controls>>
  /\ inbox' = Tail(inbox)
  /\ UNCHANGED <<sent, shown, d, back, fwd, turn, request, outstanding, routing,
                 prompts, t, control, tInbox, cancelLive, cancelQ, aborted,
                 pending, reqSeq, tBuffered, calls, asking, waits, asks, uses,
                 started, gaveUp>>

\* The step finished the turn and nothing cancelled it.
InlineSettles(action) ==
  /\ d = "inline"
  /\ initial = NotAborted
  /\ t' = "finished"
  /\ DriverTakes(action)
  /\ UNCHANGED <<sent, inbox, shown, back, fwd, turn, buffered, controls, seen,
                 cancelled, routing, control, tInbox, cancelLive, cancelQ,
                 aborted, initial, pending, reqSeq, tBuffered, calls, asking,
                 waits, asks, histVars>>

\* The step needs the shared turn runner, which starts in this run with the
\* step's result in hand; commands wait until its hooks are claimed.
InlineContinues ==
  /\ d = "inline"
  /\ d' = "await"
  /\ t' = "step"
  /\ cancelLive' = TRUE
  /\ aborted' = initial
  /\ UNCHANGED <<sent, inbox, shown, back, fwd, turn, buffered, controls, seen,
                 cancelled, request, outstanding, routing, prompts, control,
                 tInbox, cancelQ, initial, pending, reqSeq, tBuffered, calls,
                 asking, waits, asks, histVars>>

\* requiresChildDispatch: the turn is handed to a turn run.
InlineToChild ==
  /\ d = "inline"
  /\ d' = "await"
  /\ t' = "starting"
  /\ UNCHANGED <<sent, inbox, shown, back, fwd, turn, buffered, controls, seen,
                 cancelled, request, outstanding, routing, prompts, control,
                 tInbox, cancelLive, cancelQ, aborted, initial, pending, reqSeq,
                 tBuffered, calls, asking, waits, asks, histVars>>

-----------------------------------------------------------------------------
(* The turn run.                                                           *)

\* A step of the turn run leaves the driver alone; prompts it records reach the
\* users.
TurnOnly == UNCHANGED <<sent, inbox, driverVars>> /\ shown' = shown \cup prompts'

\* The run claims its inbox and then its cancel hook.  A second run started by
\* a repeated dispatch loses the inbox claim and returns.
TurnClaims ==
  /\ t = "starting"
  /\ t' = "step"
  /\ cancelLive' = TRUE
  /\ aborted' = IF initial # NotAborted /\ Matches(initial) THEN initial
                 ELSE NotAborted
  /\ UNCHANGED <<prompts, control, tInbox, cancelQ, initial, pending, reqSeq,
                 tBuffered, calls, asking, waits, asks, histVars>>
  /\ TurnOnly

\* consumeMatchingCancel: payloads guarded for another turn are skipped; after
\* the first match nothing is read.
TurnReadsCancel ==
  /\ Running
  /\ aborted = NotAborted
  /\ cancelQ # <<>>
  /\ aborted' = IF Matches(Head(cancelQ)) THEN Head(cancelQ) ELSE NotAborted
  /\ cancelQ' = Tail(cancelQ)
  /\ UNCHANGED <<prompts, t, control, tInbox, cancelLive, initial, pending,
                 reqSeq, tBuffered, calls, asking, waits, asks, histVars>>
  /\ TurnOnly

\* The cancel hook is released before the terminal result is published.
Finish(action) ==
  /\ t' = "finished"
  /\ cancelLive' = FALSE
  /\ Send(Result(action))

\* The step returned done or park, and the abort signal is not set.
TurnSettles(action) ==
  /\ t = "step"
  /\ aborted = NotAborted
  /\ Finish(action)
  /\ UNCHANGED <<prompts, tInbox, cancelQ, aborted, initial, pending, reqSeq,
                 tBuffered, calls, asking, waits, asks, histVars>>
  /\ TurnOnly

\* The step observed the abort, or completed without pending calls after it
\* (its result is rolled back): finishCancelledTurn cancels the descendants.
TurnCancels ==
  /\ t = "step"
  /\ aborted # NotAborted
  /\ calls' = {}
  /\ asking' = {}
  /\ Finish("cancelled")
  /\ UNCHANGED <<prompts, tInbox, cancelQ, aborted, initial, pending, reqSeq,
                 tBuffered, waits, asks, histVars>>
  /\ TurnOnly

\* The step left calls pending: they are dispatched and the turn waits.
TurnDispatches(cs) ==
  /\ t = "step"
  /\ cs # {}
  /\ waits < MaxWaits
  /\ waits' = waits + 1
  /\ calls' = cs
  /\ t' = "wait"
  /\ UNCHANGED <<prompts, control, tInbox, cancelLive, cancelQ, aborted, initial,
                 pending, reqSeq, tBuffered, asking, asks, histVars>>
  /\ TurnOnly

TurnFails ==
  /\ Running
  /\ t' = "finished"
  /\ cancelLive' = FALSE
  /\ Send(Msg("error", 0))
  /\ UNCHANGED <<prompts, tInbox, cancelQ, aborted, initial, pending, reqSeq,
                 tBuffered, calls, asking, waits, asks, histVars>>
  /\ TurnOnly

\* waitForRuntimeActionResults with proxied requests and no request out.
TurnRequests ==
  /\ t = "wait" /\ calls # {}
  /\ prompts # {} /\ pending = 0
  /\ pending' = reqSeq + 1
  /\ reqSeq' = reqSeq + 1
  /\ Send(Msg("request", reqSeq + 1))
  /\ UNCHANGED <<prompts, t, tInbox, cancelLive, cancelQ, aborted, initial,
                 tBuffered, calls, asking, waits, asks, histVars>>
  /\ TurnOnly

\* Wrong variant: the request that is out is not released.
TurnLeavesWaitSilently ==
  /\ t = "wait"
  /\ calls = {} \/ aborted # NotAborted
  /\ t' = "step"
  /\ pending' = 0
  /\ UNCHANGED <<prompts, control, tInbox, cancelLive, cancelQ, aborted, initial,
                 reqSeq, tBuffered, calls, asking, waits, asks, histVars>>
  /\ TurnOnly

\* All results are in, or the cancel won the race: release a request that is
\* out and leave the wait for the next step.
TurnLeavesWait ==
  /\ t = "wait"
  /\ calls = {} \/ aborted # NotAborted
  /\ t' = "step"
  /\ IF pending # 0 THEN Send(Msg("cancelled", pending)) ELSE UNCHANGED control
  /\ pending' = 0
  /\ UNCHANGED <<prompts, tInbox, cancelLive, cancelQ, aborted, initial, reqSeq,
                 tBuffered, calls, asking, waits, asks, histVars>>
  /\ TurnOnly

\* The wait reads its inbox once a request is out for the prompts it knows.
Waiting == t = "wait" /\ calls # {} /\ (prompts = {} \/ pending # 0)

TurnReadsChild ==
  /\ Waiting
  /\ tInbox # <<>>
  /\ LET m == Head(tInbox)
     IN \/ m.kind = "result" /\ calls' = calls \ {m.id} /\ UNCHANGED prompts
        \/ m.kind = "ask" /\ m.id \in calls /\ prompts' = prompts \cup {m.id} /\ UNCHANGED calls
        \/ m.kind = "ask" /\ m.id \notin calls /\ UNCHANGED <<calls, prompts>>
  /\ tInbox' = Tail(tInbox)
  /\ UNCHANGED <<t, control, cancelLive, cancelQ, aborted, initial, pending,
                 reqSeq, tBuffered, asking, waits, asks, histVars>>
  /\ TurnOnly

\* Wrong variant: any forwarded delivery answers the request that is out.
AcceptedAny(m) == m.kind = "delivery" /\ pending # 0
\* The forwarded delivery carries the id of the request that is out.
Accepted(m) == m.kind = "delivery" /\ m.id = pending

\* A driver-delivery with a stale request id was re-buffered by the driver.
TurnIgnoresDelivery ==
  /\ Waiting
  /\ tInbox # <<>>
  /\ Head(tInbox).kind = "delivery" /\ ~Accepted(Head(tInbox))
  /\ tInbox' = Tail(tInbox)
  /\ UNCHANGED <<prompts, t, control, cancelLive, cancelQ, aborted, initial,
                 pending, reqSeq, tBuffered, calls, asking, waits, asks, histVars>>
  /\ TurnOnly

\* The turn accepts the delivery it asked for and routes it.
TurnAccepts ==
  /\ Waiting
  /\ tInbox # <<>>
  /\ Accepted(Head(tInbox))
  /\ LET ds == <<Head(tInbox).what>>
     IN /\ prompts' = RoutedPrompts(ds) \ Answered(ds)
        /\ Use(ToChild(ds) \cup {c \in ToSet(ds) : c.prompt})
        /\ IF CancelsTurn(ds)
           THEN /\ \E first, second \in Resends :
                     control' = control \o Copies(Msg("accepted", pending), first)
                                        \o Copies(Result("cancelled"), second)
                /\ t' = "finished"
                /\ cancelLive' = FALSE
                /\ calls' = {}
                /\ asking' = {}
                /\ UNCHANGED tBuffered
           ELSE /\ Send(Msg("accepted", pending))
                /\ tBuffered' = tBuffered \o Remainder(ds)
                /\ asking' = asking \ Answered(ds)
                /\ UNCHANGED <<t, cancelLive, calls>>
  /\ pending' = 0
  /\ tInbox' = Tail(tInbox)
  /\ UNCHANGED <<cancelQ, aborted, initial, reqSeq, waits, asks, started, dropped, gaveUp>>
  /\ TurnOnly

\* Children of the current wait (external): a child raises an input request
\* and blocks, or reports its result.
ChildAsks(c) ==
  /\ t = "wait" /\ c \in calls \ asking
  /\ asks < MaxAsks
  /\ ~ \E i \in DOMAIN tInbox : tInbox[i].kind = "result" /\ tInbox[i].id = c
  /\ asks' = asks + 1
  /\ asking' = asking \cup {c}
  /\ tInbox' = Append(tInbox, [kind |-> "ask", id |-> c])
  /\ UNCHANGED <<prompts, t, control, cancelLive, cancelQ, aborted, initial,
                 pending, reqSeq, tBuffered, calls, waits, histVars>>
  /\ TurnOnly

ChildSettles(c) ==
  /\ t = "wait" /\ c \in calls \ asking
  /\ ~ \E i \in DOMAIN tInbox : tInbox[i].kind = "result" /\ tInbox[i].id = c
  /\ tInbox' = Append(tInbox, [kind |-> "result", id |-> c])
  /\ UNCHANGED <<prompts, t, control, cancelLive, cancelQ, aborted, initial,
                 pending, reqSeq, tBuffered, calls, asking, waits, asks,
                 histVars>>
  /\ TurnOnly

-----------------------------------------------------------------------------
(* The parked driver.                                                      *)

\* A buffered session control comes first: clear runs a turn, reset and the
\* timeout end the session.
ParkedTakesControl(inline) ==
  /\ d = "parked"
  /\ controls # <<>>
  /\ controls' = Tail(controls)
  /\ IF Head(controls) = "clear"
     THEN StartTurn({}, <<>>, inline)
     ELSE /\ d' = "ended"
          /\ UNCHANGED <<turn, turnVars, uses, started>>
  /\ UNCHANGED <<sent, inbox, shown, back, fwd, buffered, seen, cancelled, request,
                 outstanding, routing, prompts, dropped, gaveUp>>

\* waitForNextSessionAction drops heads of cancelled tasks, then takes what
\* coalesces with the head.
ParkedTakesBuffered ==
  /\ d = "parked"
  /\ controls = <<>>
  /\ buffered # <<>>
  /\ IF Discarded(<<Head(buffered)>>, cancelled) # {}
     THEN /\ dropped' = dropped \cup {Head(buffered)}
          /\ buffered' = Tail(buffered)
          /\ UNCHANGED <<d, routing>>
     ELSE /\ routing' = SubSeq(buffered, 1, MergeLen(buffered))
          /\ buffered' = SubSeq(buffered, MergeLen(buffered) + 1, Len(buffered))
          /\ d' = "routing"
          /\ UNCHANGED dropped
  /\ UNCHANGED <<sent, inbox, shown, back, fwd, turn, controls, seen, cancelled,
                 request, outstanding, prompts, turnVars, uses, started, gaveUp>>

\* With empty buffers it reads the inbox.  A cancel is a no-op for turns.
ParkedReadsCommand ==
  /\ d = "parked"
  /\ controls = <<>> /\ buffered = <<>>
  /\ inbox # <<>>
  /\ LET c == Head(inbox)
     IN \/ /\ IsDelivery(c) /\ Accepts(c)
           /\ seen' = Seen(c)
           /\ routing' = <<c>>
           /\ d' = "routing"
           /\ UNCHANGED <<controls, buffered, cancelled, dropped>>
        \/ /\ IsDelivery(c) /\ ~Accepts(c)
           /\ dropped' = dropped \cup {c}
           /\ UNCHANGED <<d, seen, routing, controls, buffered, cancelled>>
        \/ /\ c.kind = "cancel"
           /\ DiscardTask(c)
           /\ UNCHANGED <<d, seen, routing, controls>>
        \/ /\ c.kind \in {"clear", "reset", "timeout"}
           /\ controls' = <<ControlOf(c)>>
           /\ UNCHANGED <<d, seen, routing, buffered, cancelled, dropped>>
  /\ inbox' = Tail(inbox)
  /\ UNCHANGED <<sent, shown, back, fwd, turn, request, outstanding, prompts, turnVars,
                 uses, started, gaveUp>>

\* routeDeliverToChildren returned a remainder for a parent turn.
RoutedToTurn(inline) ==
  /\ d = "routing"
  /\ ~CancelsTurn(routing)
  /\ Remainder(routing) # <<>>
  /\ prompts' = RoutedPrompts(routing) \ Answered(routing)
  /\ shown' = shown \cup RoutedPrompts(routing)
  /\ routing' = <<>>
  /\ StartTurn(ToSet(routing), Remainder(routing), inline)
  /\ UNCHANGED <<sent, inbox, back, fwd, buffered, controls, seen, cancelled,
                 request, outstanding, dropped, gaveUp>>

\* Everything went to descendants (stay parked), or a session limit was
\* declined: cancelDescendantTurnsStep and settleCancelledTurnStep, then park.
RoutedAway ==
  /\ d = "routing"
  /\ CancelsTurn(routing) \/ Remainder(routing) = <<>>
  /\ prompts' = IF CancelsTurn(routing) THEN {}
                ELSE RoutedPrompts(routing) \ Answered(routing)
  /\ Use(ToChild(routing) \cup {c \in ToSet(routing) : c.prompt})
  /\ shown' = shown \cup RoutedPrompts(routing)
  /\ routing' = <<>>
  /\ d' = "parked"
  /\ UNCHANGED <<sent, inbox, back, fwd, turn, buffered, controls, seen,
                 cancelled, request, outstanding, turnVars, started, dropped, gaveUp>>

-----------------------------------------------------------------------------
Init ==
  /\ sent = <<>> /\ inbox = <<>> /\ shown = {}
  /\ \E inline \in BOOLEAN :
       /\ d = IF inline THEN "inline" ELSE "await"
       /\ t = IF inline THEN "inline" ELSE "starting"
  /\ back = "await" /\ fwd = NotAborted
  /\ turn = 1
  /\ buffered = <<>> /\ controls = <<>> /\ seen = {} /\ cancelled = {}
  /\ request = 0 /\ outstanding = <<>> /\ routing = <<>> /\ prompts = {}
  /\ control = <<>> /\ tInbox = <<>> /\ cancelLive = FALSE /\ cancelQ = <<>>
  /\ aborted = NotAborted /\ initial = NotAborted /\ pending = 0 /\ reqSeq = 0
  /\ tBuffered = <<>> /\ calls = {} /\ asking = {} /\ waits = 0 /\ asks = 0
  /\ uses = [c \in Deliveries |-> 0]
  /\ started = <<>> /\ dropped = {} /\ gaveUp = FALSE

DriverNext ==
  \/ ReceiverReadsCommand
  \/ ForwardLands
  \/ ForwardGivesUp
  \/ AwaitReadsControl
  \/ ServiceReadsControl
  \/ ServiceTakesResponse
  \/ ForwardedReadsControl
  \/ InlineReadsCommand
  \/ \E action \in {"done", "park"} : InlineSettles(action)
  \/ InlineContinues
  \/ InlineToChild
  \/ \E inline \in BOOLEAN : ParkedTakesControl(inline)
  \/ ParkedTakesBuffered
  \/ ParkedReadsCommand
  \/ \E inline \in BOOLEAN : RoutedToTurn(inline)
  \/ RoutedAway

TurnNext ==
  \/ TurnClaims
  \/ TurnReadsCancel
  \/ \E action \in {"done", "park"} : TurnSettles(action)
  \/ TurnCancels
  \/ \E cs \in SUBSET Calls : TurnDispatches(cs)
  \/ TurnFails
  \/ TurnRequests
  \/ TurnLeavesWait
  \/ TurnReadsChild
  \/ TurnIgnoresDelivery
  \/ TurnAccepts

Next ==
  \/ \E c \in Commands : SendCommand(c)
  \/ \E c \in Calls : ChildAsks(c) \/ ChildSettles(c)
  \/ DriverNext
  \/ TurnNext

Spec == Init /\ [][Next]_vars

(***************************************************************************)
(* The driver's and the turn's code runs on whenever it is not waiting for *)
(* someone else, a dispatched turn run starts, and a turn step returns.    *)
(* Nothing forces a producer to send or a child to answer.                 *)
(***************************************************************************)
StepReturns ==
  /\ t = "step"
  /\ \/ \E action \in {"done", "park"} : TurnSettles(action)
     \/ TurnCancels
     \/ \E cs \in SUBSET Calls : TurnDispatches(cs)
     \/ TurnFails
InlineReturns ==
  \/ \E action \in {"done", "park"} : InlineSettles(action)
  \/ InlineContinues
  \/ InlineToChild

Fairness ==
  /\ WF_vars(ReceiverReadsCommand) /\ WF_vars(ForwardLands) /\ WF_vars(ForwardGivesUp)
  /\ WF_vars(AwaitReadsControl) /\ WF_vars(ServiceReadsControl)
  /\ WF_vars(ServiceTakesResponse) /\ WF_vars(ForwardedReadsControl)
  /\ WF_vars(InlineReadsCommand) /\ WF_vars(InlineReturns)
  /\ WF_vars(\E inline \in BOOLEAN : ParkedTakesControl(inline))
  /\ WF_vars(ParkedTakesBuffered) /\ WF_vars(ParkedReadsCommand)
  /\ WF_vars(\E inline \in BOOLEAN : RoutedToTurn(inline)) /\ WF_vars(RoutedAway)
  /\ WF_vars(TurnClaims) /\ WF_vars(TurnReadsCancel) /\ WF_vars(StepReturns)
  /\ WF_vars(TurnRequests) /\ WF_vars(TurnLeavesWait) /\ WF_vars(TurnReadsChild)
  /\ WF_vars(TurnIgnoresDelivery) /\ WF_vars(TurnAccepts)

FairSpec == Spec /\ Fairness

-----------------------------------------------------------------------------
(* Properties.                                                             *)

Payload == [guard : Nat, from : Nat]

\* Type invariant: the buffers hold commands, the hooks hold messages of their
\* protocol, and the modes are those of the code.
TypeOK ==
  /\ sent \in Seq(Commands) /\ inbox \in Seq(Commands)
  /\ d \in DriverModes /\ back \in InTurn /\ fwd \in Payload
  /\ turn \in Nat
  /\ buffered \in Seq(Deliveries)
  /\ controls \in Seq({"clear", "expired", "reset"})
  /\ request \in Nat /\ pending \in Nat /\ reqSeq \in Nat
  /\ outstanding \in Seq(Deliveries) /\ Len(outstanding) <= 1
  /\ routing \in Seq(Deliveries)
  /\ prompts \subseteq Prompts /\ shown \subseteq Prompts
  /\ t \in TurnModes
  /\ \A i \in DOMAIN control : /\ control[i].kind \in ControlKinds
                               /\ control[i].rem \in Seq(Deliveries)
  /\ \A i \in DOMAIN tInbox : tInbox[i].kind \in {"delivery", "ask", "result"}
  /\ cancelLive \in BOOLEAN
  /\ cancelQ \in Seq(Payload)
  /\ aborted \in Payload /\ initial \in Payload
  /\ tBuffered \in Seq(Deliveries)
  /\ calls \subseteq Calls /\ asking \subseteq Calls
  /\ waits \in 0..MaxWaits /\ asks \in 0..MaxAsks
  /\ uses \in [Deliveries -> Nat]
  /\ started \in Seq(Deliveries)
  /\ dropped \subseteq Deliveries
  /\ gaveUp \in BOOLEAN

\* Forwarding a delivery is provisional and control sends repeat, yet no
\* delivery begins a turn or reaches a child twice.
UsedAtMostOnce == \A c \in Deliveries : uses[c] <= 1

\* Where a delivery can wait between two steps.
Held ==
  ToSet(inbox) \cup ToSet(buffered) \cup ToSet(outstanding) \cup ToSet(routing)
    \cup ToSet(tBuffered)
    \cup UNION {ToSet(control[i].rem) : i \in DOMAIN control}

\* "eve first durably buffers the message": while the session lives, a delivery
\* that no turn and no child got, and that was not discarded with its task, is
\* still held by the driver or by the turn that accepted it, whatever was
\* cancelled or released meanwhile.
NoDeliveryLost ==
  d # "ended" =>
    \A c \in Deliveries \cap ToSet(sent) :
      uses[c] = 0 /\ c \notin dropped => c \in Held

\* A turn blocked on a delivery request is being served: its request is still
\* on the control hook, or the driver is servicing exactly that request.
\* Repeated sends, late acknowledgements and released requests never make the
\* driver drop the one the turn is waiting on.
RequestIsServed ==
  t = "wait" /\ pending # 0 /\ d # "ended" =>
    \/ \E i \in DOMAIN control : control[i].kind = "request" /\ control[i].id = pending
    \/ /\ request = pending
       /\ d \in {"service", "forwarded"} \/ (d = "cancelling" /\ back \in {"service", "forwarded"})

\* A cancellation only ever aborts the turn during which its command was read,
\* and a guarded one only the turn it names.
CancelHitsItsTurn ==
  aborted # NotAborted => aborted.from = turn /\ aborted.guard \in {0, turn}

\* "Multiple replacement messages retain their durable arrival order": messages
\* begin turns in the order they were sent, also when turns they interrupted
\* hand deliveries back.
MessagesBeginInOrder ==
  \A i, j \in DOMAIN started :
    i < j /\ started[i].msg /\ started[j].msg =>
      SelectInSeq(sent, LAMBDA c : c = started[i])
        < SelectInSeq(sent, LAMBDA c : c = started[j])

\* "The cancelled task cannot publish a later" result: once the driver has
\* read a task's cancellation, no delivery of that task begins a turn, wherever
\* it was waiting.
CancelledTaskBeginsNoTurn ==
  [][\A i \in DOMAIN started' \ DOMAIN started :
       started'[i].did # NoTask => started'[i].task \notin cancelled]_vars

\* Producers repeat task deliveries, and seenTaskDeliveries is shared by every
\* reader of the inbox: of all the copies of one delivery id, at most one
\* begins a turn or reaches a child.
TaskDeliveryOnce ==
  \A x \in Deliveries : x.did # NoTask =>
    Cardinality({c \in Deliveries : c.did = x.did /\ uses[c] > 0}) <= 1

\* A response to a request that a waiting turn has proxied reaches that turn:
\* neither the buffers nor the request handshake can hold it back forever.
AnswersReachTheTurn ==
  \A c \in Deliveries :
    (c \in ToSet(sent) /\ ~c.msg /\ t = "wait" /\ c.answers \in prompts)
      ~> (uses[c] > 0 \/ c \in dropped \/ d = "ended" \/ c.answers \notin prompts)

\* docs/channels/overview.mdx:18: "eve first durably buffers the message, then
\* cooperatively cancels the active turn and starts a replacement turn": even if
\* the turn's children never answer.  The exception, gaveUp: the forwarded
\* cancellation runs out of attempts before the turn run has claimed its hook.
SteerReplacesStartedTurn ==
  \A c \in Deliveries :
    (c \in ToSet(sent) /\ c.steer /\ c.msg)
      ~> (uses[c] > 0 \/ c \in dropped \/ d = "ended" \/ gaveUp)

=============================================================================
