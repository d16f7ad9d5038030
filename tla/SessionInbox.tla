---------------------------- MODULE SessionInbox ----------------------------
(***************************************************************************)
(* The command inbox of one session driver                                 *)
(* (packages/eve/src/execution/session-command-inbox.ts) and the way the   *)
(* driver uses it: TurnControlReceiver reads it while a turn is active,    *)
(* nextTurnDelivery reads it while the session is parked, and either may   *)
(* rekey the channel alias between two reads.                              *)
(*                                                                         *)
(* A hook is a durable queue kept by the workflow runtime (external).  The *)
(* n-th payload committed to hook h is the pair <<h, n>>; what a payload   *)
(* contains is abstracted to how the driver classifies it when it reads    *)
(* it.  Every JavaScript promise continuation that can interleave with     *)
(* another one is an action of its own.                                    *)
(***************************************************************************)
EXTENDS Integers, Sequences, FiniteSets, SequencesExt, FiniteSetsExt

CONSTANTS
  Stable,       \* the hook `${sessionId}:session`, held for the session's life
  Auth,         \* the authorization-callback hook
  Aliases,      \* the successive channel aliases (one hook instance each)
  NoHook,       \* the undefined hook slot
  MaxPayloads,  \* bound: payloads committed to one hook
  MaxCommits    \* bound: payloads committed altogether

Hooks == {Stable, Auth} \cup Aliases

ASSUME InboxConstants ==
  /\ Stable # Auth
  /\ Stable \notin Aliases /\ Auth \notin Aliases
  /\ NoHook \notin Hooks
  /\ MaxPayloads \in Nat /\ MaxCommits \in Nat

VARIABLES
  \* ---- the workflow runtime -------------------------------------------
  committed,    \* committed[h]: payloads the runtime has accepted for h
  live,         \* hooks that accept payloads: created, not disposed
  read,         \* read[h]: payloads of h handed to a read of the inbox
  \* ---- session-command-inbox.ts ---------------------------------------
  stable, continuation, authorization,   \* the three hook slots
  retired,      \* hooks in the `retired` list
  pending,      \* state.pending: a read was armed and not consumed
  enabled,      \* state.enabled: a resolved read may be enqueued
  resolved,     \* state.resolved: the read of h not consumed yet, or NoRead
  ready,        \* the ready queue, sorted by order
  nextOrder,
  offered,      \* the offered promise: "none", "waiting" or "resolved"
  offeredRead,
  \* ---- the driver ------------------------------------------------------
  mode,         \* what the driver is doing, see Modes
  awaitAuth,    \* the current parked wait holds the authorization window
  defer,        \* the current parked wait defers deliveries (task mode)
  controls,     \* bufferedSessionControls.length
  deliveries,   \* bufferedDeliveries.length
  rekeyTo,      \* the alias rekeyContinuation is claiming, or NoHook
  rekeyFrom,    \* the alias it is about to release, or NoHook
  \* ---- history ---------------------------------------------------------
  consumed      \* consumed[h]: h's reads passed to consumeNext, with their use

inboxVars == <<stable, continuation, authorization, retired, pending, enabled,
               resolved, ready, nextOrder, offered, offeredRead>>
worldVars == <<committed, live, read>>
waitVars  == <<awaitAuth, defer, controls, deliveries>>
rekeyVars == <<rekeyTo, rekeyFrom>>
vars == <<worldVars, inboxVars, mode, waitVars, rekeyVars, consumed>>

(***************************************************************************)
(* A HookRead.  done stands for result.done: the runtime only ends a hook  *)
(* iterator when it is closed, which this inbox never does, so every read  *)
(* carries a payload and state.closed stays false.                         *)
(***************************************************************************)
Read == [hook : Hooks, n : 1..MaxPayloads, order : Nat]
NoRead == [hook |-> NoHook, n |-> 0, order |-> 0]

(***************************************************************************)
(* claiming  the driver is claiming its hooks before the first turn        *)
(* drain     a turn began while an unconsumed read was already offered:    *)
(*           the race against the fresh control hook takes that read first *)
(* turn      a turn is active; reads race with the turn's control messages *)
(* settled   the turn returned its action, the driver has not parked yet   *)
(* check     waitForNextSessionAction looks at the buffers                 *)
(* reading   it loops on nextWithSource                                    *)
(* routing   routeDeliverToChildren is running                             *)
(* leaving   the wait has its instruction; the finally block has not run   *)
(* disposed  the session ended                                             *)
(***************************************************************************)
Modes == {"claiming", "drain", "turn", "settled", "check", "reading",
          "routing", "leaving", "disposed"}
TurnModes == {"drain", "turn"}
WaitModes == {"check", "reading", "routing", "leaving"}

-----------------------------------------------------------------------------
(* Inbox helpers.                                                          *)

\* enqueue: push, then sort by order.  The queue is sorted already, so the read
\* goes before the first later one.
Insert(q, r) ==
  LET i == SelectInSeq(q, LAMBDA x : x.order > r.order)
  IN IF i = 0 THEN Append(q, r) ELSE InsertAt(q, i, r)

\* states(): the hooks nextRead arms.
States == ({stable, continuation, authorization} \ {NoHook}) \cup retired

\* arm() changes only `pending` until the runtime answers the read.
Armed(p, hs) == p \cup hs

\* The async body of `offered`: take the head as soon as there is one.
TakeHead(q) ==
  IF q = <<>>
  THEN /\ offered' = "waiting"
       /\ offeredRead' = NoRead
       /\ ready' = q
  ELSE /\ offered' = "resolved"
       /\ offeredRead' = Head(q)
       /\ ready' = Tail(q)

\* nextRead() when nothing is offered: arm every hook and take the oldest
\* ready read, or wait.
NextRead ==
  /\ offered = "none"
  /\ pending' = Armed(pending, States)
  /\ TakeHead(ready)
  /\ UNCHANGED <<stable, continuation, authorization, retired, enabled,
                 resolved, nextOrder>>

\* consumeNext(), with the history of how the read was taken.
ConsumeNext(as) ==
  /\ offered = "resolved"
  /\ pending' = pending \ {offeredRead.hook}
  /\ resolved' = [resolved EXCEPT ![offeredRead.hook] = NoRead]
  /\ offered' = "none"
  /\ offeredRead' = NoRead
  /\ consumed' = [consumed EXCEPT ![offeredRead.hook] =
                     Append(@, [n |-> offeredRead.n, as |-> as])]
  /\ UNCHANGED <<stable, continuation, authorization, retired, enabled, ready,
                 nextOrder>>

\* hasReadyAuthorization().
HasReadyAuthorization ==
  /\ authorization # NoHook
  /\ authorization \in enabled
  /\ resolved[authorization] # NoRead
  /\ IF offered = "resolved"
     THEN offeredRead.hook = authorization
     ELSE ready # <<>> /\ Head(ready).hook = authorization

\* Wrong variant: a later session read that is already offered keeps its place.
OpenWindowBehind ==
  LET r == resolved[Auth]
  IN /\ enabled' = enabled \cup {Auth}
     /\ ready' = IF Auth \notin enabled /\ r # NoRead THEN Insert(ready, r) ELSE ready
     /\ pending' = IF offered = "none" THEN pending ELSE Armed(pending, {Auth})
     /\ UNCHANGED <<stable, continuation, authorization, retired, resolved,
                    nextOrder, offered, offeredRead>>

\* setAuthorizationWindow(true): enable the hook, which enqueues its stashed
\* read; put back an offered session read the callback is older than; arm the
\* hook if a read is outstanding.
OpenWindow ==
  LET r == resolved[Auth]
      q == IF Auth \notin enabled /\ r # NoRead THEN Insert(ready, r) ELSE ready
      supersede == /\ offered = "resolved"
                   /\ offeredRead.hook # Auth
                   /\ r # NoRead
                   /\ r.order < offeredRead.order
  IN /\ enabled' = enabled \cup {Auth}
     /\ ready' = IF supersede THEN Insert(q, offeredRead) ELSE q
     /\ offered' = IF supersede THEN "none" ELSE offered
     /\ offeredRead' = IF supersede THEN NoRead ELSE offeredRead
     /\ pending' = IF supersede \/ offered = "none" THEN pending
                   ELSE Armed(pending, {Auth})
     /\ UNCHANGED <<stable, continuation, authorization, retired, resolved,
                    nextOrder>>

\* The queue without its first authorization read.
WithoutCallback(q) ==
  LET i == SelectInSeq(q, LAMBDA r : r.hook = Auth)
  IN IF i = 0 THEN q ELSE RemoveAt(q, i)

\* Wrong variant: the enqueued read stays in the queue.
CloseWindowKeepsReady ==
  /\ enabled' = enabled \ {Auth}
  /\ UNCHANGED <<stable, continuation, authorization, retired, pending,
                 resolved, nextOrder, ready, offered, offeredRead>>

\* setAuthorizationWindow(false): stash again a read that is enqueued.  The
\* read already offered is not withdrawn.
CloseWindow ==
  /\ enabled' = enabled \ {Auth}
  /\ ready' = WithoutCallback(ready)
  /\ UNCHANGED <<stable, continuation, authorization, retired, pending,
                 resolved, nextOrder, offered, offeredRead>>

-----------------------------------------------------------------------------
(* The workflow runtime.                                                   *)

\* A producer resumes a hook by token; the runtime commits the payload.
Commit(h) ==
  /\ h \in live
  /\ committed[h] < MaxPayloads
  /\ MapThenSumSet(LAMBDA g : committed[g], Hooks) < MaxCommits
  /\ committed' = [committed EXCEPT ![h] = @ + 1]
  /\ UNCHANGED <<live, read, inboxVars, mode, waitVars, rekeyVars, consumed>>

\* An armed read of h resolves with the next committed payload.  A read of a
\* released hook resolves too while committed payloads are left, and rejects
\* (which the inbox ignores) when none is.
ReadResolves(h) ==
  /\ mode # "disposed"
  /\ h \in pending
  /\ resolved[h] = NoRead
  /\ read[h] < committed[h]
  /\ LET r == [hook |-> h, n |-> read[h] + 1, order |-> nextOrder]
     IN /\ resolved' = [resolved EXCEPT ![h] = r]
        /\ ready' = IF h \in enabled THEN Insert(ready, r) ELSE ready
  /\ read' = [read EXCEPT ![h] = @ + 1]
  /\ nextOrder' = nextOrder + 1
  /\ UNCHANGED <<committed, live, stable, continuation, authorization, retired,
                 pending, enabled, offered, offeredRead, mode, waitVars,
                 rekeyVars, consumed>>

\* The continuation of a woken `offered` promise.
OfferedWakes ==
  /\ mode # "disposed"
  /\ offered = "waiting"
  /\ ready # <<>>
  /\ TakeHead(ready)
  /\ UNCHANGED <<worldVars, stable, continuation, authorization, retired,
                 pending, enabled, resolved, nextOrder, mode, waitVars,
                 rekeyVars, consumed>>

-----------------------------------------------------------------------------
(* Claiming, rekeying and releasing hooks.                                 *)

ClaimStable ==
  /\ mode = "claiming"
  /\ stable = NoHook
  /\ stable' = Stable
  /\ live' = live \cup {Stable}
  /\ enabled' = enabled \cup {Stable}
  /\ UNCHANGED <<committed, read, continuation, authorization, retired, pending,
                 resolved, ready, nextOrder, offered, offeredRead, mode,
                 waitVars, rekeyVars, consumed>>

ClaimAuthorization ==
  /\ mode = "claiming"
  /\ authorization = NoHook
  /\ authorization' = Auth
  /\ live' = live \cup {Auth}
  /\ UNCHANGED <<committed, read, stable, continuation, retired, pending,
                 enabled, resolved, ready, nextOrder, offered, offeredRead, mode,
                 waitVars, rekeyVars, consumed>>

\* All claims settled: the first turn starts.
StartDriver ==
  /\ mode = "claiming"
  /\ stable # NoHook /\ authorization # NoHook
  /\ rekeyTo = NoHook
  /\ mode' = "turn"
  /\ UNCHANGED <<worldVars, inboxVars, waitVars, rekeyVars, consumed>>

\* The driver calls rekeyContinuation while it claims its hooks, from a turn
\* control message, and before it parks.
RekeyModes == {"claiming", "turn", "settled"}

\* rekeyContinuation(token), up to the await of the claim.  Replacing an alias
\* arms the candidate first.
RekeyStart(a) ==
  /\ mode \in RekeyModes
  /\ mode = "claiming" => continuation = NoHook
  /\ rekeyTo = NoHook
  /\ a \notin live /\ read[a] = 0 /\ committed[a] = 0
  /\ a \notin retired /\ continuation # a
  /\ rekeyTo' = a
  /\ live' = live \cup {a}
  /\ pending' = IF continuation = NoHook THEN pending
                ELSE Armed(pending, {a})
  /\ UNCHANGED <<committed, read, stable, continuation, authorization, retired,
                 enabled, resolved, ready, nextOrder, offered, offeredRead, mode,
                 waitVars, rekeyFrom, consumed>>

\* Wrong variant: what the candidate already read is not enqueued.
RekeyClaimedDropsRead ==
  /\ rekeyTo # NoHook /\ rekeyFrom = NoHook
  /\ enabled' = enabled \cup {rekeyTo}
  /\ continuation' = rekeyTo
  /\ IF continuation = NoHook
     THEN /\ pending' = IF offered = "none" THEN pending
                        ELSE Armed(pending, {rekeyTo})
          /\ rekeyTo' = NoHook
          /\ UNCHANGED rekeyFrom
     ELSE /\ pending' = Armed(pending, {continuation})
          /\ rekeyFrom' = continuation
          /\ UNCHANGED rekeyTo
  /\ UNCHANGED <<worldVars, stable, authorization, retired, resolved, nextOrder,
                 ready, offered, offeredRead, mode, waitVars, consumed>>

\* The claim of the candidate succeeded: enable it, make it the alias, and, if
\* it replaces one, arm a last read of the previous alias and release it.
RekeyClaimed ==
  /\ rekeyTo # NoHook /\ rekeyFrom = NoHook
  /\ enabled' = enabled \cup {rekeyTo}
  /\ ready' = IF resolved[rekeyTo] # NoRead THEN Insert(ready, resolved[rekeyTo])
              ELSE ready
  /\ continuation' = rekeyTo
  /\ IF continuation = NoHook
     THEN /\ pending' = IF offered = "none" THEN pending
                        ELSE Armed(pending, {rekeyTo})
          /\ rekeyTo' = NoHook
          /\ UNCHANGED rekeyFrom
     ELSE /\ pending' = Armed(pending, {continuation})
          /\ rekeyFrom' = continuation
          /\ UNCHANGED rekeyTo
  /\ UNCHANGED <<worldVars, stable, authorization, retired, resolved, nextOrder,
                 offered, offeredRead, mode, waitVars, consumed>>

\* Wrong variant: the released alias is forgotten.
RekeyReleasedForgets ==
  /\ rekeyFrom # NoHook
  /\ live' = live \ {rekeyFrom}
  /\ rekeyTo' = NoHook
  /\ rekeyFrom' = NoHook
  /\ UNCHANGED <<committed, read, stable, continuation, authorization, retired,
                 pending, enabled, resolved, ready, nextOrder, offered,
                 offeredRead, mode, waitVars, consumed>>

\* The runtime released the previous alias; its committed payloads stay
\* readable through the retired list.
RekeyReleased ==
  /\ rekeyFrom # NoHook
  /\ live' = live \ {rekeyFrom}
  /\ retired' = retired \cup {rekeyFrom}
  /\ rekeyTo' = NoHook
  /\ rekeyFrom' = NoHook
  /\ UNCHANGED <<committed, read, stable, continuation, authorization, pending,
                 enabled, resolved, ready, nextOrder, offered, offeredRead, mode,
                 waitVars, consumed>>

\* dispose(): the session ended, or a claim or a release failed and the driver
\* threw.  Every hook is released.
Dispose ==
  /\ \/ mode \in {"claiming", "settled"}
     \/ rekeyTo # NoHook
  /\ mode' = "disposed"
  /\ live' = {}
  /\ stable' = NoHook
  /\ continuation' = NoHook
  /\ authorization' = NoHook
  /\ rekeyTo' = NoHook
  /\ rekeyFrom' = NoHook
  /\ UNCHANGED <<committed, read, retired, pending, enabled, resolved, ready,
                 nextOrder, offered, offeredRead, waitVars, consumed>>

-----------------------------------------------------------------------------
(* The driver while a turn is active.                                      *)

DriverFree == rekeyTo = NoHook

TurnReads ==
  /\ mode \in TurnModes /\ DriverFree
  /\ NextRead
  /\ UNCHANGED <<worldVars, mode, waitVars, rekeyVars, consumed>>

\* The race is won by the inbox.  The command is a delivery or a session
\* control, which the receiver buffers, or it is handled on the spot (dropped
\* payload, cancel: cancelling a task drops its buffered deliveries).
TurnConsumes ==
  /\ mode \in TurnModes /\ DriverFree
  /\ ConsumeNext("session")
  /\ \/ deliveries' = deliveries + 1 /\ UNCHANGED controls
     \/ controls' = controls + 1 /\ UNCHANGED deliveries
     \/ deliveries' \in 0..deliveries /\ UNCHANGED controls
  /\ mode' = "turn"
  /\ UNCHANGED <<worldVars, awaitAuth, defer, rekeyVars>>

\* The race is won by the turn's terminal control message.  The outstanding
\* read, resolved or not, stays offered.
TurnSettles ==
  /\ mode = "turn" /\ DriverFree
  /\ offered # "none"
  /\ mode' = "settled"
  /\ UNCHANGED <<worldVars, inboxVars, waitVars, rekeyVars, consumed>>

-----------------------------------------------------------------------------
(* The driver while the session is parked: nextTurnDelivery.               *)

\* Task mode defers deliveries exactly while a challenge is open.
Park(await, task) ==
  /\ mode = "settled" /\ DriverFree
  /\ task => await
  /\ awaitAuth' = await
  /\ defer' = task
  /\ mode' = "check"
  /\ IF await THEN OpenWindow ELSE UNCHANGED inboxVars
  /\ UNCHANGED <<worldVars, controls, deliveries, rekeyVars, consumed>>

\* A buffered session control is the instruction.
TakeControl ==
  /\ mode = "check"
  /\ controls > 0
  /\ controls' = controls - 1
  /\ mode' = "leaving"
  /\ UNCHANGED <<worldVars, inboxVars, awaitAuth, defer, deliveries, rekeyVars,
                 consumed>>

\* takeBufferedTurnDelivery: the head with k deliveries that coalesce with it.
TakeBuffered ==
  /\ mode = "check"
  /\ controls = 0
  /\ ~defer /\ ~HasReadyAuthorization /\ deliveries > 0
  /\ \E k \in 1..deliveries : deliveries' = deliveries - k
  /\ mode' = "routing"
  /\ UNCHANGED <<worldVars, inboxVars, awaitAuth, defer, controls, rekeyVars,
                 consumed>>

StartReading ==
  /\ mode = "check"
  /\ controls = 0
  /\ defer \/ HasReadyAuthorization \/ deliveries = 0
  /\ mode' = "reading"
  /\ UNCHANGED <<worldVars, inboxVars, waitVars, rekeyVars, consumed>>

WaitReads ==
  /\ mode = "reading"
  /\ NextRead
  /\ UNCHANGED <<worldVars, mode, waitVars, rekeyVars, consumed>>

\* An authorization read is always the instruction.
WaitTakesAuthorization ==
  /\ mode = "reading"
  /\ offered = "resolved" /\ offeredRead.hook = authorization
  /\ ConsumeNext("authorization")
  /\ mode' = "leaving"
  /\ UNCHANGED <<worldVars, waitVars, rekeyVars>>

\* A session read is ignored (duplicate, undecodable, cancel: cancelling a task
\* drops its buffered deliveries), deferred, a session control, or a delivery to
\* route.
WaitTakesCommand ==
  /\ mode = "reading"
  /\ offered = "resolved" /\ offeredRead.hook # authorization
  /\ ConsumeNext("session")
  /\ \/ mode' = "reading" /\ deliveries' \in 0..deliveries
     \/ mode' = "leaving" /\ UNCHANGED deliveries
     \/ ~defer /\ mode' = "routing" /\ UNCHANGED deliveries
     \/ defer /\ mode' = "reading" /\ deliveries' = deliveries + 1
  /\ UNCHANGED <<worldVars, awaitAuth, defer, controls, rekeyVars>>

\* routeDeliverToChildren returned: everything went to descendants and the
\* wait goes on, or there is a remainder (or a cancellation) to hand over.
Routed ==
  /\ mode = "routing"
  /\ mode' \in {"check", "leaving"}
  /\ UNCHANGED <<worldVars, inboxVars, waitVars, rekeyVars, consumed>>

\* The finally block closes the window; the driver runs a turn, parks again
\* (cancel-turn, an authorization read while others are missing) or ends.
LeaveWait ==
  /\ mode = "leaving"
  /\ IF awaitAuth THEN CloseWindow ELSE UNCHANGED inboxVars
  /\ awaitAuth' = FALSE
  /\ defer' = FALSE
  /\ \/ mode' = IF offered = "resolved" THEN "drain" ELSE "turn"
     \/ mode' = "settled"
  /\ UNCHANGED <<worldVars, controls, deliveries, rekeyVars, consumed>>

-----------------------------------------------------------------------------
Init ==
  /\ committed = [h \in Hooks |-> 0]
  /\ live = {}
  /\ read = [h \in Hooks |-> 0]
  /\ stable = NoHook /\ continuation = NoHook /\ authorization = NoHook
  /\ retired = {}
  /\ pending = {}
  /\ enabled = {}
  /\ resolved = [h \in Hooks |-> NoRead]
  /\ ready = <<>>
  /\ nextOrder = 0
  /\ offered = "none"
  /\ offeredRead = NoRead
  /\ mode = "claiming"
  /\ awaitAuth = FALSE /\ defer = FALSE
  /\ controls = 0 /\ deliveries = 0
  /\ rekeyTo = NoHook /\ rekeyFrom = NoHook
  /\ consumed = [h \in Hooks |-> <<>>]

Next ==
  \/ \E h \in Hooks : Commit(h)
  \/ \E h \in Hooks : ReadResolves(h)
  \/ OfferedWakes
  \/ ClaimStable
  \/ ClaimAuthorization
  \/ StartDriver
  \/ \E a \in Aliases : RekeyStart(a)
  \/ RekeyClaimed
  \/ RekeyReleased
  \/ Dispose
  \/ TurnReads
  \/ TurnConsumes
  \/ TurnSettles
  \/ \E await, task \in BOOLEAN : Park(await, task)
  \/ TakeControl
  \/ TakeBuffered
  \/ StartReading
  \/ WaitReads
  \/ WaitTakesAuthorization
  \/ WaitTakesCommand
  \/ Routed
  \/ LeaveWait

Spec == Init /\ [][Next]_vars

(***************************************************************************)
(* The runtime answers an armed read that has a committed payload, runs    *)
(* continuations that are ready, and settles claims, releases and routing  *)
(* steps; the driver's own code runs until it awaits.  Nothing forces a    *)
(* producer to send, a turn to end, a rekey to begin or the session to end.*)
(***************************************************************************)
Fairness ==
  /\ \A h \in Hooks : WF_vars(ReadResolves(h))
  /\ WF_vars(OfferedWakes)
  /\ WF_vars(ClaimStable) /\ WF_vars(ClaimAuthorization) /\ WF_vars(StartDriver)
  /\ WF_vars(RekeyClaimed) /\ WF_vars(RekeyReleased)
  /\ WF_vars(TurnReads) /\ WF_vars(TurnConsumes)
  /\ WF_vars(\E await, task \in BOOLEAN : Park(await, task))
  /\ WF_vars(TakeControl) /\ WF_vars(TakeBuffered) /\ WF_vars(StartReading)
  /\ WF_vars(WaitReads) /\ WF_vars(WaitTakesAuthorization)
  /\ WF_vars(WaitTakesCommand)
  /\ WF_vars(Routed) /\ WF_vars(LeaveWait)

FairSpec == Spec /\ Fairness

-----------------------------------------------------------------------------
(* Properties.                                                             *)

ConsumedRead == [n : 1..MaxPayloads, as : {"session", "authorization"}]

\* Type invariant: every variable keeps the shape the code gives it.
TypeOK ==
  /\ committed \in [Hooks -> 0..MaxPayloads]
  /\ live \subseteq Hooks
  /\ read \in [Hooks -> 0..MaxPayloads]
  /\ stable \in {Stable, NoHook}
  /\ authorization \in {Auth, NoHook}
  /\ continuation \in Aliases \cup {NoHook}
  /\ retired \subseteq Aliases
  /\ pending \subseteq Hooks
  /\ enabled \subseteq Hooks
  /\ resolved \in [Hooks -> Read \cup {NoRead}]
  /\ ready \in Seq(Read)
  /\ nextOrder \in Nat
  /\ offered \in {"none", "waiting", "resolved"}
  /\ offeredRead \in Read \cup {NoRead}
  /\ mode \in Modes
  /\ awaitAuth \in BOOLEAN /\ defer \in BOOLEAN
  /\ controls \in Nat /\ deliveries \in Nat
  /\ rekeyTo \in Aliases \cup {NoHook}
  /\ rekeyFrom \in Aliases \cup {NoHook}
  /\ consumed \in [Hooks -> Seq(ConsumedRead)]

\* createSessionCommandInbox promises that reads, those of a retired alias
\* included, "are consumed exactly once": the payloads consumed from a hook
\* are its first payloads, each once and in the order they were committed.
ExactlyOnceInOrder ==
  \A h \in Hooks : \A i \in 1..Len(consumed[h]) : consumed[h][i].n = i

\* No read is lost between arm() and consumeNext(): what was read from a hook
\* and not consumed is its single stashed read, and the stashed read of an
\* enabled hook is in the ready queue or is the offered read, so a later
\* next() returns it.
NoReadLost ==
  mode # "disposed" =>
    \A h \in Hooks :
      /\ read[h] = Len(consumed[h]) + (IF resolved[h] = NoRead THEN 0 ELSE 1)
      /\ h \in enabled /\ resolved[h] # NoRead =>
            resolved[h] = offeredRead \/ resolved[h] \in Range(ready)

\* The comment on claimAuthorization (session-command-inbox.ts:50-53): reads of
\* the authorization hook "stay stashed until setAuthorizationWindow opens, so
\* callbacks never surface as ordinary session activity".
CallbacksNeverSurfaceAsSessionActivity ==
  \A i \in 1..Len(consumed[Auth]) : consumed[Auth][i].as = "authorization"

\* nextWithSource: "Reads surface in one arrival order across every source,
\* which keeps waits that interleave authorization callbacks with ordinary
\* session activity deterministic".  A parked wait never takes a session read
\* while an older callback is eligible, whenever the callback was stashed.
CallbackNotOvertaken ==
  mode = "reading" /\ offered = "resolved" /\ offeredRead.hook # Auth
    => \A i \in 1..Len(ready) :
         ready[i].hook = Auth => offeredRead.order < ready[i].order

\* Every payload committed to a session hook, also to an alias that was
\* retired since, is eventually consumed unless the session ends.
CommittedEventuallyConsumed ==
  \A h \in Hooks \ {Auth} : \A k \in 1..MaxPayloads :
    committed[h] >= k ~> (Len(consumed[h]) >= k \/ mode = "disposed")
=============================================================================
