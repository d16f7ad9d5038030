---------------------------- MODULE EveAgentStore ----------------------------
(***************************************************************************)
(* The client: EveAgentStore (client/eve-agent-store.ts) on a ClientSession *)
(* (client/session.ts) that follows the durable event stream of a session  *)
(* over connections that may be cut (client/open-stream.ts).               *)
(*                                                                         *)
(* The store runs one turn at a time, a send or a resume; messages sent    *)
(* meanwhile are follow-ups that steer it.  The session is given to the    *)
(* store (init.session), so reset keeps it.  Each await of the code is a   *)
(* point where other actions come in.                                      *)
(*                                                                         *)
(* The stream is a log; an event is its place in it, which stands for its  *)
(* id; events recorded before stream version 20 have none.  Of the events  *)
(* only those the client's control depends on are kept, and authorizations *)
(* are those of one connection.  This client does not answer input         *)
(* requests (respond), cancel or detach.                                   *)
(***************************************************************************)
EXTENDS Naturals, Sequences, FiniteSets

CONSTANTS
  Messages,    \* messages of this client; each names its delivery
  Others,      \* messages of other clients of the session
  None,        \* no message
  OldTurns,    \* turns recorded before stream version 20
  MaxIdle,     \* streamIdleReconnectPolicy.maxAttempts
  MaxEvents    \* bound: lost requests and connections, messages of others, dropped
               \* deliveries, turns without a delivery, turns parked for an
               \* authorization, the end of the session, calls of resume and of
               \* reset, together

ASSUME StoreConstants ==
  /\ Messages \cap Others = {} /\ None \notin Messages \cup Others
  /\ OldTurns \in Nat /\ MaxIdle \in Nat \ {0} /\ MaxEvents \in Nat

VARIABLES
  log,       \* the durable event stream
  server,    \* deliveries accepted, the turn that runs, authorizations waited for
  cursor,    \* ClientSessionState.streamIndex
  store,     \* status, error, events, pendingMessageSubmissions
  turn,      \* the ActiveTurn and where its coroutine is
  reader,    \* the stream it reads
  ups,       \* follow-ups in flight
  stale,     \* readers of turns that reset or resume replaced, not stopped yet
  passed,    \* history: events passed over as another delivery's
  forgot,    \* history: the length of the stream when reset was last called
  budget     \* messages typed, and events of the bound left

vars == <<log, server, cursor, store, turn, reader, ups, stale, passed, forgot, budget>>

----------------------------------------------------------------------------
(* The session, as its clients see it (external): accepted messages are     *)
(* folded into turns.  A turn with messages takes over the delivery ids its *)
(* events carry, also while an authorization is waited for; a task's        *)
(* notification empties them; a turn without a message and the turn of an   *)
(* authorization's callback go on with what they find.                      *)
(* turn, waits, misnamed, dropped, and an event's of, are history: the      *)
(* messages the turn, the pause or the event really belongs to.             *)
Emit(types) ==
  log' = log \o [i \in 1..Len(types) |->
                   [type |-> types[i], id |-> TRUE, ids |-> server'.ids, of |-> server'.turn]]
Spend == budget.left > 0 /\ budget' = [budget EXCEPT !.left = @ - 1]
client == <<cursor, store, turn, reader, ups, stale, passed, forgot>>
Prefix(s, n) == {s[i] : i \in 1..n}

TurnBegins(n) ==
  /\ server.phase = "parked" /\ n \in 1..Len(server.queue)
  /\ LET ds == Prefix(server.queue, n)
     IN server' = [server EXCEPT !.queue = SubSeq(@, n + 1, Len(@)), !.ids = ds, !.turn = ds,
                                 !.phase = "running"]
  /\ Emit(<<"received">>)
  /\ UNCHANGED <<client, budget>>

TurnNotified ==
  /\ server.phase = "parked" /\ Spend
  /\ server' = [server EXCEPT !.ids = {}, !.turn = {}, !.phase = "running"]
  /\ Emit(<<"received">>)
  /\ UNCHANGED client

TurnResponded ==
  /\ server.phase = "parked" /\ Spend
  /\ server' = [server EXCEPT !.turn = {}, !.phase = "running"]
  /\ UNCHANGED <<log, client>>

TurnParks ==
  /\ server.phase = "running"
  /\ server' = [server EXCEPT !.phase = "parked"]
  /\ Emit(<<"waiting">>)
  /\ UNCHANGED <<client, budget>>

(* An authorization already waited for is superseded.                       *)
TurnAsksAuthorization ==
  /\ server.phase = "running" /\ Spend
  /\ server' = [server EXCEPT !.phase = "parked", !.auth = TRUE, !.waits = @ \cup server.turn]
  /\ Emit((IF server.auth THEN <<"authCompleted">> ELSE <<>>) \o <<"authRequired", "waiting">>)
  /\ UNCHANGED client

TurnAuthorized ==
  /\ server.phase = "parked" /\ server.auth
  /\ server' = [server EXCEPT !.turn = server.waits, !.waits = {}, !.auth = FALSE, !.phase = "running",
                  !.misnamed = @ \cup (IF server.ids = {} THEN {} ELSE server.waits \ server.ids)]
  /\ Emit(<<"authCompleted">>)
  /\ UNCHANGED <<client, budget>>

SessionEnds(type) ==
  /\ server.phase # "over" /\ Spend
  /\ server' = [server EXCEPT !.phase = "over",
                              !.turn = IF server.phase = "running" THEN @ ELSE {}]
  /\ Emit(<<type>>)
  /\ UNCHANGED client

OtherSends(x) ==
  /\ server.phase # "over" /\ Spend
  /\ x \notin Prefix(server.queue, Len(server.queue)) \cup server.dropped
  /\ \A i \in DOMAIN log : x \notin log[i].of
  /\ server' = [server EXCEPT !.queue = Append(@, x)]
  /\ UNCHANGED <<log, client>>

(* Its turn is cancelled before its first step, or a limit drops it.        *)
DeliveryDropped ==
  /\ server.phase # "over" /\ server.queue # <<>> /\ Spend
  /\ server' = [server EXCEPT !.queue = Tail(@), !.dropped = @ \cup {Head(server.queue)}]
  /\ UNCHANGED <<log, client>>

----------------------------------------------------------------------------
(* What the store makes of an event: acceptServerEvent.                     *)
Shown(s) == {s.events[i] : i \in DOMAIN s.events}
isCurrentTurnBoundaryEvent(e) == log[e].type \in {"waiting", "failed", "completed"}
DropFirst(p) == IF p = <<>> THEN p ELSE Tail(p)

applyTerminalStreamFailure(s, e) ==
  IF log[e].type # "failed" THEN s
  ELSE [s EXCEPT !.status = "error", !.error = TRUE, !.pending = DropFirst(@)]

admit(s, e) == ~log[e].id \/ e \notin Shown(s)
acceptServerEvent(s, e, status) ==
  IF ~admit(s, e) THEN s
  ELSE applyTerminalStreamFailure(
         [s EXCEPT !.events = Append(@, e), !.status = status,
                   !.pending = IF log[e].type = "received" THEN DropFirst(@) ELSE @], e)

(* updatePendingAuthorizations, collectPendingAuthorizations and            *)
(* isSettledSessionTail.                                                    *)
updatePendingAuthorizations(pending, e) ==
  CASE log[e].type = "authRequired" -> TRUE [] log[e].type = "authCompleted" -> FALSE
    [] OTHER -> pending
collectPendingAuthorizations(es) ==
  \E i \in DOMAIN es : /\ log[es[i]].type = "authRequired"
                       /\ \A j \in i..Len(es) : log[es[j]].type # "authCompleted"
Settles(e, pending) ==
  isCurrentTurnBoundaryEvent(e) /\ (log[e].type # "waiting" \/ ~pending)
isSettledSessionTail == turn.tail # 0 /\ Settles(turn.tail, turn.auth)

----------------------------------------------------------------------------
(* A turn and its end.                                                      *)
(* A reader's place is its startIndex and the events it has counted since.  *)
NoReader == [mode |-> "none", place |-> 0, open |-> FALSE, bound |-> 0, idle |-> 0,
             got |-> TRUE, started |-> FALSE]
Reader(mode, start) == [NoReader EXCEPT !.mode = mode, !.place = start]
Turn(pc, n, d) == [pc |-> pc, n |-> n, message |-> d, responded |-> FALSE, start |-> 0,
                   accepted |-> 0, received |-> 0, tail |-> 0, auth |-> FALSE]
NewTurn(pc, d) == Turn(pc, turn.n + 1, d)
Over(d) == Turn("none", turn.n, d)
Active == turn.pc # "none"

TurnDone(s) ==
  /\ store' = [s EXCEPT !.status = IF s.error THEN "error" ELSE "ready"]
  /\ turn' = Over(turn.message)
TurnFails(s) ==
  /\ store' = [s EXCEPT !.status = "error", !.error = TRUE,
                        !.pending = IF turn.message = None THEN @ ELSE DropFirst(@)]
  /\ turn' = Over(None)

(* send: prepareSend is awaited, then the message is shown and posted.      *)
(* Which of the messages not yet sent the user types is of no account.      *)
StartSend(d) ==
  /\ turn' = NewTurn("prepare", d)
  /\ store' = [store EXCEPT !.error = FALSE, !.status = "submitted"]
Types(d) == LET unsent == Messages \ budget.sent
            IN /\ unsent # {} /\ d = CHOOSE m \in unsent : TRUE
               /\ budget' = [budget EXCEPT !.sent = @ \cup {d}]

send(d) ==
  /\ ~Active /\ Types(d) /\ StartSend(d)
  /\ UNCHANGED <<log, server, cursor, reader, ups, stale, passed, forgot>>

SendPrepared ==
  /\ turn.pc = "prepare"
  /\ store' = [store EXCEPT !.pending = Append(@, turn.message)]
  /\ turn' = [turn EXCEPT !.pc = "post", !.start = cursor]
  /\ UNCHANGED <<log, server, cursor, reader, ups, stale, passed, forgot, budget>>

Accepted(d) == [server EXCEPT !.queue = Append(@, d)]
SendPosted ==
  /\ turn.pc = "post" /\ server.phase # "over"
  /\ server' = Accepted(turn.message)
  /\ turn' = [turn EXCEPT !.pc = "response", !.responded = TRUE, !.start = 0]
  /\ reader' = Reader("response", turn.start)
  /\ UNCHANGED <<log, cursor, store, ups, stale, passed, forgot, budget>>

(* The request fails, or its answer is lost after the session took it.      *)
SendFails(lost) ==
  /\ turn.pc = "post"
  /\ IF server.phase = "over" THEN ~lost /\ UNCHANGED budget ELSE Spend
  /\ server' = IF lost THEN Accepted(turn.message) ELSE server
  /\ TurnFails(store)
  /\ UNCHANGED <<log, cursor, reader, ups, stale, passed, forgot>>

(* The reader of a turn that is replaced goes on with what its connection   *)
(* has read already: it has counted the event its consumer then discards,   *)
(* and passes over another delivery's before it meets the consumer.         *)
Left == [mode |-> reader.mode, place |-> reader.place,
         upto |-> IF reader.open THEN Len(log) ELSE reader.place,
         resume |-> Active /\ turn.message = None]
Replaced == IF reader.mode = "none" /\ ~Left.resume THEN stale ELSE stale \cup {Left}
MayReach(r) == {n \in r.place..r.upto : r.mode = "response" \/ n <= r.place + 1}
CursorAfter(r, n) == IF r.mode = "response" /\ cursor > n THEN cursor ELSE n

StaleStops(r) ==
  /\ stale' = stale \ {r}
  /\ IF r.mode = "none" THEN UNCHANGED cursor
     ELSE \E n \in MayReach(r) : cursor' = CursorAfter(r, n)
  /\ UNCHANGED <<log, server, store, turn, reader, ups, passed, forgot, budget>>

(* resume: a bounded replay, then perhaps the live stream.  A turn whose    *)
(* session has failed may still be following its follow-ups: it is          *)
(* replaced.  A resume that is not over yet is returned again.              *)
hasCompleteInitialPrefix == Len(store.events) = cursor
Resuming == (Active /\ turn.message = None) \/ \E r \in stale : r.resume
resume ==
  /\ store.status \notin {"resuming", "streaming", "submitted"} /\ ~Resuming /\ Spend
  /\ stale' = Replaced
  /\ LET es == store.events IN
     turn' = [NewTurn("replay", None) EXCEPT !.responded = TRUE,
                !.tail = IF hasCompleteInitialPrefix /\ es # <<>> THEN es[Len(es)] ELSE 0,
                !.auth = hasCompleteInitialPrefix /\ collectPendingAuthorizations(es)]
  /\ reader' = Reader("replay", IF hasCompleteInitialPrefix THEN cursor ELSE 0)
  /\ store' = [store EXCEPT !.error = FALSE, !.status = "resuming"]
  /\ UNCHANGED <<log, server, cursor, ups, passed, forgot>>

ReplayDone ==
  /\ turn.pc = "replayed"
  /\ LET s == IF turn.tail = 0 THEN store ELSE applyTerminalStreamFailure(store, turn.tail)
         settled == isSettledSessionTail
         goesOn == ~s.error /\ (~settled \/ log[turn.tail].type = "waiting")
         mode == IF settled THEN "probe" ELSE "live"
     IN IF goesOn
          THEN /\ turn' = [turn EXCEPT !.pc = mode]
               /\ reader' = Reader(mode, cursor)
               /\ store' = IF settled THEN s ELSE [s EXCEPT !.status = "streaming"]
        ELSE /\ turn' = [turn EXCEPT !.pc = "settle"]
             /\ store' = [s EXCEPT !.status = IF s.error THEN "error" ELSE "ready"]
             /\ UNCHANGED reader
  /\ UNCHANGED <<log, server, cursor, ups, stale, passed, forgot, budget>>

ProbeDone ==
  /\ turn.pc = "probed"
  /\ turn' = [turn EXCEPT !.pc = IF isSettledSessionTail THEN "settle" ELSE "live"]
  /\ reader' = IF isSettledSessionTail THEN NoReader ELSE Reader("live", cursor)
  /\ UNCHANGED <<log, server, cursor, store, ups, stale, passed, forgot, budget>>

----------------------------------------------------------------------------
(* followStreamIterable: connections are opened at the place the reader has *)
(* got to, and opened again when they end.                                  *)
Bounded(r) == r.mode \in {"replay", "probe"}
\* Wrong variant: a connection is opened behind the event after the last one.
NextPlaceSkips(r) == r.place + (IF r.got THEN 1 ELSE 2)
NextPlace(r) == r.place + 1
AtEnd(r) == NextPlace(r) > Len(log)
AfterRead == CASE reader.mode = "replay" -> "replayed" [] reader.mode = "probe" -> "probed"
               [] OTHER -> "settle"
EndOfStream(r) ==
  /\ cursor' = CursorAfter(r, r.place) /\ reader' = NoReader
  /\ IF r.mode = "steered" THEN TurnDone(store)
     ELSE turn' = [turn EXCEPT !.pc = AfterRead] /\ UNCHANGED store

Connect ==
  /\ reader.mode # "none" /\ ~reader.open
  /\ LET bound == IF Bounded(reader) /\ reader.bound = 0 THEN Len(log) ELSE reader.bound
         r == [reader EXCEPT !.open = TRUE, !.bound = bound]
     IN IF Bounded(r) /\ NextPlace(r) > bound THEN EndOfStream(r)
        ELSE reader' = r /\ UNCHANGED <<cursor, store, turn>>
  /\ UNCHANGED <<log, server, ups, stale, passed, forgot, budget>>

(* openStreamBody gives up.                                                 *)
ConnectFails ==
  /\ reader.mode # "none" /\ ~reader.open /\ Spend
  /\ cursor' = CursorAfter(reader, reader.place) /\ reader' = NoReader
  /\ TurnFails(store)
  /\ UNCHANGED <<log, server, ups, stale, passed, forgot>>

(* The connection ends: but for the first, empty ones use up the idle       *)
(* attempts; a response is kept alive (the default streamReconnectPolicy).  *)
\* Wrong variant: every stream is kept alive.
CountsNever == FALSE
CountsIdle == reader.mode # "response" /\ ~reader.got
Reconnect ==
  LET idle == IF CountsIdle THEN reader.idle + 1 ELSE reader.idle
      r == [reader EXCEPT !.open = FALSE, !.idle = idle,
                         !.got = reader.mode = "response"]
  IN /\ IF CountsIdle /\ idle >= MaxIdle THEN EndOfStream(r)
        ELSE reader' = r /\ UNCHANGED <<cursor, store, turn>>
     /\ UNCHANGED <<log, server, ups, stale, passed, forgot>>
Cut == reader.open /\ turn.pc # "pause" /\ Spend /\ Reconnect
Idle == reader.open /\ turn.pc # "pause" /\ AtEnd(reader) /\ Reconnect /\ UNCHANGED budget

Read == [reader EXCEPT !.place = @ + 1, !.got = TRUE, !.idle = 0]
Reads(mode) == reader.mode = mode /\ reader.open /\ ~AtEnd(reader)

(* createEventStream: events of other deliveries are passed over until the  *)
(* message's own turn reaches its boundary.                                 *)
Matches(e) == turn.message \in log[e].ids
Terminal(e) == log[e].type \in {"failed", "completed"}
EndedBefore(e) == ~Matches(e) /\ Terminal(e) /\ (~reader.started \/ log[e].type = "completed")
\* Wrong variant: the first boundary on the stream is taken for the message's.
PassesNone(e) == FALSE
PassesOver(e) ==
  ~Matches(e) /\ (~reader.started \/ (~Terminal(e) /\ log[e].ids # {}))

ReadResponse ==
  /\ turn.pc = "response" /\ Reads("response")
  /\ LET e == NextPlace(reader)
         auth == updatePendingAuthorizations(turn.auth, e)
         s == acceptServerEvent(store, e, "streaming")
     IN IF EndedBefore(e)
          THEN /\ TurnFails(store) /\ reader' = NoReader /\ cursor' = CursorAfter(reader, reader.place + 1)
               /\ passed' = passed \cup {e}
        ELSE IF PassesOver(e)
          THEN /\ reader' = Read /\ passed' = passed \cup {e}
               /\ UNCHANGED <<cursor, store, turn>>
        ELSE /\ store' = s /\ UNCHANGED passed
             /\ IF Settles(e, auth)
                  THEN /\ reader' = NoReader /\ cursor' = CursorAfter(reader, reader.place + 1)
                       /\ turn' = [turn EXCEPT !.pc = "settle", !.auth = FALSE]
                ELSE /\ reader' = [Read EXCEPT !.started = TRUE] /\ UNCHANGED cursor
                     /\ turn' = [turn EXCEPT !.auth = auth]
  /\ UNCHANGED <<log, server, ups, stale, forgot, budget>>

ReadReplay ==
  /\ \E mode \in {"replay", "probe", "live"} : Reads(mode)
  /\ LET e == NextPlace(reader)
         auth == updatePendingAuthorizations(turn.auth, e)
         ends == IF Bounded(reader) THEN e >= reader.bound ELSE Settles(e, auth)
     IN /\ store' = acceptServerEvent(store, e,
                      IF reader.mode = "replay" THEN store.status ELSE "streaming")
        /\ reader' = IF ends THEN NoReader ELSE Read
        /\ cursor' = IF ends THEN CursorAfter(reader, reader.place + 1) ELSE cursor
        /\ turn' = [turn EXCEPT !.tail = e, !.auth = auth, !.pc = IF ends THEN AfterRead ELSE @]
  /\ UNCHANGED <<log, server, ups, stale, passed, forgot, budget>>

(* followSteeredTurns: once no follow-up is being posted, the stream is     *)
(* followed until as many messages as were accepted have been received.     *)
Dispatching == \E f \in ups : f.n = turn.n /\ f.pc # "prepare"
FollowSteered ==
  /\ turn.pc = "settle" /\ ~Dispatching
  /\ IF turn.received >= turn.accepted
       THEN TurnDone(store) /\ UNCHANGED reader
     ELSE /\ turn' = [turn EXCEPT !.pc = "steered"] /\ reader' = Reader("steered", cursor)
          /\ UNCHANGED store
  /\ UNCHANGED <<log, server, cursor, ups, stale, passed, forgot, budget>>

ReadSteered ==
  /\ turn.pc = "steered" /\ Reads("steered")
  /\ LET e == NextPlace(reader)
     IN /\ store' = acceptServerEvent(store, e, "streaming")
        /\ turn' = [turn EXCEPT !.received = IF log[e].type = "received" THEN @ + 1 ELSE @,
                                !.pc = IF isCurrentTurnBoundaryEvent(e) THEN "pause" ELSE @]
  /\ reader' = Read
  /\ UNCHANGED <<log, server, cursor, ups, stale, passed, forgot, budget>>

SteeredBoundary ==
  /\ turn.pc = "pause" /\ ~Dispatching
  /\ IF turn.received >= turn.accepted
       THEN TurnDone(store) /\ cursor' = CursorAfter(reader, reader.place) /\ reader' = NoReader
     ELSE turn' = [turn EXCEPT !.pc = "steered"] /\ UNCHANGED <<store, cursor, reader>>
  /\ UNCHANGED <<log, server, ups, stale, passed, forgot, budget>>

----------------------------------------------------------------------------
(* sendFollowUp.                                                            *)
Followed(f, pc) == (ups \ {f}) \cup {[f EXCEPT !.pc = pc]}
sendFollowUp(d) ==
  /\ Active /\ store.status # "resuming" /\ Types(d)
  /\ ups' = ups \cup {[message |-> d, n |-> turn.n, pc |-> "prepare"]}
  /\ UNCHANGED <<log, server, cursor, store, turn, reader, stale, passed, forgot>>

(* The turn may have ended while prepareSend was awaited: then the message  *)
(* is sent anew, as a turn of its own or as a follow-up of the next one.    *)
FollowUpPrepared(f) ==
  /\ f.pc = "prepare"
  /\ CASE Active /\ f.n = turn.n ->
            /\ store' = [store EXCEPT !.pending = Append(@, f.message)]
            /\ ups' = Followed(f, "wait") /\ UNCHANGED turn
       [] ~Active -> StartSend(f.message) /\ ups' = ups \ {f}
       [] OTHER -> /\ ups' = IF store.status = "resuming" THEN ups \ {f}
                             ELSE (ups \ {f}) \cup {[f EXCEPT !.n = turn.n]}
                   /\ UNCHANGED <<store, turn>>
  /\ UNCHANGED <<log, server, cursor, reader, stale, passed, forgot, budget>>

FailSubmission(d) ==
  store' = [store EXCEPT !.pending = SelectSeq(@, LAMBDA x : x # d)]
FollowUpWaited(f) ==
  /\ f.pc = "wait"
  /\ IF ~Active \/ f.n # turn.n THEN FailSubmission(f.message) /\ ups' = ups \ {f}
     ELSE turn.responded /\ ups' = Followed(f, "post") /\ UNCHANGED store
  /\ UNCHANGED <<log, server, cursor, turn, reader, stale, passed, forgot, budget>>

FollowUpPosted(f) ==
  /\ f.pc = "post" /\ server.phase # "over"
  /\ server' = Accepted(f.message)
  /\ turn' = [turn EXCEPT !.accepted = IF Active /\ f.n = turn.n THEN @ + 1 ELSE @]
  /\ ups' = ups \ {f}
  /\ UNCHANGED <<log, cursor, store, reader, stale, passed, forgot, budget>>

FollowUpFails(f, lost) ==
  /\ f.pc = "post"
  /\ IF server.phase = "over" THEN ~lost /\ UNCHANGED budget ELSE Spend
  /\ server' = IF lost THEN Accepted(f.message) ELSE server
  /\ FailSubmission(f.message) /\ ups' = ups \ {f}
  /\ UNCHANGED <<log, cursor, turn, reader, stale, passed, forgot>>

(* reset: the turn is dropped and aborted; its request may have reached the *)
(* session.                                                                 *)
reset(lost) ==
  /\ Spend
  /\ lost => turn.pc = "post" /\ server.phase # "over"
  /\ server' = IF lost THEN Accepted(turn.message) ELSE server
  /\ stale' = Replaced /\ turn' = Over(None) /\ reader' = NoReader /\ forgot' = Len(log)
  /\ store' = [store EXCEPT !.status = "ready", !.error = FALSE, !.events = <<>>, !.pending = <<>>]
  /\ UNCHANGED <<log, cursor, ups, passed>>

----------------------------------------------------------------------------
Init ==
  /\ log = [i \in 1..(2 * OldTurns) |->
              [type |-> IF i % 2 = 1 THEN "received" ELSE "waiting", id |-> FALSE,
               ids |-> {}, of |-> {}]]
  /\ cursor = 0 /\ reader = NoReader
  /\ server = [queue |-> <<>>, ids |-> {}, turn |-> {}, phase |-> "parked", auth |-> FALSE,
                waits |-> {}, misnamed |-> {}, dropped |-> {}]
  /\ store = [status |-> "ready", error |-> FALSE, events |-> <<>>, pending |-> <<>>]
  /\ turn = Turn("none", 0, None)
  /\ ups = {} /\ stale = {} /\ passed = {} /\ forgot = 0
  /\ budget = [sent |-> {}, left |-> MaxEvents]

ServerProgress ==
  (\E n \in 1..Len(server.queue) : TurnBegins(n)) \/ TurnParks \/ TurnAuthorized
ServerNext ==
  \/ ServerProgress \/ TurnNotified \/ TurnResponded \/ TurnAsksAuthorization \/ DeliveryDropped
  \/ \E type \in {"failed", "completed"} : SessionEnds(type)
  \/ \E x \in Others : OtherSends(x)

ReaderProgress == Connect \/ Idle \/ ReadResponse \/ ReadReplay \/ ReadSteered
TurnProgress ==
  \/ SendPrepared \/ SendPosted \/ SendFails(FALSE)
  \/ ReplayDone \/ ProbeDone \/ FollowSteered \/ SteeredBoundary
UpProgress ==
  \E f \in ups :
    FollowUpPrepared(f) \/ FollowUpWaited(f) \/ FollowUpPosted(f) \/ FollowUpFails(f, FALSE)
ClientNext ==
  \/ ReaderProgress \/ TurnProgress \/ UpProgress
  \/ ConnectFails \/ Cut \/ SendFails(TRUE) \/ \E f \in ups : FollowUpFails(f, TRUE)
  \/ \E r \in stale : StaleStops(r)
UserNext ==
  \/ \E d \in Messages : send(d) \/ sendFollowUp(d)
  \/ resume \/ \E lost \in BOOLEAN : reset(lost)

Next == ServerNext \/ ClientNext \/ UserNext
Spec == Init /\ [][Next]_vars
FairSpec ==
  /\ Spec /\ WF_vars(ServerProgress) /\ WF_vars(ReaderProgress)
  /\ WF_vars(TurnProgress) /\ WF_vars(UpProgress)

----------------------------------------------------------------------------
(* Properties.                                                              *)
Statuses == {"ready", "resuming", "submitted", "streaming", "error"}
TurnPcs == {"none", "prepare", "post", "response", "replay", "replayed", "probe", "probed",
            "live", "settle", "steered", "pause"}
Modes == {"response", "replay", "probe", "live", "steered"}
ReaderType == [mode : Modes \cup {"none"}, place : Nat, open : BOOLEAN, bound : Nat,
               idle : 0..MaxIdle, got : BOOLEAN, started : BOOLEAN]

\* The type of every variable; no reader is ahead of the stream.
TypeOK ==
  /\ log \in Seq([type : {"received", "waiting", "authRequired", "authCompleted", "failed",
                         "completed"}, id : BOOLEAN, ids : SUBSET (Messages \cup Others),
                  of : SUBSET (Messages \cup Others)])
  /\ server \in [queue : Seq(Messages \cup Others), ids : SUBSET (Messages \cup Others),
                 turn : SUBSET (Messages \cup Others), phase : {"parked", "running", "over"},
                 auth : BOOLEAN, waits : SUBSET (Messages \cup Others),
                 misnamed : SUBSET (Messages \cup Others), dropped : SUBSET (Messages \cup Others)]
  /\ cursor \in 0..Len(log) /\ forgot \in 0..Len(log) /\ passed \subseteq DOMAIN log
  /\ store.status \in Statuses /\ store.error \in BOOLEAN
  /\ store.events \in Seq(DOMAIN log) /\ store.pending \in Seq(Messages)
  /\ turn.pc \in TurnPcs /\ turn.message \in Messages \cup {None}
  /\ turn.accepted \in 0..Cardinality(Messages) /\ turn.received \in Nat /\ turn.tail \in 0..Len(log)
  /\ reader \in ReaderType /\ reader.place <= Len(log)
  /\ \A r \in stale : r.mode \in Modes \cup {"none"} /\ r.place <= r.upto /\ r.upto <= Len(log)
  /\ ups \subseteq [message : Messages, n : 1..turn.n, pc : {"prepare", "wait", "post"}]

\* Of what came to the stream after the last reset, the cursor is never past an
\* event the store has neither applied nor passed over on purpose: reopening a
\* stream, replaying, replacing a turn, and the late cursor writes of readers that
\* reset left behind lose no event.  (Of what was there before the reset such a
\* reader may count events nobody is shown: session.ts:219, 250.)
CursorHasNoGap == \A e \in 1..cursor : e \in Shown(store) \cup passed \/ e <= forgot

\* A send that ended well has shown its message's whole turn: that turn is over,
\* not waiting for an authorization, and none of its events is missing, whoever
\* else uses the session, however the message was folded into a turn, and whatever
\* other turns run while an authorization is waited for.  Not so when the
\* authorization's turn names another delivery: its reader cannot know it.
AnswerShown ==
  LET m == turn.message
  IN ~Active /\ store.status = "ready" /\ m # None /\ m \notin server.misnamed =>
       /\ m \in server.turn => server.phase # "running"
       /\ m \in server.waits => server.phase = "over"
       /\ \A i \in DOMAIN server.queue : server.queue[i] # m
       /\ \A e \in DOMAIN log : m \in log[e].of => e \in Shown(store)

\* Every turn of the store ends; a follow-up that was folded into another turn, or
\* never shows up, does not keep it waiting (open-stream.ts:187).  Two kinds of
\* send do hang, as their stream is kept alive: one whose delivery the session
\* drops, and one whose authorization's turn names another delivery.
TurnEnds == Active ~> (~Active \/ turn.message \in server.misnamed \cup server.dropped)

=============================================================================
