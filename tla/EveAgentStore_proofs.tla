------------------------ MODULE EveAgentStore_proofs ------------------------
(***************************************************************************)
(* Proofs about the client: for every set of messages, every limit of      *)
(* reconnects and every number of cuts, resumes and resets, the session's  *)
(* cursor leaves no event behind that came after the last reset, and a     *)
(* send that ended well has shown its message's whole turn.                *)
(***************************************************************************)
EXTENDS EveAgentStore, SequenceTheorems, TLAPS

-----------------------------------------------------------------------------
(* Types.                                                                   *)

Everyone == Messages \cup Others
EventKinds == {"received", "waiting", "authRequired", "authCompleted", "failed", "completed"}
Event == [type : EventKinds, id : BOOLEAN, ids : SUBSET Everyone, of : SUBSET Everyone]
Phases == {"parked", "running", "over"}
ServerType == [queue : Seq(Everyone), ids : SUBSET Everyone, turn : SUBSET Everyone, phase : Phases,
               auth : BOOLEAN, waits : SUBSET Everyone, misnamed : SUBSET Everyone,
               dropped : SUBSET Everyone]
TurnType == [pc : TurnPcs, n : Nat, message : Messages \cup {None}, responded : BOOLEAN, start : Nat,
             accepted : Nat, received : Nat, tail : Nat, auth : BOOLEAN]
PlaceType == [mode : Modes \cup {"none"}, place : Nat, open : BOOLEAN, bound : Nat,
              idle : Nat, got : BOOLEAN, started : BOOLEAN]
LeftType == [mode : Modes \cup {"none"}, place : Nat, upto : Nat, resume : BOOLEAN]
UpType == [message : Messages, n : Nat, pc : {"prepare", "wait", "post"}]
StoreTyped(s) ==
  /\ DOMAIN s = {"status", "error", "events", "pending"}
  /\ s.status \in Statuses /\ s.error \in BOOLEAN /\ s.events \in Seq(Nat)

SessionTypes == log \in Seq(Event) /\ server \in ServerType
ClientTypes ==
  /\ cursor \in Nat /\ forgot \in Nat /\ StoreTyped(store)
  /\ turn \in TurnType /\ reader \in PlaceType
  /\ ups \subseteq UpType /\ stale \subseteq LeftType
  /\ DOMAIN budget = {"sent", "left"} /\ budget.sent \subseteq Messages
Typed == SessionTypes /\ ClientTypes

\* Sequences put together.
LEMMA Joined ==
  ASSUME NEW S, NEW s \in Seq(S), NEW t \in Seq(S)
  PROVE  /\ s \o t \in Seq(S) /\ Len(s \o t) = Len(s) + Len(t)
         /\ \A i \in 1..Len(s) : (s \o t)[i] = s[i]
         /\ \A i \in 1..Len(t) : (s \o t)[Len(s) + i] = t[i]
OBVIOUS

\* An element before two others.
LEMMA Prefixed ==
  ASSUME NEW S, NEW a \in S, NEW b \in S, NEW c \in S
  PROVE  <<a>> \o <<b, c>> = <<a, b, c>>
<1>1. <<a>> \in Seq(S) /\ <<b, c>> \in Seq(S) /\ <<a, b, c>> \in Seq(S)
  OBVIOUS
<1>2. Len(<<a>>) = 1 /\ Len(<<b, c>>) = 2 /\ 1 \in 1..1 /\ 1 \in 1..2 /\ 2 \in 1..2
  OBVIOUS
<1>3. PICK s : s = <<a>> \o <<b, c>>
  OBVIOUS
<1>4. s \in Seq(S) /\ Len(s) = 3 /\ s[1] = a /\ s[2] = b /\ s[3] = c
  <2>1. s \in Seq(S) /\ Len(s) = 1 + 2
    BY <1>1, <1>2, <1>3, Joined
  <2>2. s[1] = <<a>>[1] /\ s[1 + 1] = <<b, c>>[1] /\ s[1 + 2] = <<b, c>>[2]
    BY <1>1, <1>2, <1>3, Joined
  <2> QED
    BY <2>1, <2>2
<1>5. s = <<a, b, c>>
  BY <1>1, <1>4
<1> QED
  BY <1>3, <1>5

\* What the session writes goes to the end of the stream.
LEMMA Emits ==
  ASSUME SessionTypes, server' \in ServerType, NEW types \in Seq(EventKinds), Emit(types)
  PROVE  /\ log' \in Seq(Event) /\ Len(log') = Len(log) + Len(types)
         /\ Len(log) \in Nat /\ Len(types) \in Nat
         /\ \A e \in 1..Len(log) : log'[e] = log[e]
         /\ \A i \in 1..Len(types) :
              log'[Len(log) + i] = [type |-> types[i], id |-> TRUE, ids |-> server'.ids, of |-> server'.turn]
<1> DEFINE t == [i \in 1..Len(types) |->
                   [type |-> types[i], id |-> TRUE, ids |-> server'.ids, of |-> server'.turn]]
<1>1. \A i \in 1..Len(types) : t[i] \in Event
  BY DEF Event, ServerType
<1>2. t \in Seq(Event) /\ Len(t) = Len(types) /\ Len(types) \in Nat
  BY <1>1
<1>3. log' = log \o t /\ log \in Seq(Event) /\ Len(log) \in Nat
  BY DEF Emit, SessionTypes
<1>4. \A i \in 1..Len(types) :
        t[i] = [type |-> types[i], id |-> TRUE, ids |-> server'.ids, of |-> server'.turn]
  OBVIOUS
<1> HIDE DEF t
<1>5. /\ log' \in Seq(Event) /\ Len(log') = Len(log) + Len(t)
      /\ \A e \in 1..Len(log) : log'[e] = log[e]
      /\ \A i \in 1..Len(t) : log'[Len(log) + i] = t[i]
  BY <1>2, <1>3
<1> QED
  BY <1>2, <1>3, <1>4, <1>5

\* A bounded event leaves the messages typed alone.
LEMMA Spends ==
  ASSUME ClientTypes, budget' = budget \/ Spend
  PROVE  DOMAIN budget' = {"sent", "left"} /\ budget'.sent = budget.sent /\ budget'.sent \subseteq Messages
BY DEF ClientTypes, Spend

\* A step of the session leaves the client alone; only the last event of the
\* stream may end the session.
Ending(types) ==
  \A i \in 1..Len(types) : types[i] \in {"failed", "completed"} => i = Len(types) /\ server'.phase = "over"
LEMMA SessionSteps ==
  ASSUME Typed, ServerNext
  PROVE  /\ UNCHANGED client /\ server.phase # "over" /\ server' \in ServerType
         /\ budget' = budget \/ Spend
         /\ \/ log' = log
            \/ \E types \in Seq(EventKinds) : Emit(types) /\ Ending(types)
<1>1. /\ server \in ServerType /\ server.queue \in Seq(Everyone) /\ Len(server.queue) \in Nat
  BY DEF Typed, SessionTypes, ServerType
<1>2. \A a \in EventKinds : /\ <<a>> \in Seq(EventKinds) /\ Len(<<a>>) = 1 /\ <<a>>[1] = a
  OBVIOUS
<1>3. CASE \E n \in 1..Len(server.queue) : TurnBegins(n)
  <2>1. PICK n \in 1..Len(server.queue) : TurnBegins(n)
    BY <1>3
  <2> DEFINE q == SubSeq(server.queue, n + 1, Len(server.queue))
             ds == Prefix(server.queue, n)
  <2>2. q \in Seq(Everyone)
    BY <1>1
  <2>3. ds \in SUBSET Everyone
    <3>1. \A i \in 1..n : server.queue[i] \in Everyone
      BY <1>1
    <3> QED
      BY <3>1 DEF Prefix
  <2>4. server' = [server EXCEPT !.queue = q, !.ids = ds, !.turn = ds, !.phase = "running"]
    BY <2>1 DEF TurnBegins
  <2> HIDE DEF q, ds
  <2>5. server' \in ServerType
    BY <1>1, <2>2, <2>3, <2>4 DEF ServerType, Phases
  <2>6. <<"received">> \in Seq(EventKinds) /\ Ending(<<"received">>)
    BY <1>2 DEF EventKinds, Ending
  <2> QED
    BY <2>1, <2>5, <2>6 DEF TurnBegins
<1>4. CASE TurnParks
  <2>1. server' \in ServerType
    BY <1>1, <1>4 DEF TurnParks, ServerType, Phases
  <2>2. <<"waiting">> \in Seq(EventKinds) /\ Ending(<<"waiting">>)
    BY <1>2 DEF EventKinds, Ending
  <2> QED
    BY <1>4, <2>1, <2>2 DEF TurnParks
<1>5. CASE TurnAuthorized
  <2> DEFINE gone == IF server.ids = {} THEN {} ELSE server.waits \ server.ids
  <2>1. gone \in SUBSET Everyone
    BY <1>1 DEF ServerType
  <2>2. server' = [server EXCEPT !.turn = server.waits, !.waits = {}, !.auth = FALSE, !.phase = "running",
                     !.misnamed = server.misnamed \cup gone]
    BY <1>5 DEF TurnAuthorized
  <2> HIDE DEF gone
  <2>3. server' \in ServerType
    BY <1>1, <2>1, <2>2 DEF ServerType, Phases
  <2>4. <<"authCompleted">> \in Seq(EventKinds) /\ Ending(<<"authCompleted">>)
    BY <1>2 DEF EventKinds, Ending
  <2> QED
    BY <1>5, <2>3, <2>4 DEF TurnAuthorized
<1>6. CASE TurnNotified
  <2>1. server' \in ServerType
    BY <1>1, <1>6 DEF TurnNotified, ServerType, Phases
  <2>2. <<"received">> \in Seq(EventKinds) /\ Ending(<<"received">>)
    BY <1>2 DEF EventKinds, Ending
  <2> QED
    BY <1>6, <2>1, <2>2 DEF TurnNotified
<1>7. CASE TurnResponded
  <2>1. server' \in ServerType
    BY <1>1, <1>7 DEF TurnResponded, ServerType, Phases
  <2> QED
    BY <1>7, <2>1 DEF TurnResponded
<1>8. CASE TurnAsksAuthorization
  <2>1. server' \in ServerType
    <3>1. server' = [server EXCEPT !.phase = "parked", !.auth = TRUE, !.waits = server.waits \cup server.turn]
      BY <1>8 DEF TurnAsksAuthorization
    <3>2. server.waits \cup server.turn \in SUBSET Everyone
      BY <1>1 DEF ServerType
    <3> QED
      BY <1>1, <3>1, <3>2 DEF ServerType, Phases
  <2>2. PICK types : /\ types \in {<<"authRequired", "waiting">>, <<"authCompleted", "authRequired", "waiting">>}
                     /\ Emit(types)
    <3> DEFINE before == IF server.auth THEN <<"authCompleted">> ELSE <<>>
               asks == <<"authRequired", "waiting">>
    <3>1. Emit(before \o asks)
      BY <1>8 DEF TurnAsksAuthorization
    <3>2. CASE server.auth
      <4>1. before = <<"authCompleted">>
        BY <3>2
      <4>2. <<"authCompleted">> \o <<"authRequired", "waiting">> = <<"authCompleted", "authRequired", "waiting">>
        <5>1. {"authCompleted", "authRequired", "waiting"} \subseteq EventKinds
          BY DEF EventKinds
        <5> QED
          BY <5>1, Prefixed
      <4> QED
        BY <3>1, <4>1, <4>2
    <3>3. CASE ~server.auth
      <4>1. before \o asks = <<"authRequired", "waiting">>
        BY <3>3
      <4> QED
        BY <3>1, <4>1
    <3> QED
      BY <3>2, <3>3
  <2>3. types \in Seq(EventKinds) /\ Ending(types)
    <3>1. CASE types = <<"authRequired", "waiting">>
      <4>1. /\ types \in Seq(EventKinds) /\ Len(types) = 2
            /\ types[1] = "authRequired" /\ types[2] = "waiting"
        BY <3>1 DEF EventKinds
      <4> QED
        BY <4>1 DEF Ending
    <3>2. CASE types = <<"authCompleted", "authRequired", "waiting">>
      <4>1. /\ types \in Seq(EventKinds) /\ Len(types) = 3
            /\ types[1] = "authCompleted" /\ types[2] = "authRequired" /\ types[3] = "waiting"
        BY <3>2 DEF EventKinds
      <4> QED
        BY <4>1 DEF Ending
    <3> QED
      BY <2>2, <3>1, <3>2
  <2> QED
    BY <1>8, <2>1, <2>2, <2>3 DEF TurnAsksAuthorization
<1>9. CASE DeliveryDropped
  <2>1. server.queue # <<>> /\ Tail(server.queue) \in Seq(Everyone) /\ Head(server.queue) \in Everyone
    BY <1>1, <1>9 DEF DeliveryDropped
  <2>2. server' \in ServerType
    BY <1>1, <1>9, <2>1 DEF DeliveryDropped, ServerType
  <2> QED
    BY <1>9, <2>2 DEF DeliveryDropped
<1>10. CASE \E type \in {"failed", "completed"} : SessionEnds(type)
  <2>1. PICK type \in {"failed", "completed"} : SessionEnds(type)
    BY <1>10
  <2>2. server' \in ServerType /\ server'.phase = "over"
    <3>1. PICK ds : ds = IF server.phase = "running" THEN server.turn ELSE {}
      OBVIOUS
    <3>2. server' = [server EXCEPT !.phase = "over", !.turn = ds] /\ ds \in SUBSET Everyone
      BY <1>1, <2>1, <3>1 DEF SessionEnds, ServerType
    <3> QED
      BY <1>1, <3>2 DEF ServerType, Phases
  <2>3. <<type>> \in Seq(EventKinds) /\ Ending(<<type>>)
    BY <1>2, <2>2 DEF EventKinds, Ending
  <2> QED
    BY <2>1, <2>2, <2>3 DEF SessionEnds
<1>11. CASE \E x \in Others : OtherSends(x)
  <2>1. PICK x \in Others : OtherSends(x)
    BY <1>11
  <2>2. Append(server.queue, x) \in Seq(Everyone)
    BY <1>1 DEF Everyone
  <2>3. server' \in ServerType
    BY <1>1, <2>1, <2>2 DEF OtherSends, ServerType
  <2> QED
    BY <2>1, <2>3 DEF OtherSends
<1> QED
  BY <1>3, <1>4, <1>5, <1>6, <1>7, <1>8, <1>9, <1>10, <1>11 DEF ServerNext, ServerProgress

-----------------------------------------------------------------------------
(* The client's steps keep its types.                                       *)

\* Whatever of it changes, the store is one.
LEMMA StoreChanges ==
  ASSUME NEW s, StoreTyped(s)
  PROVE  /\ \A p : StoreTyped([s EXCEPT !.pending = p]) /\ [s EXCEPT !.pending = p].events = s.events
                   /\ [s EXCEPT !.pending = p].status = s.status
         /\ \A status \in Statuses :
              /\ StoreTyped([s EXCEPT !.status = status])
              /\ [s EXCEPT !.status = status].events = s.events
              /\ [s EXCEPT !.status = status].status = status
              /\ \A error \in BOOLEAN :
                   /\ StoreTyped([s EXCEPT !.error = error, !.status = status])
                   /\ [s EXCEPT !.error = error, !.status = status].events = s.events
                   /\ [s EXCEPT !.error = error, !.status = status].status = status
                   /\ \A p : /\ StoreTyped([s EXCEPT !.status = status, !.error = error, !.pending = p])
                             /\ [s EXCEPT !.status = status, !.error = error, !.pending = p].events = s.events
                             /\ [s EXCEPT !.status = status, !.error = error, !.pending = p].status = status
BY DEF StoreTyped

\* A stream's failure is a change of status; the events stay.
LEMMA FailureApplied ==
  ASSUME NEW s, StoreTyped(s), NEW e
  PROVE  /\ StoreTyped(applyTerminalStreamFailure(s, e)) /\ applyTerminalStreamFailure(s, e).events = s.events
         /\ applyTerminalStreamFailure(s, e).status = IF log[e].type = "failed" THEN "error" ELSE s.status
<1>1. CASE log[e].type = "failed"
  <2>1. PICK p : applyTerminalStreamFailure(s, e) = [s EXCEPT !.status = "error", !.error = TRUE, !.pending = p]
    BY <1>1 DEF applyTerminalStreamFailure
  <2>2. "error" \in Statuses
    BY DEF Statuses
  <2> QED
    BY <1>1, <2>1, <2>2 DEF StoreTyped
<1>2. CASE log[e].type # "failed"
  BY <1>2 DEF applyTerminalStreamFailure
<1> QED
  BY <1>1, <1>2

\* acceptServerEvent: the event is shown, unless it has been.
LEMMA EventShown ==
  ASSUME NEW s, StoreTyped(s), NEW e \in Nat, NEW status \in Statuses
  PROVE  /\ StoreTyped(acceptServerEvent(s, e, status))
         /\ Shown(acceptServerEvent(s, e, status)) = Shown(s) \cup {e}
         /\ acceptServerEvent(s, e, status).status
              \in {s.status, IF log[e].type = "failed" THEN "error" ELSE status}
         /\ acceptServerEvent(s, e, status).status = s.status \/ admit(s, e)
<1>1. CASE ~admit(s, e)
  <2>1. acceptServerEvent(s, e, status) = s /\ e \in Shown(s)
    BY <1>1 DEF acceptServerEvent, admit
  <2> QED
    BY <2>1
<1>2. CASE admit(s, e)
  <2>1. PICK p : acceptServerEvent(s, e, status) =
          applyTerminalStreamFailure(
            [s EXCEPT !.events = Append(s.events, e), !.status = status, !.pending = p], e)
    BY <1>2 DEF acceptServerEvent
  <2>2. PICK a : a = Append(s.events, e)
    OBVIOUS
  <2>3. PICK t : t = [s EXCEPT !.events = a, !.status = status, !.pending = p]
    OBVIOUS
  <2>4. /\ s.events \in Seq(Nat) /\ a \in Seq(Nat) /\ Len(s.events) \in Nat /\ Len(a) = Len(s.events) + 1
        /\ (\A i \in 1..Len(s.events) : a[i] = s.events[i]) /\ a[Len(s.events) + 1] = e
    BY <2>2 DEF StoreTyped
  <2>5. StoreTyped(t) /\ t.events = a /\ t.status = status
    BY <2>3, <2>4 DEF StoreTyped
  <2>6. Shown(t) = Shown(s) \cup {e}
    <3>1. DOMAIN s.events = 1..Len(s.events) /\ DOMAIN a = 1..(Len(s.events) + 1)
      BY <2>4
    <3>2. \A i \in 1..(Len(s.events) + 1) : i \in 1..Len(s.events) \/ i = Len(s.events) + 1
      BY <2>4
    <3>3. 1..Len(s.events) \subseteq 1..(Len(s.events) + 1) /\ Len(s.events) + 1 \in 1..(Len(s.events) + 1)
      BY <2>4
    <3> QED
      BY <2>4, <2>5, <3>1, <3>2, <3>3 DEF Shown
  <2>7. PICK u : u = applyTerminalStreamFailure(t, e)
    OBVIOUS
  <2>8. StoreTyped(u) /\ u.events = a /\ u.status = IF log[e].type = "failed" THEN "error" ELSE status
    BY <2>5, <2>7, FailureApplied
  <2>9. Shown(u) = Shown(t)
    BY <2>5, <2>8 DEF Shown
  <2>10. acceptServerEvent(s, e, status) = u
    BY <2>1, <2>2, <2>3, <2>7
  <2> QED
    BY <1>2, <2>6, <2>8, <2>9, <2>10
<1> QED
  BY <1>1, <1>2

\* Turns and readers.
LEMMA TurnsTyped ==
  ASSUME ClientTypes, NEW d \in Messages \cup {None}, NEW pc \in TurnPcs
  PROVE  /\ NewTurn(pc, d) \in TurnType /\ NewTurn(pc, d).pc = pc /\ NewTurn(pc, d).message = d
         /\ NewTurn(pc, d).start = 0 /\ NewTurn(pc, d).n = turn.n + 1 /\ NewTurn(pc, d).auth = FALSE
         /\ Over(d) \in TurnType /\ Over(d).pc = "none" /\ Over(d).message = d /\ Over(d).start = 0
<1>1. PICK n \in Nat, m \in Nat : n = turn.n + 1 /\ m = turn.n
  BY DEF ClientTypes, TurnType
<1>2. \A k \in Nat, c \in TurnPcs : Turn(c, k, d) \in TurnType /\ Turn(c, k, d).pc = c /\ Turn(c, k, d).message = d
          /\ Turn(c, k, d).start = 0 /\ Turn(c, k, d).n = k /\ Turn(c, k, d).auth = FALSE
  BY DEF Turn, TurnType
<1>3. "none" \in TurnPcs
  BY DEF TurnPcs
<1> QED
  BY <1>1, <1>2, <1>3 DEF NewTurn, Over

\* Whatever of a turn changes, it is one.
LEMMA TurnChanges ==
  ASSUME NEW t \in TurnType
  PROVE  /\ \A pc \in TurnPcs : /\ [t EXCEPT !.pc = pc] \in TurnType /\ [t EXCEPT !.pc = pc].pc = pc
                                /\ [t EXCEPT !.pc = pc].message = t.message /\ [t EXCEPT !.pc = pc].start = t.start
                                /\ [t EXCEPT !.pc = pc].auth = t.auth
BY DEF TurnType

\* A new reader.
LEMMA ReadersTyped ==
  /\ NoReader \in PlaceType /\ NoReader.mode = "none" /\ ~NoReader.open /\ NoReader.place = 0
  /\ \A mode \in Modes, n \in Nat : /\ Reader(mode, n) \in PlaceType /\ Reader(mode, n).mode = mode
                                    /\ Reader(mode, n).place = n /\ Reader(mode, n).started = FALSE
BY DEF NoReader, Reader, PlaceType, Modes

\* A reader that has read one event more.
LEMMA ReadTyped ==
  ASSUME ClientTypes
  PROVE  /\ Read \in PlaceType /\ Read.mode = reader.mode /\ Read.place = NextPlace(reader)
         /\ Read.started = reader.started /\ Read.open = reader.open /\ NextPlace(reader) \in Nat
         /\ NextPlace(reader) = reader.place + 1
<1>1. PICK n \in Nat : n = reader.place + 1
  BY DEF ClientTypes, PlaceType
<1>2. Read = [reader EXCEPT !.place = n, !.got = TRUE, !.idle = 0]
  BY <1>1 DEF Read, ClientTypes, PlaceType
<1> QED
  BY <1>1, <1>2 DEF ClientTypes, PlaceType, NextPlace

\* How a turn ends.
LEMMA TurnsEnd ==
  ASSUME ClientTypes, NEW s, StoreTyped(s), TurnDone(s) \/ TurnFails(s)
  PROVE  /\ StoreTyped(store') /\ store'.events = s.events
         /\ turn' \in TurnType /\ turn'.pc = "none" /\ turn'.start = 0 /\ turn'.message \in {turn.message, None}
         /\ ~TurnDone(s) => turn'.message = None
<1>1. turn.message \in Messages \cup {None} /\ "none" \in TurnPcs
  BY DEF ClientTypes, TurnType, TurnPcs
<1>2. CASE TurnDone(s)
  <2>1. PICK status \in Statuses : status = IF s.error THEN "error" ELSE "ready"
    BY DEF Statuses
  <2>2. StoreTyped(store') /\ store'.events = s.events
    BY <1>2, <2>1, StoreChanges DEF TurnDone
  <2> QED
    BY <1>1, <1>2, <2>2, TurnsTyped DEF TurnDone
<1>3. CASE TurnFails(s) /\ ~TurnDone(s)
  <2>1. PICK p : store' = [s EXCEPT !.status = "error", !.error = TRUE, !.pending = p]
    BY <1>3 DEF TurnFails
  <2>2. StoreTyped(store') /\ store'.events = s.events
    BY <2>1 DEF StoreTyped, Statuses
  <2> QED
    BY <1>1, <1>3, <2>2, TurnsTyped DEF TurnFails
<1> QED
  BY <1>2, <1>3

\* A stream ends with its reader's place in the cursor.
LEMMA StreamEnds ==
  ASSUME ClientTypes, NEW r \in PlaceType, r.mode = reader.mode, EndOfStream(r)
  PROVE  /\ cursor' \in {cursor, r.place} /\ reader' = NoReader
         /\ StoreTyped(store') /\ store'.events = store.events /\ turn' \in TurnType
         /\ turn'.start \in {0, turn.start} /\ turn'.message = turn.message
         /\ \/ r.mode = "steered" /\ turn'.pc = "none"
            \/ /\ r.mode # "steered" /\ turn'.pc = AfterRead /\ AfterRead \in {"replayed", "probed", "settle"}
               /\ store' = store
<1>1. cursor' \in {cursor, r.place} /\ reader' = NoReader
  BY DEF EndOfStream, CursorAfter
<1>2. CASE r.mode = "steered"
  <2>1. TurnDone(store) /\ StoreTyped(store) /\ turn' = Over(turn.message)
    BY <1>2 DEF EndOfStream, ClientTypes, TurnDone
  <2>2. turn'.message = turn.message
    BY <2>1 DEF Over, Turn
  <2> QED
    BY <1>1, <1>2, <2>1, <2>2, TurnsEnd
<1>3. CASE r.mode # "steered"
  <2>1. store' = store /\ turn' = [turn EXCEPT !.pc = AfterRead] /\ turn \in TurnType /\ StoreTyped(store)
    BY <1>3 DEF EndOfStream, ClientTypes
  <2>2. AfterRead \in {"replayed", "probed", "settle"} /\ AfterRead \in TurnPcs
    BY DEF AfterRead, TurnPcs
  <2> QED
    BY <1>1, <1>3, <2>1, <2>2, TurnChanges
<1> QED
  BY <1>2, <1>3

-----------------------------------------------------------------------------
(* The inductive invariant: not only the cursor, but every place that may   *)
(* be written to it later, is behind what was applied, passed over, or      *)
(* forgotten by reset.  A turn that resume replaces has failed with its     *)
(* session: nothing is left for its reader to count.                        *)

Known == Shown(store) \cup passed \cup 1..forgot
Covers(K, n) == n \in Nat /\ 1..n \subseteq K
Reaches(K, r) == r.mode # "none" => Covers(K, r.upto)
Places ==
  /\ Known \subseteq 1..Len(log)
  /\ Covers(Known, cursor) /\ Covers(Known, turn.start) /\ Covers(Known, reader.place)
  /\ \A r \in stale : Reaches(Known, r)

EndInv == \A e \in 1..Len(log) : Terminal(e) => e = Len(log) /\ server.phase = "over"

\* Which stream is read where, and that a send reads no replay.
Replays == {"replay", "replayed", "probe", "probed", "live"}
ModeOf(pc) ==
  CASE pc \in {"response", "replay", "probe", "live", "steered"} -> pc
    [] pc = "pause" -> "steered"
    [] OTHER -> "none"
ModeInv ==
  /\ reader.mode = ModeOf(turn.pc) /\ (reader.mode = "none" => ~reader.open)
  /\ turn.message # None => turn.pc \notin Replays
  /\ turn.pc \in {"prepare", "post", "response"} => turn.message # None

\* A send that is still followed though its session has failed.
Stuck == Active /\ turn.message # None /\ store.status \notin {"submitted", "streaming"}
FailInv == Stuck => server.phase = "over" /\ Covers(Known, Len(log))

IInv == Typed /\ EndInv /\ ModeInv /\ Places /\ FailInv

\* What is known stays known when more is.
LEMMA CoversMore ==
  ASSUME NEW K, NEW L, K \subseteq L
  PROVE  /\ \A n : Covers(K, n) => Covers(L, n)
         /\ \A r : Reaches(K, r) => Reaches(L, r)
BY DEF Covers, Reaches

\* A step of the client that reads nothing: the places that change are taken
\* from places that were reached before.
LEMMA NothingRead ==
  ASSUME IInv, ClientTypes', log' = log, server' \in ServerType, server'.phase = server.phase,
         store'.events = store.events, UNCHANGED <<passed, forgot>>,
         Covers(Known, cursor'), Covers(Known, turn'.start), Covers(Known, reader'.place),
         \A r \in stale' : Reaches(Known, r), ModeInv', Stuck' => Stuck
  PROVE  IInv'
<1>1. Known' = Known
  BY DEF Known, Shown
<1>2. Typed' /\ EndInv'
  BY DEF IInv, Typed, SessionTypes, EndInv, Terminal
<1>3. Places' /\ FailInv'
  BY <1>1 DEF IInv, Places, FailInv
<1> QED
  BY <1>2, <1>3 DEF IInv

\* Places that were reached.
LEMMA Reached ==
  ASSUME IInv
  PROVE  /\ Covers(Known, 0) /\ Covers(Known, cursor) /\ Covers(Known, turn.start)
         /\ Covers(Known, reader.place) /\ \A r \in stale : Reaches(Known, r)
         /\ ClientTypes /\ StoreTyped(store) /\ turn \in TurnType /\ reader \in PlaceType
         /\ cursor \in Nat /\ reader.mode = ModeOf(turn.pc) /\ turn.pc \in TurnPcs
         /\ server \in ServerType /\ turn.message \in Messages \cup {None}
BY DEF IInv, Places, Covers, Typed, ClientTypes, SessionTypes, ModeInv, TurnType

\* The recorded turns are over, and belong to nobody.
LEMMA RecordedTurns ==
  ASSUME Init
  PROVE  /\ log \in Seq(Event) /\ Len(log) \in Nat
         /\ \A e \in 1..Len(log) : log[e].type \in {"received", "waiting"} /\ log[e].of = {} /\ log[e].ids = {}
<1> DEFINE old == [i \in 1..(2 * OldTurns) |->
                     [type |-> IF i % 2 = 1 THEN "received" ELSE "waiting", id |-> FALSE,
                      ids |-> {}, of |-> {}]]
<1>1. 2 * OldTurns \in Nat
  BY StoreConstants
<1>2. \A i \in 1..(2 * OldTurns) :
        old[i] \in Event /\ old[i].type \in {"received", "waiting"} /\ old[i].of = {} /\ old[i].ids = {}
  BY DEF Event, EventKinds
<1>3. log = old
  BY DEF Init
<1> HIDE DEF old
<1>4. DOMAIN old = 1..(2 * OldTurns)
  BY DEF old
<1>5. old \in [1..(2 * OldTurns) -> Event]
  BY <1>2 DEF old
<1>6. old \in Seq(Event) /\ Len(old) = 2 * OldTurns
  BY <1>1, <1>4, <1>5
<1> QED
  BY <1>1, <1>2, <1>3, <1>6

\* The invariant holds at first: nothing is read, the recorded turns are over.
LEMMA InitIInv == Init => IInv
<1> SUFFICES ASSUME Init PROVE IInv
  OBVIOUS
<1>1. /\ cursor = 0 /\ stale = {} /\ ups = {} /\ passed = {} /\ forgot = 0 /\ reader = NoReader
      /\ turn = Turn("none", 0, None) /\ store.events = <<>>
      /\ store = [status |-> "ready", error |-> FALSE, events |-> <<>>, pending |-> <<>>]
      /\ budget = [sent |-> {}, left |-> MaxEvents]
  BY DEF Init
<1>2. /\ log \in Seq(Event) /\ Len(log) \in Nat
      /\ \A e \in 1..Len(log) : log[e].type \in {"received", "waiting"} /\ log[e].of = {} /\ log[e].ids = {}
  BY RecordedTurns
<1>3. /\ server \in ServerType /\ server.queue = <<>> /\ server.phase = "parked"
      /\ server.ids = {} /\ server.waits = {} /\ server.turn = {}
  BY DEF Init, ServerType, Phases
<1>4. turn \in TurnType /\ turn.pc = "none" /\ turn.message = None /\ turn.start = 0
  BY <1>1 DEF Turn, TurnType, TurnPcs
<1>5. Typed
  BY <1>1, <1>2, <1>3, <1>4, ReadersTyped DEF Typed, SessionTypes, ClientTypes, StoreTyped, Statuses
<1>6. Known = {}
  BY <1>1 DEF Known, Shown
<1>7. Places
  BY <1>1, <1>4, <1>6, ReadersTyped DEF Places, Covers
<1>8. EndInv /\ ModeInv /\ FailInv
  BY <1>1, <1>2, <1>4, ReadersTyped DEF EndInv, Terminal, ModeInv, ModeOf, FailInv, Stuck, Active
<1> QED
  BY <1>5, <1>7, <1>8 DEF IInv

\* The session's own steps leave the client's places alone.
LEMMA SessionStepsI ==
  ASSUME IInv, ServerNext
  PROVE  /\ IInv' /\ Len(log') >= Len(log) /\ \A e \in 1..Len(log) : log'[e] = log[e]
<1>1. /\ UNCHANGED <<cursor, store, turn, reader, ups, stale, passed, forgot>>
      /\ server.phase # "over" /\ server' \in ServerType /\ (budget' = budget \/ Spend)
      /\ \/ log' = log
         \/ \E types \in Seq(EventKinds) : Emit(types) /\ Ending(types)
  BY SessionSteps DEF IInv, client
<1>2. log \in Seq(Event) /\ Len(log) \in Nat /\ SessionTypes /\ ClientTypes
  BY DEF IInv, Typed, SessionTypes
<1>3. /\ log' \in Seq(Event) /\ Len(log') \in Nat /\ Len(log') >= Len(log)
      /\ \A e \in 1..Len(log) : log'[e] = log[e]
      /\ \A e \in 1..Len(log') : e > Len(log) /\ log'[e].type \in {"failed", "completed"}
                                   => e = Len(log') /\ server'.phase = "over"
  <2>1. CASE log' = log
    BY <1>2, <2>1
  <2>2. CASE \E types \in Seq(EventKinds) : Emit(types) /\ Ending(types)
    <3>1. PICK types \in Seq(EventKinds) : Emit(types) /\ Ending(types)
      BY <2>2
    <3>2. /\ log' \in Seq(Event) /\ Len(log') = Len(log) + Len(types) /\ Len(types) \in Nat
          /\ \A e \in 1..Len(log) : log'[e] = log[e]
          /\ \A i \in 1..Len(types) : log'[Len(log) + i].type = types[i]
      <4>1. server' \in ServerType /\ SessionTypes
        BY <1>1, <1>2
      <4>2. /\ log' \in Seq(Event) /\ Len(log') = Len(log) + Len(types) /\ Len(types) \in Nat
            /\ \A e \in 1..Len(log) : log'[e] = log[e]
            /\ \A i \in 1..Len(types) :
                 log'[Len(log) + i] = [type |-> types[i], id |-> TRUE, ids |-> server'.ids, of |-> server'.turn]
        BY <3>1, <4>1, Emits
      <4>3. ASSUME NEW i \in 1..Len(types) PROVE log'[Len(log) + i].type = types[i]
        <5>1. log'[Len(log) + i] = [type |-> types[i], id |-> TRUE, ids |-> server'.ids, of |-> server'.turn]
          BY <4>2
        <5> QED
          BY <5>1
      <4> QED
        BY <4>2, <4>3
    <3>3. ASSUME NEW e \in 1..Len(log'), e > Len(log), log'[e].type \in {"failed", "completed"}
          PROVE  e = Len(log') /\ server'.phase = "over"
      <4>1. e - Len(log) \in 1..Len(types) /\ e = Len(log) + (e - Len(log))
        BY <1>2, <3>2, <3>3
      <4>2. types[e - Len(log)] \in {"failed", "completed"}
        BY <3>2, <3>3, <4>1
      <4>3. e - Len(log) = Len(types) /\ server'.phase = "over"
        BY <3>1, <4>1, <4>2 DEF Ending
      <4> QED
        BY <1>2, <3>2, <4>1, <4>3
    <3> QED
      BY <1>2, <3>2, <3>3
  <2> QED
    BY <1>1, <2>1, <2>2
<1>4. Typed'
  <2>1. DOMAIN budget' = {"sent", "left"} /\ budget'.sent \subseteq Messages
    BY <1>1, <1>2, Spends
  <2>2. ClientTypes'
    BY <1>1, <1>2, <2>1 DEF ClientTypes, StoreTyped
  <2> QED
    BY <1>1, <1>3, <2>2 DEF Typed, SessionTypes
<1>5. EndInv'
  <2> SUFFICES ASSUME NEW e \in 1..Len(log'), log'[e].type \in {"failed", "completed"}
               PROVE  e = Len(log') /\ server'.phase = "over"
    BY DEF EndInv, Terminal
  <2>1. e > Len(log)
    <3> SUFFICES ASSUME e \in 1..Len(log) PROVE FALSE
      BY <1>2, <1>3
    <3>1. log[e].type \in {"failed", "completed"}
      BY <1>3
    <3> QED
      BY <1>1, <3>1 DEF IInv, EndInv, Terminal
  <2> QED
    BY <1>3, <2>1
<1>6. Known' = Known
  BY <1>1 DEF Known, Shown
<1>7. Places'
  BY <1>1, <1>2, <1>3, <1>6 DEF IInv, Places, Covers
<1>8. ModeInv' /\ FailInv'
  BY <1>1 DEF IInv, ModeInv, FailInv, Stuck, Active
<1> QED
  BY <1>3, <1>4, <1>5, <1>7, <1>8 DEF IInv

\* A delivery the session accepts goes to the end of its queue.
LEMMA DeliveryAccepted ==
  ASSUME SessionTypes, NEW d \in Everyone
  PROVE  /\ Accepted(d) \in ServerType /\ Accepted(d).queue = Append(server.queue, d)
         /\ Accepted(d).phase = server.phase /\ Accepted(d).ids = server.ids /\ Accepted(d).turn = server.turn
         /\ Accepted(d).waits = server.waits /\ Accepted(d).misnamed = server.misnamed
<1>1. server \in ServerType /\ Append(server.queue, d) \in Seq(Everyone)
  BY DEF SessionTypes, ServerType
<1>2. PICK q : q = Append(server.queue, d)
  OBVIOUS
<1>3. Accepted(d) = [server EXCEPT !.queue = q]
  BY <1>1, <1>2 DEF Accepted, ServerType
<1> QED
  BY <1>1, <1>2, <1>3 DEF ServerType

\* A turn that ends leaves no reader, and no send behind that is followed.
LEMMA ModeOver ==
  ASSUME turn'.pc = "none", reader' = NoReader
  PROVE  ModeInv' /\ ~Stuck'
BY ReadersTyped DEF ModeInv, ModeOf, Replays, Stuck, Active

\* A connection is opened, or given up, or ends.
LEMMA ConnectionStepsI ==
  ASSUME IInv, Connect \/ ConnectFails \/ Cut \/ Idle
  PROVE  IInv'
<1>1. /\ UNCHANGED <<log, server, ups, stale, passed, forgot>> /\ (budget' = budget \/ Spend)
  BY DEF Connect, ConnectFails, Cut, Idle, Reconnect
<1>2. /\ DOMAIN budget' = {"sent", "left"} /\ budget'.sent \subseteq Messages
      /\ ups' \subseteq UpType /\ stale' \subseteq LeftType /\ forgot' \in Nat
  BY <1>1, Reached, Spends DEF ClientTypes
<1>3. CASE ConnectFails
  <2>1. cursor' \in {cursor, reader.place} /\ reader' = NoReader /\ TurnFails(store)
    BY <1>3 DEF ConnectFails, CursorAfter
  <2>2. /\ StoreTyped(store') /\ store'.events = store.events
        /\ turn' \in TurnType /\ turn'.pc = "none" /\ turn'.start = 0
    BY <2>1, Reached, TurnsEnd
  <2>3. ModeInv' /\ ~Stuck' /\ reader' \in PlaceType /\ reader'.place = 0
    BY <2>1, <2>2, ModeOver, ReadersTyped
  <2>4. Covers(Known, cursor') /\ cursor' \in Nat
    BY <2>1, Reached DEF Covers
  <2>5. ClientTypes'
    BY <1>2, <2>2, <2>3, <2>4 DEF ClientTypes
  <2> QED
    BY <1>1, <2>2, <2>3, <2>4, <2>5, Reached, NothingRead
<1>4. ASSUME NEW r \in PlaceType, r.mode = reader.mode, r.place = reader.place, reader.mode # "none",
             EndOfStream(r) \/ (reader' = r /\ UNCHANGED <<cursor, store, turn>>)
      PROVE  IInv'
  <2>1. CASE EndOfStream(r)
    <3>1. /\ cursor' \in {cursor, r.place} /\ reader' = NoReader
          /\ StoreTyped(store') /\ store'.events = store.events /\ turn' \in TurnType
          /\ turn'.start \in {0, turn.start} /\ turn'.message = turn.message
          /\ \/ r.mode = "steered" /\ turn'.pc = "none"
             \/ /\ r.mode # "steered" /\ turn'.pc \in {"replayed", "probed", "settle"} /\ store' = store
      BY <1>4, <2>1, Reached, StreamEnds
    <3>2. Covers(Known, cursor') /\ cursor' \in Nat /\ Covers(Known, turn'.start)
      BY <1>4, <3>1, Reached DEF Covers
    <3>3. reader' \in PlaceType /\ reader'.place = 0
      BY <3>1, ReadersTyped
    <3>4. ClientTypes'
      BY <1>2, <3>1, <3>2, <3>3 DEF ClientTypes
    <3>5. ModeInv' /\ (Stuck' => Stuck)
      <4>1. CASE turn'.pc = "none"
        BY <3>1, <4>1, ModeOver
      <4>2. CASE turn'.pc \in {"replayed", "probed", "settle"} /\ store' = store /\ r.mode # "steered"
        <5>1. turn.pc # "none"
          BY <1>4, Reached DEF ModeOf
        <5>2. Stuck' => Stuck
          BY <3>1, <4>2, <5>1 DEF Stuck, Active
        <5>3. ModeInv'
          <6>1. turn'.message # None => turn.pc = "response"
            BY <1>4, <3>1, <4>2, Reached DEF IInv, ModeInv, ModeOf, Replays, TurnPcs
          <6>2. CASE r.mode = "response"
            <7>1. AfterRead = "settle" /\ turn'.pc = AfterRead
              BY <1>4, <2>1, <6>2, Reached, StreamEnds DEF AfterRead
            <7> QED
              BY <3>1, <7>1, ReadersTyped DEF ModeInv, ModeOf, Replays
          <6>3. CASE r.mode # "response"
            <7>1. turn'.message = None
              BY <1>4, <6>1, <6>3, Reached DEF ModeOf
            <7> QED
              BY <3>1, <4>2, <7>1, ReadersTyped DEF ModeInv, ModeOf
          <6> QED
            BY <6>2, <6>3
        <5> QED
          BY <5>2, <5>3
      <4> QED
        BY <3>1, <4>1, <4>2
    <3> QED
      BY <1>1, <3>1, <3>2, <3>3, <3>4, <3>5, Reached, NothingRead
  <2>2. CASE reader' = r /\ UNCHANGED <<cursor, store, turn>>
    <3>1. ClientTypes'
      BY <1>2, <1>4, <2>2, Reached DEF ClientTypes
    <3>2. ModeInv' /\ (Stuck' => Stuck)
      BY <1>4, <2>2 DEF IInv, ModeInv, Stuck, Active
    <3> QED
      BY <1>1, <1>4, <2>2, <3>1, <3>2, Reached, NothingRead
  <2> QED
    BY <1>4, <2>1, <2>2
<1>5. CASE Connect
  <2> DEFINE bound == IF Bounded(reader) /\ reader.bound = 0 THEN Len(log) ELSE reader.bound
             r == [reader EXCEPT !.open = TRUE, !.bound = bound]
  <2>1. EndOfStream(r) \/ (reader' = r /\ UNCHANGED <<cursor, store, turn>>)
    BY <1>5 DEF Connect
  <2>2. bound \in Nat
    BY Reached DEF IInv, Typed, SessionTypes, PlaceType
  <2> HIDE DEF bound
  <2>3. r \in PlaceType /\ r.mode = reader.mode /\ r.place = reader.place /\ reader.mode # "none"
    BY <1>5, <2>2, Reached DEF PlaceType, Connect
  <2> HIDE DEF r
  <2> QED
    BY <1>4, <2>1, <2>3
<1>6. CASE Cut \/ Idle
  <2> DEFINE idle == IF CountsIdle THEN reader.idle + 1 ELSE reader.idle
             r == [reader EXCEPT !.open = FALSE, !.idle = idle, !.got = reader.mode = "response"]
  <2>1. EndOfStream(r) \/ (reader' = r /\ UNCHANGED <<cursor, store, turn>>)
    BY <1>6 DEF Cut, Idle, Reconnect
  <2>2. idle \in Nat
    BY Reached DEF PlaceType
  <2>3. reader.mode # "none"
    BY <1>6 DEF Cut, Idle, IInv, ModeInv
  <2> HIDE DEF idle
  <2>4. r \in PlaceType /\ r.mode = reader.mode /\ r.place = reader.place
    BY <2>2, Reached DEF PlaceType
  <2> HIDE DEF r
  <2> QED
    BY <1>4, <2>1, <2>3, <2>4
<1> QED
  BY <1>3, <1>5, <1>6

\* A turn starts with a message.
LEMMA Starts ==
  ASSUME IInv, NEW d \in Messages, StartSend(d), ~Active
  PROVE  /\ turn' \in TurnType /\ turn'.pc = "prepare" /\ turn'.message = d /\ turn'.start = 0
         /\ StoreTyped(store') /\ store'.events = store.events
         /\ (reader' = reader => ModeInv') /\ ~Stuck'
<1>1. /\ turn' \in TurnType /\ turn'.pc = "prepare" /\ turn'.message = d /\ turn'.start = 0
  <2>1. "prepare" \in TurnPcs /\ ClientTypes /\ d \in Messages \cup {None}
    BY Reached DEF TurnPcs
  <2>2. PICK t : t = NewTurn("prepare", d)
    OBVIOUS
  <2>3. t \in TurnType /\ t.pc = "prepare" /\ t.message = d /\ t.start = 0
    BY <2>1, <2>2, TurnsTyped
  <2> QED
    BY <2>2, <2>3 DEF StartSend
<1>2. StoreTyped(store') /\ store'.events = store.events /\ store'.status = "submitted"
  BY Reached DEF StartSend, StoreTyped, Statuses
<1>3. reader.mode = "none" /\ ~reader.open
  BY Reached DEF Active, ModeOf, IInv, ModeInv
<1> QED
  BY <1>1, <1>2, <1>3, StoreConstants DEF ModeInv, ModeOf, Replays, Stuck

\* A turn is started, posted, or goes from one stream to the next.
LEMMA TurnStepsI ==
  ASSUME IInv, \/ SendPrepared \/ SendPosted \/ \E lost \in BOOLEAN : SendFails(lost)
               \/ ReplayDone \/ ProbeDone \/ FollowSteered \/ SteeredBoundary
               \/ \E d \in Messages : send(d)
  PROVE  IInv'
<1>1. UNCHANGED <<log, ups, stale, passed, forgot>>
  BY DEF SendPrepared, SendPosted, SendFails, ReplayDone, ProbeDone, FollowSteered, SteeredBoundary, send
<1>2. /\ DOMAIN budget' = {"sent", "left"} /\ budget'.sent \subseteq Messages
  <2>1. CASE budget' = budget \/ Spend
    BY <2>1, Reached, Spends
  <2>2. CASE \E d \in Messages : send(d)
    BY <2>2, Reached DEF send, Types, ClientTypes
  <2> QED
    BY <2>1, <2>2 DEF SendPrepared, SendPosted, SendFails, ReplayDone, ProbeDone, FollowSteered, SteeredBoundary
<1>3. server' \in ServerType /\ server'.phase = server.phase
  <2>1. turn.pc = "post" => turn.message \in Everyone
    BY Reached DEF IInv, ModeInv, Everyone
  <2>2. server' = server \/ (server' = Accepted(turn.message) /\ turn.pc = "post")
    BY DEF SendPrepared, SendPosted, SendFails, ReplayDone, ProbeDone, FollowSteered, SteeredBoundary, send
  <2> QED
    BY <2>1, <2>2, Reached, DeliveryAccepted DEF IInv, Typed
<1>4. SUFFICES /\ StoreTyped(store') /\ store'.events = store.events /\ turn' \in TurnType /\ reader' \in PlaceType
               /\ Covers(Known, cursor') /\ Covers(Known, turn'.start) /\ Covers(Known, reader'.place)
               /\ ModeInv' /\ (Stuck' => Stuck)
  <2>1. cursor' \in Nat
    BY <1>4 DEF Covers
  <2>2. ClientTypes'
    BY <1>1, <1>2, <1>4, <2>1, Reached DEF ClientTypes
  <2> QED
    BY <1>1, <1>3, <1>4, <2>2, Reached, NothingRead
<1>5. CASE \E d \in Messages : send(d)
  <2>1. PICK d \in Messages : StartSend(d) /\ ~Active /\ UNCHANGED <<cursor, reader>>
    BY <1>5 DEF send
  <2> QED
    BY <2>1, Reached, Starts
<1>6. CASE SendPrepared
  <2>1. PICK p : store' = [store EXCEPT !.pending = p]
    BY <1>6 DEF SendPrepared
  <2>2. StoreTyped(store') /\ store'.events = store.events /\ store'.status = store.status
    BY <2>1, Reached DEF StoreTyped
  <2>3. turn' \in TurnType /\ turn'.pc = "post" /\ turn'.message = turn.message /\ turn'.start = cursor
    BY <1>6, Reached DEF SendPrepared, TurnType, TurnPcs
  <2>4. ModeInv' /\ (Stuck' => Stuck)
    BY <1>6, <2>2, <2>3, Reached DEF SendPrepared, IInv, ModeInv, ModeOf, Replays, Stuck, Active
  <2> QED
    BY <1>6, <2>2, <2>3, <2>4, Reached DEF SendPrepared
<1>7. CASE SendPosted
  <2>1. turn' \in TurnType /\ turn'.pc = "response" /\ turn'.message = turn.message /\ turn'.start = 0
    BY <1>7, Reached DEF SendPosted, TurnType, TurnPcs
  <2>2. reader' = Reader("response", turn.start) /\ turn.start \in Nat /\ "response" \in Modes
    BY <1>7, Reached DEF SendPosted, TurnType, Modes
  <2>3. reader' \in PlaceType /\ reader'.mode = "response" /\ reader'.place = turn.start
    BY <2>2, ReadersTyped
  <2>4. ModeInv' /\ (Stuck' => Stuck)
    BY <1>7, <2>1, <2>3 DEF SendPosted, IInv, ModeInv, ModeOf, Replays, Stuck, Active
  <2> QED
    BY <1>7, <2>1, <2>3, <2>4, Reached DEF SendPosted
<1>8. CASE \E lost \in BOOLEAN : SendFails(lost)
  <2>1. TurnFails(store) /\ UNCHANGED <<cursor, reader>> /\ turn.pc = "post"
    BY <1>8 DEF SendFails
  <2>2. /\ StoreTyped(store') /\ store'.events = store.events
        /\ turn' \in TurnType /\ turn'.pc = "none" /\ turn'.start = 0
    BY <2>1, Reached, TurnsEnd
  <2>3. reader.mode = "none"
    BY <2>1, Reached DEF ModeOf
  <2>4. ModeInv' /\ ~Stuck'
    BY <2>1, <2>2, <2>3 DEF IInv, ModeInv, ModeOf, Replays, Stuck, Active
  <2> QED
    BY <2>1, <2>2, <2>4, Reached
<1>9. CASE ReplayDone
  <2> DEFINE s == IF turn.tail = 0 THEN store ELSE applyTerminalStreamFailure(store, turn.tail)
  <2>1. StoreTyped(s) /\ s.events = store.events
    BY Reached, FailureApplied
  <2>2. PICK pc \in {"probe", "live", "settle"} :
          /\ turn' = [turn EXCEPT !.pc = pc]
          /\ reader' = IF pc = "settle" THEN reader ELSE Reader(pc, cursor)
          /\ \/ store' = s
             \/ \E status \in {"streaming", "error", "ready"} : store' = [s EXCEPT !.status = status]
    <3>1. (IF s.error THEN "error" ELSE "ready") \in {"streaming", "error", "ready"}
      OBVIOUS
    <3> QED
      BY <1>9, <3>1 DEF ReplayDone
  <2>3. cursor' = cursor /\ turn.message = None /\ reader.mode = "none"
    BY <1>9, Reached DEF ReplayDone, IInv, ModeInv, ModeOf, Replays
  <2> HIDE DEF s
  <2>4. StoreTyped(store') /\ store'.events = store.events
    BY <2>1, <2>2 DEF StoreTyped, Statuses
  <2>5. turn' \in TurnType /\ turn'.pc = pc /\ turn'.message = None /\ turn'.start = turn.start
    BY <2>2, <2>3, Reached DEF TurnType, TurnPcs
  <2>6. reader' \in PlaceType /\ Covers(Known, reader'.place) /\ reader'.mode = ModeOf(pc)
        /\ (reader'.mode = "none" => ~reader'.open)
    <3>1. CASE pc = "settle"
      BY <2>2, <2>3, <3>1, Reached DEF ModeOf, IInv, ModeInv
    <3>2. CASE pc # "settle"
      <4>1. reader' = Reader(pc, cursor) /\ pc \in Modes /\ ModeOf(pc) = pc /\ pc # "none"
        BY <2>2, <3>2 DEF Modes, ModeOf
      <4> QED
        BY <4>1, Reached, ReadersTyped
    <3> QED
      BY <3>1, <3>2
  <2>7. ModeInv' /\ ~Stuck'
    BY <2>5, <2>6 DEF ModeInv, Stuck
  <2> QED
    BY <2>3, <2>4, <2>5, <2>6, <2>7, Reached
<1>10. CASE ProbeDone
  <2>1. PICK pc \in {"live", "settle"} :
          /\ turn' = [turn EXCEPT !.pc = pc] /\ UNCHANGED <<cursor, store>>
          /\ reader' = IF pc = "settle" THEN NoReader ELSE Reader(pc, cursor)
    BY <1>10 DEF ProbeDone
  <2>2. turn.message = None
    BY <1>10 DEF ProbeDone, IInv, ModeInv, Replays
  <2>3. turn' \in TurnType /\ turn'.pc = pc /\ turn'.message = None /\ turn'.start = turn.start
    BY <2>1, <2>2, Reached DEF TurnType, TurnPcs
  <2>4. reader' \in PlaceType /\ Covers(Known, reader'.place) /\ reader'.mode = ModeOf(pc)
        /\ (reader'.mode = "none" => ~reader'.open)
    BY <2>1, Reached, ReadersTyped DEF Modes, ModeOf
  <2>5. ModeInv' /\ ~Stuck'
    BY <2>3, <2>4 DEF ModeInv, Stuck
  <2> QED
    BY <2>1, <2>3, <2>4, <2>5, Reached
<1>11. CASE FollowSteered \/ SteeredBoundary
  <2>1. turn.pc \in {"settle", "pause"} /\ turn.pc \notin Replays /\ turn.pc # "none"
    BY <1>11 DEF FollowSteered, SteeredBoundary, Replays
  <2>2. CASE TurnDone(store)
    <3>1. /\ StoreTyped(store') /\ store'.events = store.events
          /\ turn' \in TurnType /\ turn'.pc = "none" /\ turn'.start = 0
      BY <2>2, Reached, TurnsEnd
    <3>2. \/ cursor' = cursor /\ reader' = reader /\ turn.pc = "settle"
          \/ cursor' = CursorAfter(reader, reader.place) /\ reader' = NoReader
          \/ cursor' = cursor /\ reader' = Reader("steered", cursor) /\ turn' = [turn EXCEPT !.pc = "steered"]
          \/ UNCHANGED <<cursor, reader>> /\ turn' = [turn EXCEPT !.pc = "steered"]
      BY <1>11 DEF FollowSteered, SteeredBoundary
    <3>3. ~(turn' = [turn EXCEPT !.pc = "steered"])
      BY <3>1, Reached, TurnChanges DEF TurnPcs
    <3>4. cursor' \in {cursor, reader.place} /\ reader' \in {reader, NoReader}
          /\ reader'.mode = "none" /\ ~reader'.open
      BY <3>2, <3>3, Reached, ReadersTyped DEF CursorAfter, ModeOf, IInv, ModeInv
    <3>5. ModeInv' /\ ~Stuck'
      BY <3>1, <3>4 DEF ModeInv, ModeOf, Replays, Stuck, Active
    <3> QED
      BY <3>1, <3>4, <3>5, Reached, ReadersTyped
  <2>3. CASE ~TurnDone(store)
    <3>1. /\ turn' = [turn EXCEPT !.pc = "steered"] /\ UNCHANGED <<cursor, store>>
          /\ ((reader' = reader /\ turn.pc = "pause") \/ reader' = Reader("steered", cursor))
      BY <1>11, <2>3 DEF FollowSteered, SteeredBoundary
    <3>2. turn' \in TurnType /\ turn'.pc = "steered" /\ turn'.message = turn.message /\ turn'.start = turn.start
      BY <3>1, Reached, TurnChanges DEF TurnPcs
    <3>3. reader' \in PlaceType /\ Covers(Known, reader'.place) /\ reader'.mode = "steered"
      BY <3>1, Reached, ReadersTyped DEF ModeOf, Modes
    <3>4. ModeInv' /\ (Stuck' => Stuck)
      BY <2>1, <3>1, <3>2, <3>3 DEF ModeInv, ModeOf, Replays, Stuck, Active
    <3> QED
      BY <3>1, <3>2, <3>3, <3>4, Reached
  <2> QED
    BY <2>2, <2>3
<1> QED
  BY <1>5, <1>6, <1>7, <1>8, <1>9, <1>10, <1>11

\* A follow-up is typed or goes on, or the reader of a turn that was replaced
\* writes the place it has got to.
LEMMA FollowUpStepsI ==
  ASSUME IInv, \/ \E f \in ups : \/ FollowUpPrepared(f) \/ FollowUpWaited(f) \/ FollowUpPosted(f)
                                  \/ \E lost \in BOOLEAN : FollowUpFails(f, lost)
               \/ \E d \in Messages : sendFollowUp(d)
  PROVE  IInv'
<1>1. CASE \E d \in Messages : sendFollowUp(d)
  <2>1. PICK d \in Messages : sendFollowUp(d)
    BY <1>1
  <2>2. /\ UNCHANGED <<log, server, cursor, store, turn, reader, stale, passed, forgot>>
        /\ budget' = [budget EXCEPT !.sent = @ \cup {d}]
        /\ ups' = ups \cup {[message |-> d, n |-> turn.n, pc |-> "prepare"]}
    BY <2>1 DEF sendFollowUp, Types
  <2>3. turn.n \in Nat
    BY Reached DEF TurnType
  <2>4. ups' \subseteq UpType
    BY <2>2, <2>3, Reached DEF ClientTypes, UpType
  <2>5. DOMAIN budget' = {"sent", "left"} /\ budget'.sent \subseteq Messages
    BY <2>2, Reached DEF ClientTypes
  <2>6. ClientTypes'
    BY <2>2, <2>4, <2>5, Reached DEF ClientTypes
  <2>7. ModeInv' /\ (Stuck' => Stuck)
    BY <2>2 DEF IInv, ModeInv, Stuck, Active
  <2> QED
    BY <2>2, <2>6, <2>7, Reached, NothingRead
<1>2. CASE \E f \in ups : \/ FollowUpPrepared(f) \/ FollowUpWaited(f) \/ FollowUpPosted(f)
                           \/ \E lost \in BOOLEAN : FollowUpFails(f, lost)
  <2>1. PICK f \in ups : \/ FollowUpPrepared(f) \/ FollowUpWaited(f) \/ FollowUpPosted(f)
                         \/ \E lost \in BOOLEAN : FollowUpFails(f, lost)
    BY <1>2
  <2>2. UNCHANGED <<log, cursor, reader, stale, passed, forgot>> /\ (budget' = budget \/ Spend)
    BY <2>1 DEF FollowUpPrepared, FollowUpWaited, FollowUpPosted, FollowUpFails
  <2>3. f \in UpType /\ f.message \in Messages /\ f.message \in Everyone
    BY Reached DEF ClientTypes, UpType, Everyone
  <2>4. DOMAIN budget' = {"sent", "left"} /\ budget'.sent \subseteq Messages
    BY <2>2, Reached, Spends
  <2>5. server' \in ServerType /\ server'.phase = server.phase
    <3>1. server' = server \/ server' = Accepted(f.message)
      BY <2>1 DEF FollowUpPrepared, FollowUpWaited, FollowUpPosted, FollowUpFails
    <3> QED
      BY <2>3, <3>1, Reached, DeliveryAccepted DEF IInv, Typed
  <2>6. ups' \subseteq UpType
    <3>1. \A pc \in {"prepare", "wait", "post"} : [f EXCEPT !.pc = pc] \in UpType
      BY <2>3 DEF UpType
    <3>2. [f EXCEPT !.n = turn.n] \in UpType
      BY <2>3, Reached DEF UpType, TurnType
    <3>3. \/ ups' = ups \ {f} \/ ups' = (ups \ {f}) \cup {[f EXCEPT !.n = turn.n]}
          \/ \E pc \in {"prepare", "wait", "post"} : ups' = (ups \ {f}) \cup {[f EXCEPT !.pc = pc]}
      BY <2>1 DEF FollowUpPrepared, FollowUpWaited, FollowUpPosted, FollowUpFails, Followed
    <3> QED
      BY <3>1, <3>2, <3>3, Reached DEF ClientTypes
  <2>7. CASE ~Active /\ FollowUpPrepared(f)
    <3>1. StartSend(f.message)
      BY <2>7 DEF FollowUpPrepared
    <3>2. /\ turn' \in TurnType /\ turn'.start = 0 /\ StoreTyped(store') /\ store'.events = store.events
          /\ ModeInv' /\ ~Stuck'
      BY <2>2, <2>3, <2>7, <3>1, Starts
    <3>3. ClientTypes'
      BY <2>2, <2>4, <2>6, <3>2, Reached DEF ClientTypes
    <3> QED
      BY <2>2, <2>5, <3>2, <3>3, Reached, NothingRead
  <2>8. CASE Active \/ ~FollowUpPrepared(f)
    <3>1. turn' = turn \/ \E n \in Nat : turn' = [turn EXCEPT !.accepted = n]
      <4>1. turn.accepted + 1 \in Nat /\ turn.accepted \in Nat
        BY Reached DEF TurnType
      <4>2. CASE FollowUpPosted(f)
        BY <4>1, <4>2 DEF FollowUpPosted
      <4>3. CASE ~FollowUpPosted(f)
        BY <2>1, <2>8, <4>3 DEF FollowUpPrepared, FollowUpWaited, FollowUpFails
      <4> QED
        BY <4>2, <4>3
    <3>2. /\ turn' \in TurnType /\ turn'.pc = turn.pc /\ turn'.message = turn.message /\ turn'.start = turn.start
      BY <3>1, Reached DEF TurnType
    <3>3. store' = store \/ \E p : store' = [store EXCEPT !.pending = p]
      <4>1. CASE FollowUpPrepared(f)
        BY <2>8, <4>1 DEF FollowUpPrepared
      <4>2. CASE ~FollowUpPrepared(f)
        BY <2>1, <4>2 DEF FollowUpWaited, FollowUpPosted, FollowUpFails, FailSubmission
      <4> QED
        BY <4>1, <4>2
    <3>4. StoreTyped(store') /\ store'.events = store.events /\ store'.status = store.status
      BY <3>3, Reached DEF StoreTyped
    <3>5. ModeInv' /\ (Stuck' => Stuck)
      BY <2>2, <3>2, <3>4 DEF IInv, ModeInv, Stuck, Active
    <3>6. ClientTypes'
      BY <2>2, <2>4, <2>6, <3>2, <3>4, Reached DEF ClientTypes
    <3> QED
      BY <2>2, <2>5, <3>2, <3>4, <3>5, <3>6, Reached, NothingRead
  <2> QED
    BY <2>7, <2>8
<1> QED
  BY <1>1, <1>2

\* A reader that was left behind writes a place that is behind what is known.
LEMMA StaleStopsI ==
  ASSUME IInv, NEW r \in stale, StaleStops(r)
  PROVE  IInv'
<1>1. /\ stale' = stale \ {r} /\ UNCHANGED <<log, server, store, turn, reader, ups, passed, forgot, budget>>
  BY DEF StaleStops
<1>2. r \in LeftType
  BY Reached DEF ClientTypes
<1>3. Covers(Known, cursor') /\ cursor' \in Nat
  <2>1. CASE r.mode = "none"
    BY <2>1, Reached DEF StaleStops
  <2>2. CASE r.mode # "none"
    <3>1. PICK n \in MayReach(r) : cursor' = CursorAfter(r, n)
      BY <2>2 DEF StaleStops
    <3>2. n \in Nat /\ n <= r.upto /\ r.upto \in Nat
      BY <1>2, <3>1 DEF MayReach, LeftType
    <3>3. Covers(Known, n)
      BY <2>2, <3>2, Reached DEF Reaches, Covers
    <3> QED
      BY <3>1, <3>2, <3>3, Reached DEF CursorAfter
  <2> QED
    BY <2>1, <2>2
<1>4. ClientTypes'
  BY <1>1, <1>3, Reached DEF ClientTypes
<1>5. ModeInv' /\ (Stuck' => Stuck)
  BY <1>1 DEF IInv, ModeInv, Stuck, Active
<1> QED
  BY <1>1, <1>3, <1>4, <1>5, Reached, NothingRead

\* The reader that is left behind may still count what its connection has read.
LEMMA LeftBehind ==
  ASSUME IInv, NEW K, Known \subseteq K, Covers(K, Len(log)) \/ ~reader.open
  PROVE  Left \in LeftType /\ Reaches(K, Left)
<1>1. /\ reader \in PlaceType /\ Len(log) \in Nat /\ Covers(K, reader.place)
  <2>1. log \in Seq(Event)
    BY DEF IInv, Typed, SessionTypes
  <2>2. Covers(K, reader.place)
    BY Reached DEF Covers
  <2> QED
    BY <2>1, <2>2, Reached
<1>2. PICK upto \in Nat : upto = (IF reader.open THEN Len(log) ELSE reader.place) /\ Covers(K, upto)
  BY <1>1 DEF PlaceType
<1>3. PICK gone \in BOOLEAN : gone = (Active /\ turn.message = None)
  OBVIOUS
<1>4. Left = [mode |-> reader.mode, place |-> reader.place, upto |-> upto, resume |-> gone]
  BY <1>2, <1>3 DEF Left
<1> QED
  BY <1>1, <1>2, <1>4 DEF LeftType, PlaceType, Reaches

\* resume: the reader it replaces is left behind, a new one starts.
LEMMA ResumeI ==
  ASSUME IInv, resume
  PROVE  IInv'
<1>1. /\ UNCHANGED <<log, server, cursor, ups, passed, forgot>> /\ Spend
      /\ stale' = Replaced /\ ~(Active /\ turn.message = None)
      /\ store.status \notin {"resuming", "streaming", "submitted"}
      /\ store' = [store EXCEPT !.error = FALSE, !.status = "resuming"]
  BY DEF resume, Resuming
<1>2. PICK tail \in Nat, auth \in BOOLEAN :
        turn' = [NewTurn("replay", None) EXCEPT !.responded = TRUE, !.tail = tail, !.auth = auth]
  <2>1. store.events \in Seq(Nat)
    BY Reached DEF StoreTyped
  <2>2. (IF hasCompleteInitialPrefix /\ store.events # <<>> THEN store.events[Len(store.events)] ELSE 0) \in Nat
    BY <2>1
  <2>3. (hasCompleteInitialPrefix /\ collectPendingAuthorizations(store.events)) \in BOOLEAN
    OBVIOUS
  <2> QED
    BY <2>2, <2>3 DEF resume
<1>3. turn' \in TurnType /\ turn'.pc = "replay" /\ turn'.message = None /\ turn'.start = 0
  <2>1. PICK t : t = NewTurn("replay", None)
    OBVIOUS
  <2>2. t \in TurnType /\ t.pc = "replay" /\ t.message = None /\ t.start = 0
    <3>1. "replay" \in TurnPcs /\ None \in Messages \cup {None} /\ ClientTypes
      BY Reached DEF TurnPcs
    <3> QED
      BY <2>1, <3>1, TurnsTyped
  <2>3. turn' = [t EXCEPT !.responded = TRUE, !.tail = tail, !.auth = auth]
    BY <1>2, <2>1
  <2> QED
    BY <2>2, <2>3 DEF TurnType
<1>4. reader' \in PlaceType /\ reader'.mode = "replay" /\ Covers(Known, reader'.place)
  <2>1. reader' \in {Reader("replay", cursor), Reader("replay", 0)} /\ "replay" \in Modes
    BY DEF resume, Modes
  <2> QED
    BY <2>1, Reached, ReadersTyped
<1>5. StoreTyped(store') /\ store'.events = store.events
  BY <1>1, Reached DEF StoreTyped, Statuses
<1>6. ModeInv' /\ ~Stuck'
  BY <1>3, <1>4 DEF ModeInv, ModeOf, Replays, Stuck
<1>7. Covers(Known, Len(log)) \/ ~reader.open
  <2> SUFFICES ASSUME reader.open PROVE Stuck
    BY DEF IInv, FailInv
  <2>1. reader.mode # "none"
    BY DEF IInv, ModeInv
  <2>2. Active
    BY <2>1, Reached DEF ModeOf, Active
  <2> QED
    BY <1>1, <2>2 DEF Stuck
<1>8. Left \in LeftType /\ Reaches(Known, Left)
  BY <1>7, LeftBehind
<1>9. stale' \subseteq LeftType /\ \A r \in stale' : Reaches(Known, r)
  BY <1>1, <1>8, Reached DEF Replaced, ClientTypes
<1>10. ClientTypes'
  <2>1. DOMAIN budget' = {"sent", "left"} /\ budget'.sent \subseteq Messages
    BY <1>1, Reached, Spends
  <2> QED
    BY <1>1, <1>3, <1>4, <1>5, <1>9, <2>1, Reached DEF ClientTypes
<1> QED
  BY <1>1, <1>3, <1>4, <1>5, <1>6, <1>9, <1>10, Reached, NothingRead

\* reset forgets what was on the stream, and leaves its reader to write its place
\* later.
LEMMA ResetI ==
  ASSUME IInv, NEW lost \in BOOLEAN, reset(lost)
  PROVE  IInv'
<1>1. /\ UNCHANGED <<log, cursor, ups, passed>> /\ Spend
      /\ stale' = Replaced /\ turn' = Over(None) /\ reader' = NoReader /\ forgot' = Len(log)
      /\ store' = [store EXCEPT !.status = "ready", !.error = FALSE, !.events = <<>>, !.pending = <<>>]
      /\ server' = server \/ (server' = Accepted(turn.message) /\ turn.pc = "post")
  BY DEF reset
<1>2. Len(log) \in Nat
  BY DEF IInv, Typed, SessionTypes
<1>3. turn' \in TurnType /\ turn'.pc = "none" /\ turn'.message = None /\ turn'.start = 0
  <2>1. "none" \in TurnPcs /\ None \in Messages \cup {None} /\ ClientTypes
    BY Reached DEF TurnPcs
  <2> QED
    BY <1>1, <2>1, TurnsTyped
<1>4. ModeInv' /\ ~Stuck' /\ reader' \in PlaceType /\ reader'.place = 0
  BY <1>1, <1>3, ModeOver, ReadersTyped
<1>5. StoreTyped(store') /\ store'.events = <<>>
  BY <1>1, Reached DEF StoreTyped, Statuses
<1>6. Shown(store)' = {}
  BY <1>5 DEF Shown
<1>7. Known' = passed \cup 1..Len(log)
  BY <1>1, <1>6 DEF Known
<1>8. Known \subseteq 1..Len(log)
  BY DEF IInv, Places
<1>9. Known \subseteq Known' /\ Known' \subseteq 1..Len(log) /\ Covers(Known', Len(log))
  BY <1>2, <1>7, <1>8 DEF Covers, Known
<1>10. Left \in LeftType /\ Reaches(Known', Left)
  BY <1>9, LeftBehind
<1>11. stale' \subseteq LeftType /\ \A r \in stale' : Reaches(Known', r)
  BY <1>1, <1>9, <1>10, Reached, CoversMore DEF Replaced, ClientTypes
<1>12. Places'
  BY <1>1, <1>3, <1>4, <1>9, <1>11, Reached, CoversMore DEF Places
<1>13. server' \in ServerType /\ server'.phase = server.phase
  <2>1. turn.pc = "post" => turn.message \in Everyone
    BY Reached DEF IInv, ModeInv, Everyone
  <2> QED
    BY <1>1, <2>1, Reached, DeliveryAccepted DEF IInv, Typed
<1>14. ClientTypes'
  <2>1. DOMAIN budget' = {"sent", "left"} /\ budget'.sent \subseteq Messages
    BY <1>1, Reached, Spends
  <2> QED
    BY <1>1, <1>2, <1>3, <1>4, <1>5, <1>11, <2>1, Reached DEF ClientTypes
<1>15. Typed' /\ EndInv' /\ FailInv'
  BY <1>1, <1>4, <1>13, <1>14 DEF IInv, Typed, SessionTypes, EndInv, Terminal, FailInv
<1> QED
  BY <1>4, <1>12, <1>15 DEF IInv

\* A step that reads the next event, which is then known.
LEMMA OneRead ==
  ASSUME IInv, NEW e, e = NextPlace(reader), e \in 1..Len(log), UNCHANGED <<log, server, forgot, ups, stale, budget>>,
         StoreTyped(store'), turn' \in TurnType, turn'.start \in {0, turn.start},
         Shown(store)' \cup passed' = Shown(store) \cup passed \cup {e},
         reader' \in PlaceType, reader'.place \in {0, e},
         cursor' \in {cursor, CursorAfter(reader, reader.place + 1)}, ModeInv',
         Stuck' => Stuck \/ Terminal(e)
  PROVE  IInv'
<1>1. reader.place \in Nat /\ e = reader.place + 1 /\ Len(log) \in Nat /\ e \in Nat
  BY Reached, ReadTyped DEF IInv, Typed, SessionTypes, PlaceType
<1>2. Known' = Known \cup {e}
  BY DEF Known
<1>3. Covers(Known', e)
  <2>1. 1..e \subseteq 1..reader.place \cup {e}
    BY <1>1
  <2> QED
    BY <1>1, <1>2, <2>1, Reached DEF Covers
<1>4. /\ \A n : Covers(Known, n) => Covers(Known', n)
      /\ \A r : Reaches(Known, r) => Reaches(Known', r)
  BY <1>2, CoversMore
<1>5. Covers(Known', cursor')
  BY <1>1, <1>3, <1>4, Reached DEF CursorAfter
<1>6. Places'
  <2>1. Known' \subseteq 1..Len(log)
    BY <1>2 DEF IInv, Places
  <2> QED
    BY <1>3, <1>4, <1>5, <2>1, Reached DEF Places
<1>7. ClientTypes'
  BY <1>5, Reached DEF ClientTypes, Covers
<1>8. Typed' /\ EndInv'
  BY <1>7 DEF IInv, Typed, SessionTypes, EndInv, Terminal
<1>9. FailInv'
  <2>1. CASE Stuck
    BY <1>4, <2>1 DEF IInv, FailInv
  <2>2. CASE Terminal(e)
    BY <1>3, <2>2 DEF IInv, EndInv, FailInv
  <2> QED
    BY <2>1, <2>2 DEF FailInv
<1> QED
  BY <1>6, <1>8, <1>9 DEF IInv

\* A read event is one of the log.
LEMMA NextEvent ==
  ASSUME IInv, NEW mode, Reads(mode)
  PROVE  NextPlace(reader) \in 1..Len(log) /\ NextPlace(reader) \in Nat
<1>1. /\ reader.place \in Nat /\ NextPlace(reader) = reader.place + 1 /\ Len(log) \in Nat
  BY Reached, ReadTyped DEF IInv, Typed, SessionTypes, PlaceType
<1> QED
  BY <1>1 DEF Reads, AtEnd

\* What an event's type makes of the store's status.
LEMMA StatusAfter ==
  ASSUME IInv, NEW e \in Nat, store' = acceptServerEvent(store, e, "streaming"),
         Active, turn'.message = turn.message
  PROVE  /\ StoreTyped(store') /\ Shown(store)' = Shown(store) \cup {e}
         /\ Stuck' => Stuck \/ Terminal(e)
<1>1. PICK s : s = acceptServerEvent(store, e, "streaming")
  OBVIOUS
<1>2. /\ StoreTyped(s) /\ Shown(s) = Shown(store) \cup {e}
      /\ s.status \in {store.status, IF log[e].type = "failed" THEN "error" ELSE "streaming"}
  <2>1. StoreTyped(store) /\ "streaming" \in Statuses
    BY Reached DEF Statuses
  <2> QED
    BY <1>1, <2>1, EventShown
<1>3. Shown(store)' = Shown(s)
  BY <1>1 DEF Shown
<1>4. Stuck' => Stuck \/ Terminal(e)
  BY <1>1, <1>2 DEF Stuck, Terminal
<1> QED
  BY <1>1, <1>2, <1>3, <1>4

\* The reader of a send takes its next event.
LEMMA ReadResponseI ==
  ASSUME IInv, ReadResponse
  PROVE  IInv'
<1>1. PICK e : e = NextPlace(reader)
  OBVIOUS
<1>2. /\ turn.pc = "response" /\ Reads("response") /\ UNCHANGED <<log, server, forgot, ups, stale, budget>>
  BY DEF ReadResponse
<1>3. e \in 1..Len(log) /\ e \in Nat
  BY <1>1, <1>2, NextEvent
<1>4. /\ Active /\ turn.message # None /\ reader.mode = "response" /\ reader.open
      /\ Read \in PlaceType /\ Read.mode = "response" /\ Read.place = e
  BY <1>1, <1>2, Reached, ReadTyped DEF Active, IInv, ModeInv, Reads
<1>5. PICK auth \in BOOLEAN : auth = updatePendingAuthorizations(turn.auth, e)
  BY Reached DEF updatePendingAuthorizations, TurnType
<1>6. CASE EndedBefore(e)
  <2>1. /\ TurnFails(store) /\ reader' = NoReader /\ passed' = passed \cup {e}
        /\ cursor' = CursorAfter(reader, reader.place + 1)
    BY <1>1, <1>6 DEF ReadResponse
  <2>2. /\ StoreTyped(store') /\ store'.events = store.events
        /\ turn' \in TurnType /\ turn'.pc = "none" /\ turn'.start = 0
    BY <2>1, Reached, TurnsEnd
  <2>3. ModeInv' /\ ~Stuck' /\ reader' \in PlaceType /\ reader'.place = 0
    BY <2>1, <2>2, ModeOver, ReadersTyped
  <2>4. Shown(store)' = Shown(store)
    BY <2>2 DEF Shown
  <2> QED
    BY <1>1, <1>2, <1>3, <2>1, <2>2, <2>3, <2>4, OneRead
<1>7. CASE ~EndedBefore(e) /\ PassesOver(e)
  <2>1. /\ reader' = Read /\ passed' = passed \cup {e} /\ UNCHANGED <<cursor, store, turn>>
    BY <1>1, <1>7 DEF ReadResponse
  <2>2. Shown(store)' = Shown(store)
    BY <2>1 DEF Shown
  <2>3. ModeInv' /\ (Stuck' => Stuck)
    BY <1>4, <2>1 DEF IInv, ModeInv, Stuck, Active
  <2> QED
    BY <1>1, <1>2, <1>3, <1>4, <2>1, <2>2, <2>3, Reached, OneRead
<1>8. CASE ~EndedBefore(e) /\ ~PassesOver(e)
  <2>1. store' = acceptServerEvent(store, e, "streaming") /\ passed' = passed
    BY <1>1, <1>8 DEF ReadResponse
  <2>2. \/ /\ reader' = NoReader /\ cursor' = CursorAfter(reader, reader.place + 1)
           /\ turn' = [turn EXCEPT !.pc = "settle", !.auth = FALSE]
        \/ /\ reader' = [Read EXCEPT !.started = TRUE] /\ cursor' = cursor
           /\ turn' = [turn EXCEPT !.auth = auth]
    BY <1>1, <1>5, <1>8 DEF ReadResponse
  <2>3. /\ turn' \in TurnType /\ turn'.message = turn.message /\ turn'.start = turn.start
        /\ \/ turn'.pc = "settle" /\ reader' = NoReader
           \/ turn'.pc = turn.pc /\ reader' = [Read EXCEPT !.started = TRUE]
    BY <2>2, Reached DEF TurnType, TurnPcs
  <2>4. reader' \in PlaceType /\ reader'.place \in {0, e}
        /\ (turn'.pc = "settle" => reader'.mode = "none" /\ ~reader'.open)
        /\ (turn'.pc # "settle" => reader'.mode = "response" /\ turn'.pc = "response")
    BY <1>2, <1>4, <2>3, ReadersTyped DEF PlaceType
  <2>5. ModeInv'
    BY <1>2, <1>4, <2>3, <2>4 DEF ModeInv, ModeOf, Replays
  <2>6. StoreTyped(store') /\ Shown(store)' = Shown(store) \cup {e} /\ (Stuck' => Stuck \/ Terminal(e))
    BY <1>3, <1>4, <2>1, <2>3, StatusAfter
  <2> QED
    BY <1>1, <1>2, <1>3, <2>1, <2>2, <2>3, <2>4, <2>5, <2>6, OneRead
<1> QED
  BY <1>6, <1>7, <1>8

\* The other readers take their next event.
LEMMA ReadOthersI ==
  ASSUME IInv, ReadReplay \/ ReadSteered
  PROVE  IInv'
<1>1. PICK e : e = NextPlace(reader)
  OBVIOUS
<1>2. UNCHANGED <<log, server, forgot, ups, stale, budget, passed>>
  BY DEF ReadReplay, ReadSteered
<1>3. \E mode \in {"replay", "probe", "live", "steered"} : Reads(mode)
  BY DEF ReadReplay, ReadSteered
<1>4. e \in 1..Len(log) /\ e \in Nat
  BY <1>1, <1>3, NextEvent
<1>5. /\ Active /\ reader.open /\ reader.mode \in {"replay", "probe", "live", "steered"}
      /\ Read \in PlaceType /\ Read.mode = reader.mode /\ Read.place = e
  BY <1>1, <1>3, Reached, ReadTyped DEF Active, Reads, ModeOf
<1>6. CASE ReadReplay
  <2>1. turn.message = None /\ turn.pc = reader.mode /\ turn.pc \in {"replay", "probe", "live"}
    <3>1. reader.mode \in {"replay", "probe", "live"}
      BY <1>6 DEF ReadReplay, Reads
    <3>2. turn.pc = reader.mode
      BY <3>1, Reached DEF ModeOf
    <3> QED
      BY <3>1, <3>2 DEF IInv, ModeInv, Replays
  <2>2. PICK auth \in BOOLEAN : auth = updatePendingAuthorizations(turn.auth, e)
    BY Reached DEF updatePendingAuthorizations, TurnType
  <2>3. AfterRead \in {"replayed", "probed", "settle"}
    BY DEF AfterRead
  <2>4. PICK pc \in {"replayed", "probed", "settle", turn.pc} :
          /\ turn' = [turn EXCEPT !.tail = e, !.auth = auth, !.pc = pc]
          /\ \/ reader' = NoReader /\ pc # turn.pc /\ cursor' = CursorAfter(reader, reader.place + 1)
             \/ reader' = Read /\ pc = turn.pc /\ cursor' = cursor
    BY <1>1, <1>6, <2>1, <2>2, <2>3 DEF ReadReplay
  <2>5. turn' \in TurnType /\ turn'.message = None /\ turn'.start = turn.start /\ turn'.pc = pc
    BY <1>4, <2>1, <2>4, Reached DEF TurnType, TurnPcs
  <2>6. /\ reader' \in PlaceType /\ reader'.place \in {0, e} /\ reader'.mode = ModeOf(pc)
        /\ (reader'.mode = "none" => ~reader'.open)
    BY <1>5, <2>1, <2>4, ReadersTyped DEF ModeOf
  <2>7. ModeInv' /\ ~Stuck'
    BY <2>1, <2>4, <2>5, <2>6 DEF ModeInv, Stuck
  <2>8. StoreTyped(store') /\ Shown(store)' = Shown(store) \cup {e}
    <3>1. PICK status \in Statuses : store' = acceptServerEvent(store, e, status)
      BY <1>1, <1>6, Reached DEF ReadReplay, Statuses, StoreTyped
    <3>2. StoreTyped(store') /\ Shown(store') = Shown(store) \cup {e}
      BY <1>4, <3>1, Reached, EventShown
    <3> QED
      BY <3>2 DEF Shown
  <2> QED
    BY <1>1, <1>2, <1>4, <2>4, <2>5, <2>6, <2>7, <2>8, OneRead
<1>7. CASE ReadSteered
  <2>1. turn.pc = "steered" /\ reader' = Read /\ Read.mode = "steered" /\ cursor' = cursor
    BY <1>5, <1>7 DEF ReadSteered, Reads
  <2>2. PICK n \in Nat, pc \in {"pause", "steered"} : turn' = [turn EXCEPT !.received = n, !.pc = pc]
    <3>1. (IF log[e].type = "received" THEN turn.received + 1 ELSE turn.received) \in Nat
      BY Reached DEF TurnType
    <3>2. (IF isCurrentTurnBoundaryEvent(e) THEN "pause" ELSE turn.pc) \in {"pause", "steered"}
      BY <2>1
    <3> QED
      BY <1>1, <1>7, <3>1, <3>2 DEF ReadSteered
  <2>3. turn' \in TurnType /\ turn'.message = turn.message /\ turn'.start = turn.start /\ turn'.pc = pc
    BY <2>2, Reached DEF TurnType, TurnPcs
  <2>4. ModeInv'
    BY <1>5, <2>1, <2>3 DEF ModeInv, ModeOf, Replays
  <2>5. StoreTyped(store') /\ Shown(store)' = Shown(store) \cup {e} /\ (Stuck' => Stuck \/ Terminal(e))
    BY <1>1, <1>4, <1>5, <1>7, <2>3, StatusAfter DEF ReadSteered
  <2> QED
    BY <1>1, <1>2, <1>4, <1>5, <2>1, <2>3, <2>4, <2>5, OneRead
<1> QED
  BY <1>6, <1>7

\* Every step preserves the invariant.
LEMMA NextIInv == IInv /\ [Next]_vars => IInv'
<1> SUFFICES ASSUME IInv, [Next]_vars PROVE IInv'
  OBVIOUS
<1>1. CASE UNCHANGED vars
  <2>1. UNCHANGED <<log, server, cursor, store, turn, reader, ups, stale, passed, forgot, budget>>
    BY <1>1 DEF vars
  <2>2. ClientTypes' /\ ModeInv' /\ (Stuck' => Stuck)
    BY <2>1, Reached DEF ClientTypes, IInv, ModeInv, Stuck, Active
  <2> QED
    BY <2>1, <2>2, Reached, NothingRead
<1>2. CASE ServerNext
  BY <1>2, SessionStepsI
<1>3. CASE ClientNext
  <2>1. CASE Connect \/ ConnectFails \/ Cut \/ Idle
    BY <2>1, ConnectionStepsI
  <2>2. CASE ReadResponse \/ ReadReplay \/ ReadSteered
    BY <2>2, ReadResponseI, ReadOthersI
  <2>3. CASE TurnProgress \/ SendFails(TRUE)
    BY <2>3, TurnStepsI DEF TurnProgress
  <2>4. CASE UpProgress \/ \E f \in ups : FollowUpFails(f, TRUE)
    BY <2>4, FollowUpStepsI DEF UpProgress
  <2>5. CASE \E r \in stale : StaleStops(r)
    BY <2>5, StaleStopsI
  <2> QED
    BY <1>3, <2>1, <2>2, <2>3, <2>4, <2>5 DEF ClientNext, ReaderProgress
<1>4. CASE UserNext
  <2>1. CASE \E d \in Messages : send(d)
    BY <2>1, TurnStepsI
  <2>2. CASE \E d \in Messages : sendFollowUp(d)
    BY <2>2, FollowUpStepsI
  <2>3. CASE resume \/ \E lost \in BOOLEAN : reset(lost)
    BY <2>3, ResumeI, ResetI
  <2> QED
    BY <1>4, <2>1, <2>2, <2>3 DEF UserNext
<1> QED
  BY <1>1, <1>2, <1>3, <1>4 DEF Next

\* The invariant holds of every reachable client: the cursor, the place a post
\* began at, the reader's place, and every place a reader that reset or resume
\* replaced may still write, are behind what was applied, passed over or
\* forgotten by reset; a send whose session has failed has read the whole stream.
THEOREM PlacesCovered == Spec => []IInv
<1>1. Init => IInv
  BY InitIInv
<1>2. IInv /\ [Next]_vars => IInv'
  BY NextIInv
<1> QED
  BY <1>1, <1>2, PTL DEF Spec

\* Reopening a stream, resuming, and the late cursor writes of turns that were
\* replaced lose no event of what came after the last reset: what is behind the
\* cursor was applied or passed over.
THEOREM NoGap == Spec => []CursorHasNoGap
<1>1. IInv => CursorHasNoGap
  <2> SUFFICES ASSUME IInv, NEW e \in 1..cursor PROVE e \in Shown(store) \cup passed \/ e <= forgot
    BY DEF CursorHasNoGap
  <2>1. e \in Known
    BY DEF IInv, Places, Covers
  <2>2. e \in 1..forgot => e <= forgot
    BY DEF IInv, Typed, ClientTypes
  <2> QED
    BY <2>1, <2>2 DEF Known
<1> QED
  BY <1>1, PlacesCovered, PTL
-----------------------------------------------------------------------------
(* A send that ended well has shown its message's whole turn.  What is said *)
(* of a stream l up to its place p, of a delivery x: that it has events,    *)
(* that a boundary closed its turn, that an authorization was asked for in  *)
(* it and is still open.                                                    *)

Logged(l, x, p) == \E e \in 1..p : x \in l[e].of
Closes(l, e) == l[e].type = "waiting" /\ ~(e > 1 /\ l[e - 1].type = "authRequired")
Closed(l, x, p) == \E e \in 1..p : x \in l[e].of /\ Closes(l, e)
Asked(l, x, p) ==
  \E g \in 1..p : /\ x \in l[g].of /\ l[g].type = "authRequired"
                  /\ \A h \in (g + 1)..p : l[h].type = "authCompleted" => x \notin l[h].of

\* An event names its deliveries, or those of the turn before, which has events
\* already; a closed turn has no more events; a boundary leaves a turn closed or
\* asked; a superseded authorization is asked for again at once.
Names(l, x, mis, p) ==
  /\ x \in l[p].ids => Logged(l, x, p)
  /\ x \in l[p].of => /\ x \notin mis => x \in l[p].ids \/ l[p].ids = {}
                      /\ x \notin l[p].ids => Logged(l, x, p - 1)
Goes(l, x, p) ==
  /\ Closed(l, x, p - 1) => x \notin l[p].of
  /\ l[p].type = "waiting" /\ Logged(l, x, p) => Asked(l, x, p) \/ Closed(l, x, p)
  /\ l[p].type = "authCompleted" /\ Asked(l, x, p) /\ p < Len(l) =>
       l[p + 1].type = "authRequired" /\ l[p + 1].ids = l[p].ids
History(l, mis) == \A p \in 1..Len(l), x \in Everyone : Names(l, x, mis, p) /\ Goes(l, x, p)

\* What the session still does with a delivery: it names it, runs its turn, or
\* waits for its authorization.
Running(x) == server.phase = "running" /\ x \in server.turn
NowOf(x) ==
  /\ x \in server.ids \cup server.waits \/ Running(x) => Logged(log, x, Len(log))
  /\ Running(x) => /\ x \notin server.waits
                   /\ x \notin server.misnamed => x \in server.ids \/ server.ids = {}
  /\ Closed(log, x, Len(log)) => x \notin server.waits /\ ~Running(x)
  /\ Asked(log, x, Len(log)) /\ server.phase # "over" => x \in server.waits
  /\ Logged(log, x, Len(log)) /\ server.phase # "over" =>
       Asked(log, x, Len(log)) \/ Closed(log, x, Len(log)) \/ Running(x)
Now ==
  /\ \A x \in Everyone : NowOf(x)
  /\ server.phase # "over" /\ Len(log) > 0 =>
       /\ log[Len(log)].type # "authRequired"
       /\ log[Len(log)].type = "authCompleted" => server.waits = {}

Queued(x) == \E i \in 1..Len(server.queue) : server.queue[i] = x
QueueInv ==
  /\ \A i, j \in 1..Len(server.queue) : server.queue[i] = server.queue[j] => i = j
  /\ \A x \in Everyone : Queued(x) => ~Logged(log, x, Len(log))

\* What is not posted yet is nowhere in the session, and is posted once.
Unposted(d) == d \in Messages /\ ~Queued(d) /\ ~Logged(log, d, Len(log))
Sending == turn.pc \in {"prepare", "post"}
FreshInv ==
  /\ \A d \in Messages \ budget.sent : Unposted(d)
  /\ Sending => Unposted(turn.message) /\ turn.message \in budget.sent
  /\ \A f \in ups : Unposted(f.message) /\ f.message \in budget.sent
  /\ \A f, g \in ups : f.message = g.message => f = g
  /\ Sending => \A f \in ups : f.message # turn.message

\* The reader of a send has shown what it has passed of its message's turn, and
\* knows whether an authorization is open.
ReadTo(m, P) ==
  /\ Logged(log, m, P) <=> reader.started
  /\ m \notin server.misnamed =>
       /\ \A e \in 1..P : m \in log[e].of => e \in Shown(store)
       /\ Asked(log, m, P) =>
            turn.auth \/ (log[P].type = "authCompleted" /\ (m \in log[P].ids \/ log[P].ids = {}))
ReadInv == turn.pc = "response" => reader.place <= Len(log) /\ ReadTo(turn.message, reader.place)
Done(m) ==
  /\ Logged(log, m, Len(log))
  /\ m \notin server.misnamed =>
       /\ server.phase = "over" \/ Closed(log, m, Len(log))
       /\ \A e \in 1..Len(log) : m \in log[e].of => e \in Shown(store)
DoneInv == turn.message # None /\ turn.pc \in {"settle", "steered", "pause", "none"} => Done(turn.message)

AInv == IInv /\ History(log, server.misnamed) /\ Now /\ QueueInv /\ FreshInv /\ ReadInv /\ DoneInv

-----------------------------------------------------------------------------
(* Streams.                                                                 *)

\* What the next event makes of what is said of a delivery.
LEMMA OneMore ==
  ASSUME NEW l, NEW x, NEW p \in Nat
  PROVE  /\ Logged(l, x, p + 1) <=> Logged(l, x, p) \/ x \in l[p + 1].of
         /\ Closed(l, x, p + 1) <=> Closed(l, x, p) \/ (x \in l[p + 1].of /\ Closes(l, p + 1))
         /\ Asked(l, x, p + 1) <=>
              \/ x \in l[p + 1].of /\ l[p + 1].type = "authRequired"
              \/ Asked(l, x, p) /\ ~(l[p + 1].type = "authCompleted" /\ x \in l[p + 1].of)
<1>1. \A e : e \in 1..(p + 1) <=> e \in 1..p \/ e = p + 1
  OBVIOUS
<1>2. Logged(l, x, p + 1) <=> Logged(l, x, p) \/ x \in l[p + 1].of
  BY <1>1 DEF Logged
<1>3. Closed(l, x, p + 1) <=> Closed(l, x, p) \/ (x \in l[p + 1].of /\ Closes(l, p + 1))
  BY <1>1 DEF Closed
<1>4. \A g \in 1..p : \A h : h \in (g + 1)..(p + 1) <=> h \in (g + 1)..p \/ h = p + 1
  OBVIOUS
<1>5. (p + 1 + 1)..(p + 1) = {}
  OBVIOUS
<1>6. Asked(l, x, p + 1) =>
        \/ x \in l[p + 1].of /\ l[p + 1].type = "authRequired"
        \/ Asked(l, x, p) /\ ~(l[p + 1].type = "authCompleted" /\ x \in l[p + 1].of)
  BY <1>1, <1>4 DEF Asked
<1>7. Asked(l, x, p) /\ ~(l[p + 1].type = "authCompleted" /\ x \in l[p + 1].of) => Asked(l, x, p + 1)
  BY <1>1, <1>4 DEF Asked
<1>8. x \in l[p + 1].of /\ l[p + 1].type = "authRequired" => Asked(l, x, p + 1)
  BY <1>1, <1>5 DEF Asked
<1> QED
  BY <1>2, <1>3, <1>6, <1>7, <1>8

\* A stream that has grown says the same of the places it had.
LEMMA Extended ==
  ASSUME NEW l \in Seq(Event), NEW k \in Seq(Event), Len(l) <= Len(k),
         \A e \in 1..Len(l) : k[e] = l[e], NEW x, NEW p \in 0..Len(l)
  PROVE  /\ Logged(k, x, p) <=> Logged(l, x, p)
         /\ Closed(k, x, p) <=> Closed(l, x, p)
         /\ Asked(k, x, p) <=> Asked(l, x, p)
<1>1. p \in Nat /\ Len(l) \in Nat /\ \A e \in 1..p : e \in 1..Len(l) /\ k[e] = l[e]
  OBVIOUS
<1>2. \A e \in 1..p : Closes(k, e) <=> Closes(l, e)
  <2> SUFFICES ASSUME NEW e \in 1..p PROVE Closes(k, e) <=> Closes(l, e)
    OBVIOUS
  <2>1. e > 1 => e - 1 \in 1..p
    BY <1>1
  <2> QED
    BY <1>1, <2>1 DEF Closes
<1>3. \A g \in 1..p : \A h \in (g + 1)..p : h \in 1..p
  BY <1>1
<1>4. Asked(k, x, p) <=> Asked(l, x, p)
  <2>1. ASSUME NEW g \in 1..p
        PROVE  /\ x \in k[g].of /\ k[g].type = "authRequired" <=> x \in l[g].of /\ l[g].type = "authRequired"
               /\ (\A h \in (g + 1)..p : k[h].type = "authCompleted" => x \notin k[h].of) <=>
                  (\A h \in (g + 1)..p : l[h].type = "authCompleted" => x \notin l[h].of)
    <3>1. \A h \in (g + 1)..p : k[h] = l[h]
      BY <1>1, <1>3
    <3> QED
      BY <1>1, <3>1
  <2> QED
    BY <2>1 DEF Asked
<1> QED
  BY <1>1, <1>2, <1>4 DEF Logged, Closed

\* What was said of a delivery stays so but for a completed authorization.
LEMMA HistoryGrows ==
  ASSUME NEW l \in Seq(Event), NEW k \in Seq(Event), Len(l) <= Len(k),
         \A e \in 1..Len(l) : k[e] = l[e], NEW mis, NEW now, mis \subseteq now, History(l, mis),
         \A p \in (Len(l) + 1)..Len(k), x \in Everyone : Names(k, x, now, p) /\ Goes(k, x, p),
         \A x \in Everyone :
           Len(l) > 0 /\ Len(k) > Len(l) /\ l[Len(l)].type = "authCompleted" /\ Asked(l, x, Len(l)) =>
             k[Len(l) + 1].type = "authRequired" /\ k[Len(l) + 1].ids = l[Len(l)].ids
  PROVE  History(k, now)
<1> SUFFICES ASSUME NEW p \in 1..Len(k), NEW x \in Everyone PROVE Names(k, x, now, p) /\ Goes(k, x, p)
  BY DEF History
<1>1. Len(l) \in Nat /\ Len(k) \in Nat /\ p \in Nat
  OBVIOUS
<1>2. CASE p \in 1..Len(l)
  <2>1. Names(l, x, mis, p) /\ Goes(l, x, p) /\ k[p] = l[p]
    BY <1>2 DEF History
  <2>2. p \in 0..Len(l) /\ p - 1 \in 0..Len(l)
    BY <1>1, <1>2
  <2>3. /\ Logged(k, x, p) <=> Logged(l, x, p)
        /\ Closed(k, x, p) <=> Closed(l, x, p)
        /\ Asked(k, x, p) <=> Asked(l, x, p)
    BY <2>2, Extended
  <2>4. /\ Logged(k, x, p - 1) <=> Logged(l, x, p - 1)
        /\ Closed(k, x, p - 1) <=> Closed(l, x, p - 1)
    BY <2>2, Extended
  <2>5. Names(k, x, now, p)
    BY <2>1, <2>3, <2>4 DEF Names
  <2>6. k[p].type = "authCompleted" /\ Asked(k, x, p) /\ p < Len(k) =>
          k[p + 1].type = "authRequired" /\ k[p + 1].ids = k[p].ids
    <3>1. CASE p = Len(l)
      BY <1>1, <1>2, <2>1, <2>3, <3>1
    <3>2. CASE p < Len(l)
      <4>1. p + 1 \in 1..Len(l) /\ k[p + 1] = l[p + 1]
        BY <1>1, <1>2, <3>2
      <4> QED
        BY <2>1, <2>3, <3>2, <4>1 DEF Goes
    <3> QED
      BY <1>1, <1>2, <3>1, <3>2
  <2> QED
    BY <2>1, <2>3, <2>4, <2>5, <2>6 DEF Goes
<1>3. CASE p > Len(l)
  BY <1>1, <1>3
<1> QED
  BY <1>1, <1>2, <1>3

-----------------------------------------------------------------------------
(* What the session writes.                                                 *)

\* What the session does leaves the client's invariants: messages not posted
\* stay so, and what is over is not continued.
LEMMA SessionGoes ==
  ASSUME AInv, IInv', UNCHANGED client, budget'.sent = budget.sent, server.phase # "over",
         Len(log) <= Len(log'), \A e \in 1..Len(log) : log'[e] = log[e],
         History(log', server'.misnamed), Now', QueueInv', server.misnamed \subseteq server'.misnamed,
         \A x \in Messages : Queued(x)' => Queued(x),
         \A x \in Messages : Logged(log', x, Len(log')) => Logged(log, x, Len(log)) \/ Queued(x)
  PROVE  AInv'
<1>1. UNCHANGED <<turn, reader, store, ups>>
  BY DEF client
<1>2. log \in Seq(Event) /\ log' \in Seq(Event) /\ Len(log) \in Nat /\ Len(log') \in Nat
  BY DEF AInv, IInv, Typed, SessionTypes
<1>3. \A d : Unposted(d) => Unposted(d)'
  BY DEF Unposted
<1>4. FreshInv'
  BY <1>1, <1>3 DEF AInv, FreshInv, Sending
<1>5. ReadInv'
  <2> SUFFICES ASSUME turn.pc = "response"
               PROVE  (reader.place <= Len(log) /\ ReadTo(turn.message, reader.place))'
    BY <1>1 DEF ReadInv
  <2>1. reader.place <= Len(log) /\ ReadTo(turn.message, reader.place) /\ reader.place \in Nat
    BY DEF AInv, ReadInv, IInv, Typed, ClientTypes, PlaceType
  <2>2. /\ Logged(log', turn.message, reader.place) <=> Logged(log, turn.message, reader.place)
        /\ Asked(log', turn.message, reader.place) <=> Asked(log, turn.message, reader.place)
    BY <1>2, <2>1, Extended
  <2>3. \A e \in 1..reader.place : log'[e] = log[e]
    BY <1>2, <2>1
  <2>4. Asked(log, turn.message, reader.place) => reader.place \in 1..reader.place
    BY <2>1 DEF Asked
  <2> QED
    BY <1>1, <1>2, <2>1, <2>2, <2>3, <2>4 DEF ReadTo, Shown
<1>6. DoneInv'
  <2> SUFFICES ASSUME turn.message # None, turn.pc \in {"settle", "steered", "pause", "none"}
               PROVE  Done(turn.message)'
    BY <1>1 DEF DoneInv
  <2> DEFINE m == turn.message
  <2>1. Done(m) /\ m \in Everyone
    BY DEF AInv, DoneInv, IInv, Typed, ClientTypes, TurnType, Everyone
  <2>2. Logged(log', m, Len(log')) /\ (Closed(log, m, Len(log)) => Closed(log', m, Len(log)))
    <3>1. Logged(log', m, Len(log)) /\ (Closed(log, m, Len(log)) => Closed(log', m, Len(log)))
      BY <1>2, <2>1, Extended DEF Done
    <3> QED
      BY <1>2, <3>1 DEF Logged
  <2>3. m \notin server'.misnamed => Closed(log', m, Len(log))
    BY <2>1, <2>2 DEF Done
  <2>4. \A p \in Len(log)..Len(log') : m \notin server'.misnamed => Closed(log', m, p)
    BY <1>2, <2>3 DEF Closed
  <2>5. ASSUME m \notin server'.misnamed, NEW e \in 1..Len(log'), m \in log'[e].of PROVE e \in Shown(store)
    <3>1. e > Len(log) => e - 1 \in Len(log)..Len(log')
      BY <1>2
    <3>2. ~(e > Len(log))
      BY <2>1, <2>4, <2>5, <3>1 DEF History, Goes
    <3> QED
      BY <1>2, <2>1, <2>5, <3>2 DEF Done
  <2>6. Len(log') \in Len(log)..Len(log')
    BY <1>2
  <2> QED
    BY <1>1, <2>2, <2>4, <2>5, <2>6 DEF Done, Shown
<1> QED
  BY <1>4, <1>5, <1>6 DEF AInv

\* Nobody whose authorization is open is left when it has completed.
LEMMA AtRest ==
  ASSUME AInv, server.phase # "over"
  PROVE  /\ Len(log) > 0 => log[Len(log)].type # "authRequired"
         /\ \A x \in Everyone : Len(log) > 0 /\ log[Len(log)].type = "authCompleted" => ~Asked(log, x, Len(log))
BY DEF AInv, Now, NowOf

\* One event more.
LEMMA OneEvent ==
  ASSUME AInv, server' \in ServerType, server.phase # "over", NEW a \in EventKinds, Emit(<<a>>)
  PROVE  /\ Len(log) \in Nat /\ Len(log') = Len(log) + 1 /\ log \in Seq(Event) /\ log' \in Seq(Event)
         /\ \A e \in 1..Len(log) : log'[e] = log[e]
         /\ log'[Len(log')] = [type |-> a, id |-> TRUE, ids |-> server'.ids, of |-> server'.turn]
         /\ \A x :
              /\ Logged(log', x, Len(log')) <=> Logged(log, x, Len(log)) \/ x \in server'.turn
              /\ Closed(log', x, Len(log')) <=> Closed(log, x, Len(log)) \/ (x \in server'.turn /\ a = "waiting")
              /\ Asked(log', x, Len(log')) <=>
                   \/ x \in server'.turn /\ a = "authRequired"
                   \/ Asked(log, x, Len(log)) /\ ~(a = "authCompleted" /\ x \in server'.turn)
<1>1. SessionTypes /\ <<a>> \in Seq(EventKinds) /\ Len(<<a>>) = 1 /\ <<a>>[1] = a /\ 1 \in 1..1
  BY DEF AInv, IInv, Typed
<1>2. /\ Len(log) \in Nat /\ Len(log') = Len(log) + 1 /\ log \in Seq(Event) /\ log' \in Seq(Event)
      /\ \A e \in 1..Len(log) : log'[e] = log[e]
      /\ log'[Len(log) + 1] = [type |-> a, id |-> TRUE, ids |-> server'.ids, of |-> server'.turn]
  BY <1>1, Emits DEF SessionTypes
<1>3. Closes(log', Len(log) + 1) <=> a = "waiting"
  <2>1. Len(log) + 1 > 1 => Len(log) > 0 /\ log'[Len(log) + 1 - 1] = log[Len(log)]
    BY <1>2
  <2> QED
    BY <1>2, <2>1, AtRest DEF Closes
<1>4. ASSUME NEW x
      PROVE  /\ Logged(log', x, Len(log')) <=> Logged(log, x, Len(log)) \/ x \in server'.turn
             /\ Closed(log', x, Len(log')) <=> Closed(log, x, Len(log)) \/ (x \in server'.turn /\ a = "waiting")
             /\ Asked(log', x, Len(log')) <=>
                  \/ x \in server'.turn /\ a = "authRequired"
                  \/ Asked(log, x, Len(log)) /\ ~(a = "authCompleted" /\ x \in server'.turn)
  <2>1. /\ Logged(log', x, Len(log)) <=> Logged(log, x, Len(log))
        /\ Closed(log', x, Len(log)) <=> Closed(log, x, Len(log))
        /\ Asked(log', x, Len(log)) <=> Asked(log, x, Len(log))
    BY <1>2, Extended
  <2> QED
    BY <1>2, <1>3, <2>1, OneMore
<1> QED
  BY <1>2, <1>4

\* An event that names deliveries of before or its own, and whose turn is not
\* closed yet, keeps the history.
LEMMA OneEventGoes ==
  ASSUME AInv, server' \in ServerType, server.phase # "over", NEW a \in EventKinds, Emit(<<a>>),
         server.misnamed \subseteq server'.misnamed,
         \A x \in Everyone :
           /\ x \in server'.ids => Logged(log, x, Len(log)) \/ x \in server'.turn
           /\ x \in server'.turn =>
                /\ x \notin server'.misnamed => x \in server'.ids \/ server'.ids = {}
                /\ x \notin server'.ids => Logged(log, x, Len(log))
                /\ ~Closed(log, x, Len(log))
           /\ a = "waiting" /\ Logged(log, x, Len(log)) =>
                Asked(log, x, Len(log)) \/ Closed(log, x, Len(log)) \/ x \in server'.turn
  PROVE  History(log', server'.misnamed)
<1> DEFINE L == Len(log)
<1>1. /\ L \in Nat /\ Len(log') = L + 1 /\ log \in Seq(Event) /\ log' \in Seq(Event)
      /\ \A e \in 1..L : log'[e] = log[e]
      /\ log'[L + 1] = [type |-> a, id |-> TRUE, ids |-> server'.ids, of |-> server'.turn]
  BY OneEvent
<1>2. ASSUME NEW x \in Everyone PROVE Names(log', x, server'.misnamed, L + 1) /\ Goes(log', x, L + 1)
  <2>1. /\ Logged(log', x, L) <=> Logged(log, x, L)
        /\ Closed(log', x, L) <=> Closed(log, x, L)
    BY <1>1, Extended
  <2>2. /\ Logged(log', x, L + 1) <=> Logged(log, x, L) \/ x \in server'.turn
        /\ Closed(log', x, L + 1) <=> Closed(log, x, L) \/ (x \in server'.turn /\ a = "waiting")
        /\ Asked(log', x, L + 1) <=>
             \/ x \in server'.turn /\ a = "authRequired"
             \/ Asked(log, x, L) /\ ~(a = "authCompleted" /\ x \in server'.turn)
    BY <1>1, OneEvent
  <2>3. L + 1 - 1 = L /\ ~(L + 1 < Len(log'))
    BY <1>1
  <2>4. Names(log', x, server'.misnamed, L + 1)
    BY <1>1, <2>1, <2>2, <2>3 DEF Names
  <2>5. Goes(log', x, L + 1)
    BY <1>1, <2>1, <2>2, <2>3 DEF Goes
  <2> QED
    BY <2>4, <2>5
<1>3. \A p \in (L + 1)..Len(log') : p = L + 1
  BY <1>1
<1>4. History(log, server.misnamed)
  BY DEF AInv
<1>5. \A x \in Everyone :
        L > 0 /\ Len(log') > L /\ log[L].type = "authCompleted" /\ Asked(log, x, L) =>
          log'[L + 1].type = "authRequired" /\ log'[L + 1].ids = log[L].ids
  BY AtRest
<1>6. \A p \in (L + 1)..Len(log'), x \in Everyone :
        Names(log', x, server'.misnamed, p) /\ Goes(log', x, p)
  BY <1>2, <1>3
<1>7. L <= Len(log')
  BY <1>1
<1> HIDE DEF L
<1> QED
  BY <1>1, <1>4, <1>5, <1>6, <1>7, HistoryGrows DEF L

-----------------------------------------------------------------------------
(* The session's own steps.                                                 *)

\* What closed or asked for something has events.
LEMMA ImpliesLogged ==
  ASSUME NEW l, NEW x, NEW p
  PROVE  Closed(l, x, p) \/ Asked(l, x, p) => Logged(l, x, p)
BY DEF Closed, Asked, Logged

\* The sequences of the session, and what is known of its deliveries.
LEMMA NowKnown ==
  ASSUME AInv, NEW x \in Everyone
  PROVE  /\ NowOf(x) /\ (Queued(x) => ~Logged(log, x, Len(log)))
         /\ Closed(log, x, Len(log)) \/ Asked(log, x, Len(log)) => Logged(log, x, Len(log))
BY ImpliesLogged DEF AInv, Now, QueueInv

\* A turn takes the first deliveries of the queue.
LEMMA QueueTaken ==
  ASSUME AInv, NEW n \in 1..Len(server.queue), server' \in ServerType,
         server'.queue = SubSeq(server.queue, n + 1, Len(server.queue))
  PROVE  /\ \A x \in Prefix(server.queue, n) : Queued(x) /\ x \in Everyone
         /\ \A i, j \in 1..Len(server'.queue) : server'.queue[i] = server'.queue[j] => i = j
         /\ \A x : Queued(x)' => Queued(x) /\ x \notin Prefix(server.queue, n) /\ x \in Everyone
<1> DEFINE q == server.queue
           r == SubSeq(q, n + 1, Len(q))
<1>1. q \in Seq(Everyone) /\ Len(q) \in Nat /\ n \in Nat /\ n <= Len(q) /\ n >= 1
  BY DEF AInv, IInv, Typed, SessionTypes, ServerType
<1>2. r \in Seq(Everyone) /\ Len(r) = Len(q) - n /\ \A i \in 1..(Len(q) - n) : r[i] = q[n + i]
  BY <1>1
<1>3. server'.queue = r
  OBVIOUS
<1>4. \A i, j \in 1..Len(q) : q[i] = q[j] => i = j
  BY DEF AInv, QueueInv
<1>5. /\ \A i \in 1..(Len(q) - n) : n + i \in 1..Len(q) /\ n + i > n
      /\ \A i \in 1..n : i \in 1..Len(q) /\ i <= n
  BY <1>1
<1>6. \A x \in Prefix(q, n) : \E i \in 1..n : x = q[i]
  BY DEF Prefix
<1>7. \A x \in Prefix(q, n) : Queued(x) /\ x \in Everyone
  BY <1>1, <1>5, <1>6 DEF Queued
<1> HIDE DEF r
<1>8. \A i, j \in 1..Len(server'.queue) : server'.queue[i] = server'.queue[j] => i = j
  <2> SUFFICES ASSUME NEW i \in 1..(Len(q) - n), NEW j \in 1..(Len(q) - n), r[i] = r[j] PROVE i = j
    BY <1>2, <1>3
  <2>1. n + i = n + j
    BY <1>2, <1>4, <1>5
  <2> QED
    BY <1>1, <2>1
<1>9. ASSUME NEW x, Queued(x)' PROVE Queued(x) /\ x \notin Prefix(q, n) /\ x \in Everyone
  <2>1. PICK i \in 1..(Len(q) - n) : x = q[n + i]
    BY <1>2, <1>3, <1>9 DEF Queued
  <2>2. Queued(x) /\ x \in Everyone
    BY <1>1, <1>5, <2>1 DEF Queued
  <2>3. x \notin Prefix(q, n)
    <3> SUFFICES ASSUME NEW j \in 1..n, x = q[j] PROVE FALSE
      BY <1>6
    <3>1. n + i = j
      BY <1>4, <1>5, <2>1
    <3> QED
      BY <1>1, <3>1
  <2> QED
    BY <2>2, <2>3
<1> QED
  BY <1>7, <1>8, <1>9

\* A step that writes one event.
LEMMA OneEventA ==
  ASSUME AInv, IInv', UNCHANGED client, budget'.sent = budget.sent,
         server' \in ServerType, server.phase # "over", NEW a \in EventKinds, Emit(<<a>>),
         server.misnamed \subseteq server'.misnamed, History(log', server'.misnamed),
         \A x \in Everyone : NowOf(x)', a # "authRequired", a = "authCompleted" => server'.waits = {},
         \A i, j \in 1..Len(server'.queue) : server'.queue[i] = server'.queue[j] => i = j,
         \A x : Queued(x)' => Queued(x) /\ x \notin server'.turn /\ x \in Everyone,
         \A x \in server'.turn : Logged(log, x, Len(log)) \/ Queued(x)
  PROVE  AInv'
<1>1. /\ Len(log) \in Nat /\ Len(log') = Len(log) + 1
      /\ \A e \in 1..Len(log) : log'[e] = log[e]
      /\ log'[Len(log')] = [type |-> a, id |-> TRUE, ids |-> server'.ids, of |-> server'.turn]
      /\ \A x : Logged(log', x, Len(log')) <=> Logged(log, x, Len(log)) \/ x \in server'.turn
  BY OneEvent
<1>2. Now'
  BY <1>1 DEF Now
<1>3. QueueInv'
  BY <1>1 DEF QueueInv, AInv
<1>4. Len(log) <= Len(log')
  BY <1>1
<1> QED
  BY <1>1, <1>2, <1>3, <1>4, SessionGoes

\* A turn begins with the first messages of the queue: none of them had an event.
LEMMA TurnBeginsA ==
  ASSUME AInv, IInv', NEW n \in 1..Len(server.queue), TurnBegins(n)
  PROVE  AInv'
<1> DEFINE ds == Prefix(server.queue, n)
<1>1. /\ server \in ServerType /\ server' \in ServerType /\ "received" \in EventKinds
  BY DEF AInv, IInv, Typed, SessionTypes, EventKinds
<1>2. /\ server.phase = "parked" /\ UNCHANGED <<client, budget>> /\ Emit(<<"received">>)
      /\ server' = [server EXCEPT !.queue = SubSeq(@, n + 1, Len(@)), !.ids = ds, !.turn = ds, !.phase = "running"]
  BY DEF TurnBegins
<1>3. /\ server'.queue = SubSeq(server.queue, n + 1, Len(server.queue)) /\ server'.ids = ds /\ server'.turn = ds
      /\ server'.phase = "running" /\ server'.waits = server.waits /\ server'.misnamed = server.misnamed
  BY <1>1, <1>2 DEF ServerType
<1>4. /\ \A x \in ds : Queued(x) /\ x \in Everyone
      /\ \A i, j \in 1..Len(server'.queue) : server'.queue[i] = server'.queue[j] => i = j
      /\ \A x : Queued(x)' => Queued(x) /\ x \notin ds /\ x \in Everyone
  BY <1>1, <1>3, QueueTaken
<1> HIDE DEF ds
<1>5. \A x : /\ Logged(log', x, Len(log')) <=> Logged(log, x, Len(log)) \/ x \in ds
             /\ Closed(log', x, Len(log')) <=> Closed(log, x, Len(log))
             /\ Asked(log', x, Len(log')) <=> Asked(log, x, Len(log))
  BY <1>1, <1>2, <1>3, OneEvent
<1>6. \A x \in ds : ~Logged(log, x, Len(log)) /\ ~Closed(log, x, Len(log))
  BY <1>4, NowKnown
<1>7. History(log', server'.misnamed)
  BY <1>1, <1>2, <1>3, <1>6, OneEventGoes
<1>8. ASSUME NEW x \in Everyone PROVE NowOf(x)'
  BY <1>2, <1>3, <1>4, <1>5, <1>6, NowKnown DEF NowOf, Running
<1>9. \A x \in server'.turn : Logged(log, x, Len(log)) \/ Queued(x)
  BY <1>3, <1>4
<1> QED
  BY <1>1, <1>2, <1>3, <1>4, <1>7, <1>8, <1>9, OneEventA

\* A turn for a notification belongs to nobody, and empties the names.
LEMMA TurnNotifiedA ==
  ASSUME AInv, IInv', TurnNotified
  PROVE  AInv'
<1>1. /\ server \in ServerType /\ server' \in ServerType /\ "received" \in EventKinds
  BY DEF AInv, IInv, Typed, SessionTypes, EventKinds
<1>2. /\ server.phase = "parked" /\ UNCHANGED client /\ Spend /\ Emit(<<"received">>)
      /\ server' = [server EXCEPT !.ids = {}, !.turn = {}, !.phase = "running"]
  BY DEF TurnNotified
<1>3. /\ server'.queue = server.queue /\ server'.ids = {} /\ server'.turn = {}
      /\ server'.phase = "running" /\ server'.waits = server.waits /\ server'.misnamed = server.misnamed
  BY <1>1, <1>2 DEF ServerType
<1>4. budget'.sent = budget.sent
  BY <1>2, Spends DEF AInv, IInv, Typed
<1>5. \A x : /\ Logged(log', x, Len(log')) <=> Logged(log, x, Len(log))
             /\ Closed(log', x, Len(log')) <=> Closed(log, x, Len(log))
             /\ Asked(log', x, Len(log')) <=> Asked(log, x, Len(log))
  BY <1>1, <1>2, <1>3, OneEvent
<1>6. History(log', server'.misnamed)
  BY <1>1, <1>2, <1>3, OneEventGoes
<1>7. ASSUME NEW x \in Everyone PROVE NowOf(x)'
  BY <1>2, <1>3, <1>5, NowKnown DEF NowOf, Running
<1>8. /\ \A i, j \in 1..Len(server'.queue) : server'.queue[i] = server'.queue[j] => i = j
      /\ \A x : Queued(x)' => Queued(x) /\ x \notin server'.turn /\ x \in Everyone
  BY <1>1, <1>3 DEF AInv, QueueInv, Queued, ServerType
<1> QED
  BY <1>1, <1>2, <1>3, <1>4, <1>6, <1>7, <1>8, OneEventA

\* A turn that parks closes what it ran.
LEMMA TurnParksA ==
  ASSUME AInv, IInv', TurnParks
  PROVE  AInv'
<1>1. /\ server \in ServerType /\ server' \in ServerType /\ "waiting" \in EventKinds
  BY DEF AInv, IInv, Typed, SessionTypes, EventKinds
<1>2. /\ server.phase = "running" /\ UNCHANGED client /\ budget' = budget /\ Emit(<<"waiting">>)
      /\ server' = [server EXCEPT !.phase = "parked"]
  BY DEF TurnParks
<1>3. /\ server'.queue = server.queue /\ server'.ids = server.ids /\ server'.turn = server.turn
      /\ server'.phase = "parked" /\ server'.waits = server.waits /\ server'.misnamed = server.misnamed
      /\ server.turn \subseteq Everyone
  BY <1>1, <1>2 DEF ServerType
<1>4. \A x \in Everyone : x \in server.turn <=> Running(x)
  BY <1>2 DEF Running
<1>5. \A x : /\ Logged(log', x, Len(log')) <=> Logged(log, x, Len(log)) \/ x \in server.turn
             /\ Closed(log', x, Len(log')) <=> Closed(log, x, Len(log)) \/ x \in server.turn
             /\ Asked(log', x, Len(log')) <=> Asked(log, x, Len(log))
  BY <1>1, <1>2, <1>3, OneEvent
<1>6. History(log', server'.misnamed)
  <2>1. \A x \in Everyone :
          /\ x \in server'.ids => Logged(log, x, Len(log)) \/ x \in server'.turn
          /\ x \in server'.turn =>
               /\ x \notin server'.misnamed => x \in server'.ids \/ server'.ids = {}
               /\ x \notin server'.ids => Logged(log, x, Len(log))
               /\ ~Closed(log, x, Len(log))
          /\ Logged(log, x, Len(log)) =>
               Asked(log, x, Len(log)) \/ Closed(log, x, Len(log)) \/ x \in server'.turn
    BY <1>2, <1>3, <1>4, NowKnown DEF NowOf
  <2> QED
    BY <1>1, <1>2, <1>3, <2>1, OneEventGoes
<1>7. ASSUME NEW x \in Everyone PROVE NowOf(x)'
  BY <1>2, <1>3, <1>4, <1>5, <1>7, NowKnown DEF NowOf, Running
<1>8. /\ \A i, j \in 1..Len(server'.queue) : server'.queue[i] = server'.queue[j] => i = j
      /\ \A x : Queued(x)' => Queued(x) /\ x \notin server'.turn /\ x \in Everyone
  <2>1. \A x : Queued(x)' => Queued(x) /\ x \in Everyone
    BY <1>1, <1>3 DEF Queued, ServerType
  <2>2. \A x \in server.turn : ~Queued(x)
    BY <1>3, <1>4, NowKnown DEF NowOf
  <2> QED
    BY <1>3, <2>1, <2>2 DEF AInv, QueueInv
<1>9. \A x \in server'.turn : Logged(log, x, Len(log)) \/ Queued(x)
  BY <1>3, <1>4, NowKnown DEF NowOf
<1> QED
  BY <1>1, <1>2, <1>3, <1>6, <1>7, <1>8, <1>9, OneEventA

\* An authorization's turn goes on with all that waited: whom the names left out is
\* misnamed.
LEMMA TurnAuthorizedA ==
  ASSUME AInv, IInv', TurnAuthorized
  PROVE  AInv'
<1>1. /\ server \in ServerType /\ server' \in ServerType /\ "authCompleted" \in EventKinds
  BY DEF AInv, IInv, Typed, SessionTypes, EventKinds
<1>2. /\ server.phase = "parked" /\ UNCHANGED client /\ budget' = budget /\ Emit(<<"authCompleted">>)
      /\ server' = [server EXCEPT !.turn = server.waits, !.waits = {}, !.auth = FALSE, !.phase = "running",
                      !.misnamed = @ \cup (IF server.ids = {} THEN {} ELSE server.waits \ server.ids)]
  BY DEF TurnAuthorized
<1>3. /\ server'.queue = server.queue /\ server'.ids = server.ids /\ server'.turn = server.waits
      /\ server'.phase = "running" /\ server'.waits = {} /\ server.waits \subseteq Everyone
      /\ server'.misnamed = server.misnamed \cup (IF server.ids = {} THEN {} ELSE server.waits \ server.ids)
  BY <1>1, <1>2 DEF ServerType
<1>4. \A x \in server.waits : Logged(log, x, Len(log)) /\ ~Closed(log, x, Len(log)) /\ ~Queued(x)
  BY <1>3, NowKnown DEF NowOf
<1>5. \A x : /\ Logged(log', x, Len(log')) <=> Logged(log, x, Len(log)) \/ x \in server.waits
             /\ Closed(log', x, Len(log')) <=> Closed(log, x, Len(log))
             /\ Asked(log', x, Len(log')) <=> Asked(log, x, Len(log)) /\ x \notin server.waits
  BY <1>1, <1>2, <1>3, OneEvent
<1>6. History(log', server'.misnamed)
  <2>1. \A x \in Everyone :
          /\ x \in server'.ids => Logged(log, x, Len(log))
          /\ x \in server'.turn =>
               /\ x \notin server'.misnamed => x \in server'.ids \/ server'.ids = {}
               /\ ~Closed(log, x, Len(log)) /\ Logged(log, x, Len(log))
    BY <1>3, <1>4, NowKnown DEF NowOf
  <2> QED
    BY <1>1, <1>2, <1>3, <2>1, OneEventGoes
<1>7. ASSUME NEW x \in Everyone PROVE NowOf(x)'
  BY <1>2, <1>3, <1>4, <1>5, <1>7, NowKnown DEF NowOf, Running
<1>8. /\ \A i, j \in 1..Len(server'.queue) : server'.queue[i] = server'.queue[j] => i = j
      /\ \A x : Queued(x)' => Queued(x) /\ x \notin server'.turn /\ x \in Everyone
  <2>1. \A x : Queued(x)' => Queued(x) /\ x \in Everyone
    BY <1>1, <1>3 DEF Queued, ServerType
  <2> QED
    BY <1>3, <1>4, <2>1 DEF AInv, QueueInv
<1> QED
  BY <1>1, <1>2, <1>3, <1>4, <1>6, <1>7, <1>8, OneEventA

\* The session ends, in a turn or between two.
LEMMA SessionEndsA ==
  ASSUME AInv, IInv', NEW a \in {"failed", "completed"}, SessionEnds(a)
  PROVE  AInv'
<1>1. /\ server \in ServerType /\ server' \in ServerType /\ a \in EventKinds
  BY DEF AInv, IInv, Typed, SessionTypes, EventKinds
<1>2. /\ server.phase # "over" /\ UNCHANGED client /\ Spend /\ Emit(<<a>>)
      /\ server' = [server EXCEPT !.phase = "over", !.turn = IF server.phase = "running" THEN @ ELSE {}]
  BY DEF SessionEnds
<1>3. /\ server'.queue = server.queue /\ server'.ids = server.ids
      /\ server'.turn = IF server.phase = "running" THEN server.turn ELSE {}
      /\ server'.phase = "over" /\ server'.waits = server.waits /\ server'.misnamed = server.misnamed
      /\ server.turn \subseteq Everyone
  BY <1>1, <1>2 DEF ServerType
<1>4. budget'.sent = budget.sent
  BY <1>2, Spends DEF AInv, IInv, Typed
<1>5. \A x \in server'.turn : Running(x) /\ x \in Everyone
  BY <1>3 DEF Running
<1>6. \A x : /\ Logged(log', x, Len(log')) <=> Logged(log, x, Len(log)) \/ x \in server'.turn
             /\ Closed(log', x, Len(log')) <=> Closed(log, x, Len(log))
  BY <1>1, <1>2, <1>3, OneEvent
<1>7. History(log', server'.misnamed)
  <2>1. \A x \in Everyone :
          /\ x \in server'.ids => Logged(log, x, Len(log))
          /\ x \in server'.turn =>
               /\ x \notin server'.misnamed => x \in server'.ids \/ server'.ids = {}
               /\ ~Closed(log, x, Len(log)) /\ Logged(log, x, Len(log))
    BY <1>3, <1>5, NowKnown DEF NowOf
  <2> QED
    BY <1>1, <1>2, <1>3, <2>1, OneEventGoes
<1>8. ASSUME NEW x \in Everyone PROVE NowOf(x)'
  BY <1>2, <1>3, <1>6, <1>8, NowKnown DEF NowOf, Running
<1>9. \A x \in server'.turn : Logged(log, x, Len(log)) /\ ~Queued(x)
  BY <1>5, NowKnown DEF NowOf
<1>10. /\ \A i, j \in 1..Len(server'.queue) : server'.queue[i] = server'.queue[j] => i = j
       /\ \A x : Queued(x)' => Queued(x) /\ x \notin server'.turn /\ x \in Everyone
  <2>1. \A x : Queued(x)' => Queued(x) /\ x \in Everyone
    BY <1>1, <1>3 DEF Queued, ServerType
  <2> QED
    BY <1>3, <1>9, <2>1 DEF AInv, QueueInv
<1> QED
  BY <1>1, <1>2, <1>3, <1>4, <1>7, <1>8, <1>9, <1>10, OneEventA

\* A step that writes nothing.
LEMMA NothingWritten ==
  ASSUME AInv, IInv', UNCHANGED client, budget'.sent = budget.sent, log' = log, server.phase # "over",
         server'.misnamed = server.misnamed, Now', QueueInv', \A x \in Messages : Queued(x)' => Queued(x)
  PROVE  AInv'
<1>1. Len(log) \in Nat /\ History(log, server.misnamed)
  BY DEF AInv, IInv, Typed, SessionTypes
<1> QED
  BY <1>1, SessionGoes

\* A turn without a message writes nothing yet.
LEMMA TurnRespondedA ==
  ASSUME AInv, IInv', TurnResponded
  PROVE  AInv'
<1>1. /\ server \in ServerType /\ server.phase = "parked" /\ UNCHANGED <<log, client>> /\ Spend
      /\ server' = [server EXCEPT !.turn = {}, !.phase = "running"]
  BY DEF TurnResponded, AInv, IInv, Typed, SessionTypes
<1>2. /\ server'.queue = server.queue /\ server'.ids = server.ids /\ server'.turn = {}
      /\ server'.phase = "running" /\ server'.waits = server.waits /\ server'.misnamed = server.misnamed
  BY <1>1 DEF ServerType
<1>3. budget'.sent = budget.sent /\ \A x : Queued(x)' <=> Queued(x)
  BY <1>1, <1>2, Spends DEF AInv, IInv, Typed, Queued
<1>4. ASSUME NEW x \in Everyone PROVE NowOf(x)'
  BY <1>1, <1>2, NowKnown DEF NowOf, Running
<1>5. Now'
  BY <1>1, <1>2, <1>4 DEF Now, AInv
<1>6. QueueInv'
  BY <1>1, <1>2, <1>3 DEF QueueInv, AInv
<1> QED
  BY <1>1, <1>2, <1>3, <1>5, <1>6, NothingWritten

\* A message of another client, or one the session drops.
LEMMA QueueChangesA ==
  ASSUME AInv, IInv', DeliveryDropped \/ \E x \in Others : OtherSends(x)
  PROVE  AInv'
<1>1. /\ server \in ServerType /\ server' \in ServerType /\ server.queue \in Seq(Everyone)
  BY DEF AInv, IInv, Typed, SessionTypes, ServerType
<1>2. UNCHANGED <<log, client>> /\ Spend /\ server.phase # "over"
  BY DEF DeliveryDropped, OtherSends
<1>3. budget'.sent = budget.sent
  BY <1>2, Spends DEF AInv, IInv, Typed
<1>4. /\ UNCHANGED <<server.ids, server.turn, server.phase, server.waits, server.misnamed>>
      /\ \A i, j \in 1..Len(server'.queue) : server'.queue[i] = server'.queue[j] => i = j
      /\ \A x : Queued(x)' => Queued(x) \/ (x \in Others /\ ~Logged(log, x, Len(log)))
  <2>1. CASE DeliveryDropped
    <3>1. /\ server.queue # <<>> /\ UNCHANGED <<server.ids, server.turn, server.phase, server.waits, server.misnamed>>
          /\ server'.queue = Tail(server.queue)
      BY <1>1, <2>1 DEF DeliveryDropped, ServerType
    <3>2. /\ Len(server'.queue) = Len(server.queue) - 1 /\ Len(server.queue) \in Nat
          /\ \A i \in 1..Len(server'.queue) : server'.queue[i] = server.queue[i + 1] /\ i + 1 \in 1..Len(server.queue)
      BY <1>1, <3>1
    <3>3. ASSUME NEW i \in 1..Len(server'.queue), NEW j \in 1..Len(server'.queue), server'.queue[i] = server'.queue[j]
          PROVE  i = j
      <4>1. i + 1 = j + 1
        BY <3>2, <3>3 DEF AInv, QueueInv
      <4> QED
        BY <4>1
    <3>4. \A x : Queued(x)' => Queued(x)
      BY <3>2 DEF Queued
    <3> QED
      BY <3>1, <3>3, <3>4
  <2>2. CASE \E x \in Others : OtherSends(x)
    <3>1. PICK x \in Others : OtherSends(x)
      BY <2>2
    <3>2. /\ UNCHANGED <<server.ids, server.turn, server.phase, server.waits, server.misnamed>>
          /\ server'.queue = Append(server.queue, x)
      BY <1>1, <3>1 DEF OtherSends, ServerType
    <3>3. x \in Everyone /\ ~Queued(x) /\ ~Logged(log, x, Len(log))
      BY <1>1, <3>1 DEF OtherSends, Prefix, Queued, Logged, Everyone, AInv, IInv, Typed, SessionTypes
    <3>4. /\ Len(server'.queue) = Len(server.queue) + 1 /\ Len(server.queue) \in Nat
          /\ \A i \in 1..Len(server'.queue) : i \in 1..Len(server.queue) \/ i = Len(server.queue) + 1
          /\ \A i \in 1..Len(server.queue) : server'.queue[i] = server.queue[i]
          /\ server'.queue[Len(server.queue) + 1] = x
      BY <1>1, <3>2, <3>3
    <3>5. ASSUME NEW i \in 1..Len(server'.queue), NEW j \in 1..Len(server'.queue), server'.queue[i] = server'.queue[j]
          PROVE  i = j
      BY <3>3, <3>4, <3>5 DEF AInv, QueueInv, Queued
    <3>6. \A y : Queued(y)' => Queued(y) \/ y = x
      BY <3>4 DEF Queued
    <3> QED
      BY <3>2, <3>3, <3>5, <3>6
  <2> QED
    BY <2>1, <2>2
<1>5. Now'
  BY <1>2, <1>4 DEF Now, NowOf, Running, AInv
<1>6. QueueInv'
  BY <1>2, <1>4 DEF QueueInv, AInv
<1>7. \A x \in Messages : Queued(x)' => Queued(x)
  BY <1>4, StoreConstants
<1> QED
  BY <1>2, <1>3, <1>4, <1>5, <1>6, <1>7, NothingWritten

\* A turn that asks for an authorization: the two events it ends with.
LEMMA AsksAndParks ==
  ASSUME NEW k, NEW b \in Nat, NEW x, NEW mis, NEW I, NEW T, Len(k) = b + 2,
         k[b + 1].type = "authRequired", k[b + 2].type = "waiting",
         k[b + 1].ids = I, k[b + 2].ids = I, k[b + 1].of = T, k[b + 2].of = T,
         x \in I \cup T => Logged(k, x, b), x \in T => ~Closed(k, x, b) /\ (x \notin mis => x \in I \/ I = {}),
         Logged(k, x, b) => Asked(k, x, b) \/ Closed(k, x, b) \/ x \in T
  PROVE  /\ Names(k, x, mis, b + 1) /\ Goes(k, x, b + 1) /\ Names(k, x, mis, b + 2) /\ Goes(k, x, b + 2)
         /\ Logged(k, x, b + 2) <=> Logged(k, x, b)
         /\ Closed(k, x, b + 2) <=> Closed(k, x, b)
         /\ Asked(k, x, b + 2) <=> Asked(k, x, b) \/ x \in T
<1>1. /\ Logged(k, x, b + 1) <=> Logged(k, x, b)
      /\ Closed(k, x, b + 1) <=> Closed(k, x, b)
      /\ Asked(k, x, b + 1) <=> Asked(k, x, b) \/ x \in T
  BY OneMore DEF Closes
<1>2. b + 1 + 1 = b + 2 /\ b + 1 \in Nat /\ b + 2 - 1 = b + 1 /\ b + 1 - 1 = b /\ b + 2 > 1 /\ ~(b + 2 < Len(k))
  OBVIOUS
<1>3. ~Closes(k, b + 2)
  BY <1>2 DEF Closes
<1>4. /\ Logged(k, x, b + 2) <=> Logged(k, x, b + 1)
      /\ Closed(k, x, b + 2) <=> Closed(k, x, b + 1)
      /\ Asked(k, x, b + 2) <=> Asked(k, x, b + 1)
  <2>1. /\ Logged(k, x, b + 1 + 1) <=> Logged(k, x, b + 1) \/ x \in k[b + 1 + 1].of
        /\ Closed(k, x, b + 1 + 1) <=> Closed(k, x, b + 1) \/ (x \in k[b + 1 + 1].of /\ Closes(k, b + 1 + 1))
        /\ Asked(k, x, b + 1 + 1) <=>
             \/ x \in k[b + 1 + 1].of /\ k[b + 1 + 1].type = "authRequired"
             \/ Asked(k, x, b + 1) /\ ~(k[b + 1 + 1].type = "authCompleted" /\ x \in k[b + 1 + 1].of)
    BY <1>2, OneMore
  <2> QED
    BY <1>1, <1>2, <1>3, <2>1
<1>5. Names(k, x, mis, b + 1) /\ Names(k, x, mis, b + 2)
  BY <1>1, <1>2, <1>4 DEF Names
<1>6. Goes(k, x, b + 1) /\ Goes(k, x, b + 2)
  BY <1>1, <1>2, <1>4 DEF Goes
<1> QED
  BY <1>1, <1>4, <1>5, <1>6

\* A turn parks for an authorization, and supersedes one that is waited for.
LEMMA TurnAsksAuthorizationA ==
  ASSUME AInv, IInv', TurnAsksAuthorization
  PROVE  AInv'
<1> DEFINE L == Len(log)
           k == log'
           I == server.ids
           T == server.turn
           types == (IF server.auth THEN <<"authCompleted">> ELSE <<>>) \o <<"authRequired", "waiting">>
           b == IF server.auth THEN L + 1 ELSE L
<1>1. /\ server \in ServerType /\ server' \in ServerType /\ SessionTypes /\ L \in Nat
      /\ log \in Seq(Event) /\ log' \in Seq(Event)
  BY DEF AInv, IInv, Typed, SessionTypes
<1>2. /\ server.phase = "running" /\ UNCHANGED client /\ Spend /\ Emit(types)
      /\ server' = [server EXCEPT !.phase = "parked", !.auth = TRUE, !.waits = @ \cup server.turn]
  BY DEF TurnAsksAuthorization
<1>3. /\ server'.queue = server.queue /\ server'.ids = I /\ server'.turn = T
      /\ server'.phase = "parked" /\ server'.waits = server.waits \cup T /\ server'.misnamed = server.misnamed
      /\ T \subseteq Everyone
  BY <1>1, <1>2 DEF ServerType
<1>4. budget'.sent = budget.sent
  BY <1>2, Spends DEF AInv, IInv, Typed
<1>5. /\ Len(k) = b + 2 /\ \A e \in 1..L : k[e] = log[e]
      /\ k[b + 1].type = "authRequired" /\ k[b + 2].type = "waiting"
      /\ k[b + 1].ids = I /\ k[b + 2].ids = I /\ k[b + 1].of = T /\ k[b + 2].of = T
      /\ server.auth => k[L + 1].type = "authCompleted" /\ k[L + 1].ids = I /\ k[L + 1].of = T
  <2>1. types \in Seq(EventKinds)
        /\ types = IF server.auth THEN <<"authCompleted", "authRequired", "waiting">> ELSE <<"authRequired", "waiting">>
    <3>1. {"authCompleted", "authRequired", "waiting"} \subseteq EventKinds
      BY DEF EventKinds
    <3>2. CASE server.auth
      <4>1. <<"authCompleted">> \o <<"authRequired", "waiting">> = <<"authCompleted", "authRequired", "waiting">>
        BY <3>1, Prefixed
      <4>2. types = <<"authCompleted", "authRequired", "waiting">>
        BY <3>2, <4>1
      <4> HIDE DEF types
      <4> QED
        BY <3>1, <3>2, <4>2
    <3>3. CASE ~server.auth
      <4>1. types = <<"authRequired", "waiting">>
        BY <3>3
      <4> HIDE DEF types
      <4> QED
        BY <3>1, <3>3, <4>1
    <3> QED
      BY <3>2, <3>3
  <2> HIDE DEF types
  <2>2. /\ Len(log') = L + Len(types) /\ \A e \in 1..L : log'[e] = log[e]
        /\ \A i \in 1..Len(types) : log'[L + i] = [type |-> types[i], id |-> TRUE, ids |-> I, of |-> T]
    <3>1. /\ Len(log') = Len(log) + Len(types) /\ \A e \in 1..Len(log) : log'[e] = log[e]
          /\ \A i \in 1..Len(types) :
               log'[Len(log) + i] = [type |-> types[i], id |-> TRUE, ids |-> server'.ids, of |-> server'.turn]
      BY <1>1, <1>2, <2>1, Emits
    <3> QED
      BY <1>3, <3>1
  <2>3. CASE server.auth
    <3>1. Len(types) = 3 /\ types[1] = "authCompleted" /\ types[2] = "authRequired" /\ types[3] = "waiting"
      BY <2>1, <2>3
    <3>2. 1 \in 1..3 /\ 2 \in 1..3 /\ 3 \in 1..3 /\ L + 1 + 1 = L + 2 /\ L + 1 + 2 = L + 3
      BY <1>1
    <3>3. /\ k[L + 1] = [type |-> "authCompleted", id |-> TRUE, ids |-> I, of |-> T]
          /\ k[L + 2] = [type |-> "authRequired", id |-> TRUE, ids |-> I, of |-> T]
          /\ k[L + 3] = [type |-> "waiting", id |-> TRUE, ids |-> I, of |-> T]
      BY <2>2, <3>1, <3>2
    <3> QED
      BY <2>2, <2>3, <3>1, <3>2, <3>3
  <2>4. CASE ~server.auth
    <3>1. Len(types) = 2 /\ types[1] = "authRequired" /\ types[2] = "waiting"
      BY <2>1, <2>4
    <3>2. 1 \in 1..2 /\ 2 \in 1..2
      OBVIOUS
    <3>3. /\ k[L + 1] = [type |-> "authRequired", id |-> TRUE, ids |-> I, of |-> T]
          /\ k[L + 2] = [type |-> "waiting", id |-> TRUE, ids |-> I, of |-> T]
      BY <2>2, <3>1, <3>2
    <3> QED
      BY <2>2, <2>4, <3>1, <3>3
  <2> QED
    BY <2>3, <2>4
<1> HIDE DEF k, types
<1>6. /\ b \in Nat /\ L <= Len(k) /\ L \in 0..L /\ k \in Seq(Event) /\ L < Len(k)
      /\ \A p \in (L + 1)..Len(k) : p = b + 1 \/ p = b + 2 \/ (server.auth /\ p = L + 1)
      /\ L + 1 - 1 = L
  BY <1>1, <1>5 DEF k
<1>7. ASSUME NEW x \in Everyone
      PROVE  /\ \A p \in (L + 1)..Len(k) : Names(k, x, server.misnamed, p) /\ Goes(k, x, p)
             /\ Logged(k, x, Len(k)) <=> Logged(log, x, L)
             /\ Closed(k, x, Len(k)) <=> Closed(log, x, L)
             /\ Asked(k, x, Len(k)) <=> Asked(log, x, L) \/ x \in T
  <2>1. /\ x \in I \cup T => Logged(log, x, L)
        /\ x \in T => ~Closed(log, x, L) /\ ~Asked(log, x, L) /\ (x \notin server.misnamed => x \in I \/ I = {})
        /\ Logged(log, x, L) => Asked(log, x, L) \/ Closed(log, x, L) \/ x \in T
    BY <1>2, NowKnown DEF NowOf, Running
  <2>2. /\ Logged(k, x, L) <=> Logged(log, x, L)
        /\ Closed(k, x, L) <=> Closed(log, x, L)
        /\ Asked(k, x, L) <=> Asked(log, x, L)
    BY <1>1, <1>5, <1>6, Extended
  <2>3. /\ Logged(k, x, b) <=> Logged(log, x, L)
        /\ Closed(k, x, b) <=> Closed(log, x, L)
        /\ Asked(k, x, b) <=> Asked(log, x, L)
        /\ server.auth => Names(k, x, server.misnamed, L + 1) /\ Goes(k, x, L + 1)
    <3>1. CASE server.auth
      <4>1. /\ Logged(k, x, L + 1) <=> Logged(k, x, L) \/ x \in T
            /\ Closed(k, x, L + 1) <=> Closed(k, x, L)
            /\ Asked(k, x, L + 1) <=> Asked(k, x, L) /\ x \notin T
        BY <1>1, <1>5, <3>1, OneMore DEF Closes
      <4>2. Names(k, x, server.misnamed, L + 1)
        BY <1>5, <1>6, <2>1, <2>2, <3>1, <4>1 DEF Names
      <4>3. k[L + 1 + 1].type = "authRequired" /\ k[L + 1 + 1].ids = k[L + 1].ids
        BY <1>5, <3>1
      <4>4. Goes(k, x, L + 1)
        BY <1>5, <1>6, <2>1, <2>2, <3>1, <4>3 DEF Goes
      <4> QED
        BY <2>1, <2>2, <3>1, <4>1, <4>2, <4>4
    <3>2. CASE ~server.auth
      BY <2>2, <3>2
    <3> QED
      BY <3>1, <3>2
  <2> HIDE DEF b
  <2>4. /\ Names(k, x, server.misnamed, b + 1) /\ Goes(k, x, b + 1)
        /\ Names(k, x, server.misnamed, b + 2) /\ Goes(k, x, b + 2)
        /\ Logged(k, x, b + 2) <=> Logged(k, x, b)
        /\ Closed(k, x, b + 2) <=> Closed(k, x, b)
        /\ Asked(k, x, b + 2) <=> Asked(k, x, b) \/ x \in T
    <3>1. /\ x \in I \cup T => Logged(k, x, b)
          /\ x \in T => ~Closed(k, x, b) /\ (x \notin server.misnamed => x \in I \/ I = {})
          /\ Logged(k, x, b) => Asked(k, x, b) \/ Closed(k, x, b) \/ x \in T
      BY <2>1, <2>3
    <3>2. /\ b \in Nat /\ Len(k) = b + 2 /\ k[b + 1].type = "authRequired" /\ k[b + 2].type = "waiting"
          /\ k[b + 1].ids = I /\ k[b + 2].ids = I /\ k[b + 1].of = T /\ k[b + 2].of = T
      BY <1>5, <1>6
    <3> HIDE DEF I, T
    <3> QED
      BY <3>1, <3>2, AsksAndParks
  <2> QED
    BY <1>5, <1>6, <2>3, <2>4
<1>8. History(k, server.misnamed)
  <2>1. \A x \in Everyone :
          L > 0 /\ Len(k) > L /\ log[L].type = "authCompleted" /\ Asked(log, x, L) =>
            k[L + 1].type = "authRequired" /\ k[L + 1].ids = log[L].ids
    BY <1>2, AtRest
  <2>2. History(log, server.misnamed) /\ \A e \in 1..L : k[e] = log[e]
    BY <1>5 DEF AInv
  <2> HIDE DEF L
  <2> QED
    BY <1>1, <1>6, <1>7, <2>1, <2>2, HistoryGrows DEF L
<1>9. ASSUME NEW x \in Everyone PROVE NowOf(x)'
  <2>1. NowOf(x)
    BY NowKnown
  <2> QED
    BY <1>2, <1>3, <1>7, <2>1 DEF NowOf, Running, k
<1>10. Now'
  BY <1>3, <1>5, <1>9 DEF Now, k
<1>11. QueueInv' /\ \A x : Queued(x)' <=> Queued(x)
  <2>1. \A x : Queued(x)' <=> Queued(x)
    BY <1>3 DEF Queued
  <2> QED
    BY <1>3, <1>7, <2>1 DEF QueueInv, AInv, k
<1>12. \A x \in Messages : Logged(log', x, Len(log')) => Logged(log, x, L)
  BY <1>7 DEF k, Everyone
<1> QED
  BY <1>2, <1>3, <1>4, <1>5, <1>6, <1>8, <1>10, <1>11, <1>12, SessionGoes DEF k

\* Every step of the session.
LEMMA ServerNextA ==
  ASSUME AInv, IInv', ServerNext
  PROVE  AInv'
BY TurnBeginsA, TurnNotifiedA, TurnRespondedA, TurnParksA, TurnAsksAuthorizationA, TurnAuthorizedA,
   SessionEndsA, QueueChangesA
   DEF ServerNext, ServerProgress

-----------------------------------------------------------------------------
(* The client's steps.                                                      *)

\* A message that is posted goes to the end of the queue; nothing else of the
\* session changes.
LEMMA PostedQueue ==
  ASSUME AInv, NEW d, Unposted(d), server' = Accepted(d)
  PROVE  /\ UNCHANGED <<server.ids, server.turn, server.phase, server.waits, server.misnamed>>
         /\ \A x : Queued(x)' <=> Queued(x) \/ x = d
         /\ \A i, j \in 1..Len(server'.queue) : server'.queue[i] = server'.queue[j] => i = j
<1>1. SessionTypes /\ server \in ServerType /\ server.queue \in Seq(Everyone) /\ d \in Everyone
  BY DEF AInv, IInv, Typed, SessionTypes, ServerType, Unposted, Everyone
<1>2. /\ UNCHANGED <<server.ids, server.turn, server.phase, server.waits, server.misnamed>>
      /\ server'.queue = Append(server.queue, d)
  BY <1>1, DeliveryAccepted
<1>3. /\ Len(server'.queue) = Len(server.queue) + 1 /\ Len(server.queue) \in Nat
      /\ \A i \in 1..Len(server'.queue) : i \in 1..Len(server.queue) \/ i = Len(server.queue) + 1
      /\ 1..Len(server.queue) \subseteq 1..Len(server'.queue) /\ Len(server.queue) + 1 \in 1..Len(server'.queue)
      /\ \A i \in 1..Len(server.queue) : server'.queue[i] = server.queue[i]
      /\ server'.queue[Len(server.queue) + 1] = d
  BY <1>1, <1>2
<1>4. ASSUME NEW i \in 1..Len(server'.queue), NEW j \in 1..Len(server'.queue), server'.queue[i] = server'.queue[j]
      PROVE  i = j
  BY <1>3, <1>4 DEF AInv, QueueInv, Queued, Unposted
<1>5. ASSUME NEW x PROVE Queued(x)' <=> Queued(x) \/ x = d
  BY <1>3 DEF Queued
<1> QED
  BY <1>2, <1>4, <1>5

\* A step of the client, which writes nothing and posts at most one message.
LEMMA ClientGoes ==
  ASSUME AInv, IInv', log' = log, server' = server \/ \E d : Unposted(d) /\ server' = Accepted(d),
         FreshInv', ReadInv', DoneInv'
  PROVE  AInv'
<1>1. UNCHANGED <<server.ids, server.turn, server.phase, server.waits, server.misnamed>>
  BY PostedQueue
<1>2. History(log', server'.misnamed) /\ Now'
  BY <1>1 DEF AInv, Now, NowOf, Running
<1>3. QueueInv'
  <2>1. CASE server' = server
    BY <2>1 DEF AInv, QueueInv, Queued
  <2>2. CASE \E d : Unposted(d) /\ server' = Accepted(d)
    <3>1. PICK d : Unposted(d) /\ server' = Accepted(d)
      BY <2>2
    <3> QED
      BY <3>1, PostedQueue DEF AInv, QueueInv, Unposted
  <2> QED
    BY <2>1, <2>2
<1> QED
  BY <1>2, <1>3 DEF AInv

\* How a step may leave what a send has read.
Ended == {"settle", "steered", "pause", "none"}
Quiet ==
  \/ turn'.message = None \/ turn'.pc \in {"prepare", "post"}
  \/ /\ turn'.message = turn.message /\ store'.events = store.events
     /\ turn'.pc = "response" => /\ turn.pc = "response" /\ turn'.auth = turn.auth
                                 /\ reader'.place = reader.place /\ reader'.started = reader.started
     /\ turn'.pc \in Ended => turn.pc \in Ended

\* A step that reads nothing for the message of a send, or drops its turn.
LEMMA QuietReads ==
  ASSUME AInv, IInv', log' = log, UNCHANGED <<server.misnamed, server.phase>>, Quiet
  PROVE  ReadInv' /\ DoneInv'
<1>1. ModeInv'
  BY DEF IInv
<1>2. CASE turn'.message = None
  BY <1>1, <1>2 DEF ModeInv, ReadInv, DoneInv
<1>3. CASE turn'.pc \in {"prepare", "post"}
  BY <1>3 DEF ReadInv, DoneInv
<1>4. CASE turn'.message # None /\ turn'.pc \notin {"prepare", "post"}
  <2>1. /\ turn'.message = turn.message /\ store'.events = store.events
        /\ turn'.pc = "response" => /\ turn.pc = "response" /\ turn'.auth = turn.auth
                                    /\ reader'.place = reader.place /\ reader'.started = reader.started
        /\ turn'.pc \in Ended => turn.pc \in Ended
    BY <1>4 DEF Quiet
  <2>2. ReadInv'
    <3> SUFFICES ASSUME turn'.pc = "response" PROVE (reader.place <= Len(log) /\ ReadTo(turn.message, reader.place))'
      BY DEF ReadInv
    <3> QED
      BY <2>1 DEF AInv, ReadInv, ReadTo, Shown
  <2>3. DoneInv'
    BY <1>4, <2>1 DEF AInv, DoneInv, Done, Shown, Ended
  <2> QED
    BY <2>2, <2>3
<1> QED
  BY <1>2, <1>3, <1>4

\* A step that posts nothing.
LEMMA Kept ==
  ASSUME AInv, IInv', log' = log, server' = server, ups' = ups, budget'.sent = budget.sent, Quiet,
         Sending' => Sending /\ turn'.message = turn.message
  PROVE  AInv'
<1>1. FreshInv'
  BY DEF AInv, FreshInv, Unposted, Queued
<1> QED
  BY <1>1, QuietReads, ClientGoes

\* A message is posted, whoever hears of it.
LEMMA PostedFresh ==
  ASSUME AInv, log' = log, budget'.sent = budget.sent, NEW d, Unposted(d), d \in budget.sent,
         server' = Accepted(d), ups' \subseteq ups, \A f \in ups' : f.message # d,
         Sending' => Sending /\ turn'.message = turn.message /\ turn.message # d
  PROVE  FreshInv'
<1>1. \A x : x # d /\ Unposted(x) => Unposted(x)'
  BY PostedQueue DEF Unposted
<1> QED
  BY <1>1 DEF AInv, FreshInv

\* What becomes of a follow-up: it is gone, or goes on with the same message.
LEMMA FollowsOn ==
  ASSUME AInv, log' = log, server' = server, budget'.sent = budget.sent, NEW f \in ups, NEW g, g.message = f.message,
         ups' = ups \ {f} \/ (ups' = (ups \ {f}) \cup {g} /\ (Sending' => turn'.message # f.message)),
         Sending' => (Sending /\ turn'.message = turn.message) \/ (turn'.message = f.message /\ ups' = ups \ {f})
  PROVE  FreshInv'
<1>1. \A x : Unposted(x)' <=> Unposted(x)
  BY DEF Unposted, Queued
<1>2. /\ \A h \in ups : Unposted(h.message) /\ h.message \in budget.sent
      /\ \A h, k \in ups : h.message = k.message => h = k
      /\ Sending => \A h \in ups : h.message # turn.message
      /\ \A x \in Messages \ budget.sent : Unposted(x)
      /\ Sending => Unposted(turn.message) /\ turn.message \in budget.sent
  BY DEF AInv, FreshInv
<1>3. \A h \in ups' : (h \in ups /\ h # f) \/ (h = g /\ (Sending' => turn'.message # f.message))
  OBVIOUS
<1>4. \A h \in ups' : Unposted(h.message)' /\ h.message \in budget'.sent
  BY <1>1, <1>2, <1>3
<1>5. \A h, k \in ups' : h.message = k.message => h = k
  BY <1>2, <1>3
<1>6. (Sending => Unposted(turn.message) /\ turn.message \in budget.sent)'
  BY <1>1, <1>2
<1>7. Sending' => \A h \in ups' : h.message # turn'.message
  BY <1>2, <1>3
<1>8. (\A x \in Messages \ budget.sent : Unposted(x))'
  BY <1>1, <1>2
<1> QED
  BY <1>4, <1>5, <1>6, <1>7, <1>8 DEF FreshInv

\* A connection is opened, or given up, or ends: only the stream of a steered
\* turn ends without having been read to what its reader was after.
LEMMA ConnectionStepsA ==
  ASSUME AInv, IInv', Connect \/ ConnectFails \/ Cut \/ Idle
  PROVE  AInv'
<1>1. /\ UNCHANGED <<log, server, ups>> /\ (budget' = budget \/ Spend)
  BY DEF Connect, ConnectFails, Cut, Idle, Reconnect
<1>2. budget'.sent = budget.sent /\ IInv
  BY <1>1, Spends DEF AInv, IInv, Typed
<1>3. ASSUME NEW r \in PlaceType, r.mode = reader.mode, r.place = reader.place, r.started = reader.started,
             reader.mode # "none", \/ EndOfStream(r) /\ reader.mode # "response"
                                   \/ reader' = r /\ UNCHANGED <<cursor, store, turn>>
      PROVE  AInv'
  <2>1. turn.pc \notin {"prepare", "post"}
    BY <1>2, <1>3, Reached DEF ModeOf
  <2>2. CASE EndOfStream(r) /\ reader.mode # "response"
    <3>1. /\ store'.events = store.events /\ turn'.message = turn.message
          /\ \/ r.mode = "steered" /\ turn'.pc = "none"
             \/ r.mode # "steered" /\ turn'.pc \in {"replayed", "probed", "settle"}
      BY <1>2, <1>3, <2>2, Reached, StreamEnds
    <3>2. Quiet
      <4>1. CASE r.mode = "steered"
        <5>1. turn.pc \in {"steered", "pause"}
          BY <1>2, <1>3, <4>1, Reached DEF ModeOf, TurnPcs
        <5> QED
          BY <3>1, <4>1, <5>1 DEF Quiet, Ended
      <4>2. CASE r.mode # "steered"
        <5>1. turn.pc \in Replays
          BY <1>2, <1>3, <2>2, <4>2, Reached DEF ModeOf, TurnPcs, Replays
        <5> QED
          BY <1>2, <3>1, <5>1 DEF Quiet, IInv, ModeInv
      <4> QED
        BY <4>1, <4>2
    <3>3. ~Sending'
      BY <3>1 DEF Sending
    <3> QED
      BY <1>1, <1>2, <3>2, <3>3, Kept
  <2>3. CASE reader' = r /\ UNCHANGED <<cursor, store, turn>>
    <3>1. Quiet
      BY <1>3, <2>3 DEF Quiet
    <3> QED
      BY <1>1, <1>2, <2>3, <3>1, Kept DEF Sending
  <2> QED
    BY <1>3, <2>2, <2>3
<1>4. CASE ConnectFails
  <2>1. TurnFails(store)
    BY <1>4 DEF ConnectFails
  <2>2. turn'.message = None /\ turn'.pc = "none"
    BY <1>2, <2>1, Reached, TurnsTyped DEF TurnFails, TurnPcs
  <2> QED
    BY <1>1, <1>2, <2>2, Kept DEF Quiet, Sending
<1>5. CASE Connect
  <2> DEFINE bound == IF Bounded(reader) /\ reader.bound = 0 THEN Len(log) ELSE reader.bound
             r == [reader EXCEPT !.open = TRUE, !.bound = bound]
  <2>1. (EndOfStream(r) /\ Bounded(r)) \/ (reader' = r /\ UNCHANGED <<cursor, store, turn>>)
    BY <1>5 DEF Connect
  <2>2. bound \in Nat
    BY <1>2, Reached DEF IInv, Typed, SessionTypes, PlaceType
  <2> HIDE DEF bound
  <2>3. r \in PlaceType /\ r.mode = reader.mode /\ r.place = reader.place /\ r.started = reader.started
        /\ reader.mode # "none"
    BY <1>2, <1>5, <2>2, Reached DEF PlaceType, Connect
  <2> HIDE DEF r
  <2>4. Bounded(r) => reader.mode # "response"
    BY <2>3 DEF Bounded
  <2> QED
    BY <1>3, <2>1, <2>3, <2>4
<1>6. CASE Cut \/ Idle
  <2> DEFINE idle == IF CountsIdle THEN reader.idle + 1 ELSE reader.idle
             r == [reader EXCEPT !.open = FALSE, !.idle = idle, !.got = reader.mode = "response"]
  <2>1. (EndOfStream(r) /\ CountsIdle) \/ (reader' = r /\ UNCHANGED <<cursor, store, turn>>)
    BY <1>6 DEF Cut, Idle, Reconnect
  <2>2. idle \in Nat
    BY <1>2, Reached DEF PlaceType
  <2>3. reader.mode # "none"
    BY <1>2, <1>6 DEF Cut, Idle, IInv, ModeInv
  <2> HIDE DEF idle
  <2>4. r \in PlaceType /\ r.mode = reader.mode /\ r.place = reader.place /\ r.started = reader.started
    BY <1>2, <2>2, Reached DEF PlaceType
  <2> HIDE DEF r
  <2>5. CountsIdle => reader.mode # "response"
    BY DEF CountsIdle
  <2> QED
    BY <1>3, <2>1, <2>3, <2>4, <2>5
<1> QED
  BY <1>4, <1>5, <1>6

\* A turn goes from one stream to the next, or ends.
LEMMA TurnStepsA ==
  ASSUME AInv, IInv', SendPrepared \/ SendFails(FALSE) \/ ReplayDone \/ ProbeDone \/ FollowSteered \/ SteeredBoundary
  PROVE  AInv'
<1>1. /\ UNCHANGED <<log, server, ups>> /\ (budget' = budget \/ Spend)
  BY DEF SendPrepared, SendFails, ReplayDone, ProbeDone, FollowSteered, SteeredBoundary
<1>2. budget'.sent = budget.sent /\ IInv /\ turn \in TurnType /\ ClientTypes
  BY <1>1, Spends DEF AInv, IInv, Typed, ClientTypes
<1>3. SUFFICES Quiet /\ (Sending' => Sending /\ turn'.message = turn.message)
  BY <1>1, <1>2, Kept
<1>4. CASE SendPrepared
  <2>1. turn'.pc = "post" /\ turn'.message = turn.message /\ turn.pc = "prepare"
    BY <1>2, <1>4 DEF SendPrepared, TurnType
  <2> QED
    BY <2>1 DEF Quiet, Sending
<1>5. CASE SendFails(FALSE)
  <2>1. turn'.message = None /\ turn'.pc = "none"
    BY <1>2, <1>5, TurnsTyped DEF SendFails, TurnFails, TurnPcs
  <2> QED
    BY <2>1 DEF Quiet, Sending
<1>6. CASE ReplayDone \/ ProbeDone
  <2>1. turn.message = None
    BY <1>2, <1>6 DEF ReplayDone, ProbeDone, IInv, ModeInv, Replays
  <2>2. \E pc \in {"probe", "live", "settle"} : turn' = [turn EXCEPT !.pc = pc]
    BY <1>6 DEF ReplayDone, ProbeDone
  <2>3. turn'.message = None /\ turn'.pc \in {"probe", "live", "settle"}
    BY <1>2, <2>1, <2>2 DEF TurnType
  <2> QED
    BY <2>3 DEF Quiet, Sending
<1>7. CASE FollowSteered \/ SteeredBoundary
  <2>1. /\ turn.pc \in {"settle", "pause"}
        /\ TurnDone(store) \/ (turn' = [turn EXCEPT !.pc = "steered"] /\ store' = store)
    BY <1>7 DEF FollowSteered, SteeredBoundary
  <2>2. turn'.message = turn.message /\ turn'.pc \in {"none", "steered"} /\ store'.events = store.events
    <3>1. CASE TurnDone(store)
      <4>1. turn'.message = turn.message /\ turn'.pc = "none"
        BY <1>2, <3>1, Reached, TurnsTyped DEF TurnDone, TurnPcs
      <4>2. store'.events = store.events
        BY <1>2, <3>1, Reached, TurnsEnd
      <4> QED
        BY <4>1, <4>2
    <3>2. CASE turn' = [turn EXCEPT !.pc = "steered"] /\ store' = store
      BY <1>2, <3>2 DEF TurnType
    <3> QED
      BY <2>1, <3>1, <3>2
  <2> QED
    BY <2>1, <2>2 DEF Quiet, Sending, Ended
<1> QED
  BY <1>4, <1>5, <1>6, <1>7

\* The user resumes or resets, or a reader that was left behind stops.
LEMMA LeftA ==
  ASSUME AInv, IInv', resume \/ reset(FALSE) \/ \E r \in stale : StaleStops(r)
  PROVE  AInv'
<1>1. /\ UNCHANGED <<log, server, ups>> /\ (budget' = budget \/ Spend)
  BY DEF resume, reset, StaleStops
<1>2. budget'.sent = budget.sent /\ IInv /\ turn \in TurnType /\ ClientTypes
  BY <1>1, Spends DEF AInv, IInv, Typed, ClientTypes
<1>3. SUFFICES Quiet /\ (Sending' => Sending /\ turn'.message = turn.message)
  BY <1>1, <1>2, Kept
<1>4. CASE resume
  <2>1. PICK tail, auth : turn' = [NewTurn("replay", None) EXCEPT !.responded = TRUE, !.tail = tail, !.auth = auth]
    BY <1>4 DEF resume
  <2>2. turn'.message = None /\ turn'.pc = "replay"
    BY <2>1 DEF NewTurn, Turn
  <2> QED
    BY <2>2 DEF Quiet, Sending
<1>5. CASE reset(FALSE)
  <2>1. turn'.message = None /\ turn'.pc = "none"
    BY <1>5 DEF reset, Over, Turn
  <2> QED
    BY <2>1 DEF Quiet, Sending
<1>6. CASE \E r \in stale : StaleStops(r)
  BY <1>6 DEF StaleStops, Quiet, Sending
<1> QED
  BY <1>4, <1>5, <1>6

\* The message of the turn is posted: it has an answer to read, or the answer is
\* lost.
LEMMA PostsA ==
  ASSUME AInv, IInv', SendPosted \/ SendFails(TRUE) \/ reset(TRUE)
  PROVE  AInv'
<1> DEFINE m == turn.message
<1>1. /\ UNCHANGED <<log, ups>> /\ (budget' = budget \/ Spend)
      /\ turn.pc = "post" /\ server' = Accepted(m)
  BY DEF SendPosted, SendFails, reset
<1>2. budget'.sent = budget.sent /\ IInv /\ turn \in TurnType /\ ClientTypes
  BY <1>1, Spends DEF AInv, IInv, Typed, ClientTypes
<1>3. /\ Unposted(m) /\ m \in budget.sent /\ \A f \in ups : f.message # m
  BY <1>1 DEF AInv, FreshInv, Sending
<1>4. /\ turn'.pc \in {"none", "response"} /\ (turn'.pc = "none" => turn'.message = None)
      /\ turn'.pc = "response" => turn'.message = m /\ reader' = Reader("response", turn.start)
  <2>1. CASE SendPosted
    BY <1>2, <2>1 DEF SendPosted, TurnType
  <2>2. CASE SendFails(TRUE)
    BY <1>2, <2>2, TurnsTyped DEF SendFails, TurnFails, TurnPcs
  <2>3. CASE reset(TRUE)
    BY <2>3 DEF reset, Over, Turn
  <2> QED
    BY <2>1, <2>2, <2>3
<1>5. FreshInv'
  BY <1>1, <1>2, <1>3, <1>4, PostedFresh DEF Sending
<1>6. ReadInv' /\ DoneInv'
  <2>1. CASE turn'.pc = "none"
    BY <1>4, <2>1 DEF ReadInv, DoneInv
  <2>2. CASE turn'.pc = "response"
    <3>1. reader'.place = turn.start /\ reader'.started = FALSE /\ turn'.message = m
      BY <1>2, <1>4, <2>2, ReadersTyped DEF Modes, TurnType
    <3>2. turn.start \in Nat /\ Len(log) \in Nat /\ turn.start <= Len(log)
      <4>1. 1..turn.start \subseteq 1..Len(log) /\ turn.start \in Nat /\ Len(log) \in Nat
        BY <1>2 DEF IInv, Places, Covers, Typed, SessionTypes
      <4>2. turn.start > 0 => turn.start \in 1..turn.start
        BY <4>1
      <4> QED
        BY <4>1, <4>2
    <3>3. ~Logged(log, m, turn.start) /\ \A e \in 1..turn.start : m \notin log[e].of
      BY <1>3, <3>2 DEF Unposted, Logged
    <3>4. ~Asked(log, m, turn.start)
      BY <3>3 DEF Asked
    <3>5. ReadInv'
      BY <1>1, <3>1, <3>2, <3>3, <3>4 DEF ReadInv, ReadTo
    <3>6. DoneInv'
      BY <2>2 DEF DoneInv
    <3> QED
      BY <3>5, <3>6
  <2> QED
    BY <1>4, <2>1, <2>2
<1> QED
  BY <1>1, <1>3, <1>5, <1>6, ClientGoes

\* A message is typed: to be sent, or to follow up.
LEMMA TypedA ==
  ASSUME AInv, IInv', NEW d \in Messages, send(d) \/ sendFollowUp(d)
  PROVE  AInv'
<1>1. /\ UNCHANGED <<log, server>> /\ d \in Messages \ budget.sent /\ budget' = [budget EXCEPT !.sent = @ \cup {d}]
  BY DEF send, sendFollowUp, Types
<1>2. /\ budget'.sent = budget.sent \cup {d} /\ IInv /\ ClientTypes
  BY <1>1 DEF AInv, IInv, Typed, ClientTypes
<1>3. \A x : Unposted(x)' <=> Unposted(x)
  BY <1>1 DEF Unposted, Queued
<1>4. /\ Unposted(d) /\ \A f \in ups : f.message # d
      /\ Sending => turn.message # d
  BY <1>1 DEF AInv, FreshInv
<1>5. CASE send(d)
  <2>1. ups' = ups /\ turn'.pc = "prepare" /\ turn'.message = d
    BY <1>5 DEF send, StartSend, NewTurn, Turn
  <2>2. FreshInv'
    BY <1>2, <1>3, <1>4, <2>1 DEF AInv, FreshInv
  <2>3. Quiet
    BY <2>1 DEF Quiet
  <2> QED
    BY <1>1, <2>2, <2>3, QuietReads, ClientGoes
<1>6. CASE sendFollowUp(d)
  <2>1. UNCHANGED <<store, turn, reader>> /\ ups' = ups \cup {[message |-> d, n |-> turn.n, pc |-> "prepare"]}
    BY <1>6 DEF sendFollowUp
  <2>2. FreshInv'
    BY <1>2, <1>3, <1>4, <2>1 DEF AInv, FreshInv, Sending
  <2>3. Quiet
    BY <2>1 DEF Quiet
  <2> QED
    BY <1>1, <2>2, <2>3, QuietReads, ClientGoes
<1> QED
  BY <1>5, <1>6

\* A follow-up goes on.
LEMMA FollowUpsA ==
  ASSUME AInv, IInv', NEW f \in ups, \/ FollowUpPrepared(f) \/ FollowUpWaited(f) \/ FollowUpPosted(f)
                                     \/ \E lost \in BOOLEAN : FollowUpFails(f, lost)
  PROVE  AInv'
<1>1. /\ UNCHANGED <<log, reader>> /\ (budget' = budget \/ Spend)
  BY DEF FollowUpPrepared, FollowUpWaited, FollowUpPosted, FollowUpFails
<1>2. budget'.sent = budget.sent /\ IInv /\ turn \in TurnType /\ ClientTypes /\ f \in UpType
  BY <1>1, Spends DEF AInv, IInv, Typed, ClientTypes
<1>3. /\ Unposted(f.message) /\ f.message \in budget.sent
      /\ Sending => turn.message # f.message
      /\ \A g \in ups : g.message = f.message => g = f
  BY DEF AInv, FreshInv
<1>4. ASSUME StartSend(f.message), ups' = ups \ {f}, server' = server
      PROVE  AInv'
  <2>1. turn'.pc = "prepare" /\ turn'.message = f.message
    BY <1>4 DEF StartSend, NewTurn, Turn
  <2>2. FreshInv'
    BY <1>1, <1>2, <1>4, <2>1, FollowsOn
  <2>3. Quiet
    BY <2>1 DEF Quiet
  <2> QED
    BY <1>1, <1>4, <2>2, <2>3, QuietReads, ClientGoes
<1>5. ASSUME UNCHANGED <<turn.pc, turn.message, turn.auth, store.events>>,
             \/ server' = server /\ (ups' = ups \ {f} \/ \E g : g.message = f.message /\ ups' = (ups \ {f}) \cup {g})
             \/ server' = Accepted(f.message) /\ ups' = ups \ {f}
      PROVE  AInv'
  <2>1. Quiet
    BY <1>1, <1>5 DEF Quiet
  <2>2. Sending' => Sending /\ turn'.message = turn.message
    BY <1>5 DEF Sending
  <2>3. FreshInv'
    <3>1. CASE server' = server /\ ups' = ups \ {f}
      BY <1>1, <1>2, <2>2, <3>1, FollowsOn
    <3>2. CASE server' = server /\ \E g : g.message = f.message /\ ups' = (ups \ {f}) \cup {g}
      <4>1. PICK g : g.message = f.message /\ ups' = (ups \ {f}) \cup {g}
        BY <3>2
      <4>2. Sending' => turn'.message # f.message
        BY <1>3, <2>2
      <4> QED
        BY <1>1, <1>2, <2>2, <3>2, <4>1, <4>2, FollowsOn
    <3>3. CASE server' = Accepted(f.message) /\ ups' = ups \ {f}
      <4>1. ups' \subseteq ups /\ \A g \in ups' : g.message # f.message
        BY <1>3, <3>3
      <4>2. Sending' => Sending /\ turn'.message = turn.message /\ turn.message # f.message
        BY <1>3, <2>2
      <4> QED
        BY <1>1, <1>2, <1>3, <3>3, <4>1, <4>2, PostedFresh
    <3> QED
      BY <1>5, <3>1, <3>2, <3>3
  <2>4. UNCHANGED <<server.misnamed, server.phase>>
    BY <1>3, <1>5, PostedQueue
  <2> QED
    BY <1>1, <1>3, <1>5, <2>1, <2>3, <2>4, QuietReads, ClientGoes
<1>6. CASE FollowUpPrepared(f)
  <2>1. \/ StartSend(f.message) /\ ups' = ups \ {f}
        \/ /\ turn' = turn /\ (store' = store \/ \E p : store' = [store EXCEPT !.pending = p])
           /\ \/ ups' = ups \ {f} \/ ups' = (ups \ {f}) \cup {[f EXCEPT !.n = turn.n]}
              \/ ups' = (ups \ {f}) \cup {[f EXCEPT !.pc = "wait"]}
    BY <1>6 DEF FollowUpPrepared, Followed
  <2>2. server' = server /\ [f EXCEPT !.n = turn.n].message = f.message /\ [f EXCEPT !.pc = "wait"].message = f.message
    BY <1>2, <1>6 DEF FollowUpPrepared, UpType
  <2>3. (\E p : store' = [store EXCEPT !.pending = p]) => store'.events = store.events
    BY <1>2 DEF ClientTypes, StoreTyped
  <2> QED
    BY <1>4, <1>5, <2>1, <2>2, <2>3
<1>7. CASE FollowUpWaited(f)
  <2>1. \/ FailSubmission(f.message) /\ ups' = ups \ {f}
        \/ ups' = (ups \ {f}) \cup {[f EXCEPT !.pc = "post"]} /\ store' = store
    BY <1>7 DEF FollowUpWaited, Followed
  <2>2. turn' = turn /\ server' = server /\ [f EXCEPT !.pc = "post"].message = f.message
    BY <1>2, <1>7 DEF FollowUpWaited, UpType
  <2>3. FailSubmission(f.message) => store'.events = store.events
    BY <1>2 DEF ClientTypes, StoreTyped, FailSubmission
  <2> QED
    BY <1>5, <2>1, <2>2, <2>3
<1>8. CASE FollowUpPosted(f)
  <2>1. server' = Accepted(f.message) /\ ups' = ups \ {f} /\ store' = store
    BY <1>8 DEF FollowUpPosted
  <2>2. PICK n : turn' = [turn EXCEPT !.accepted = n]
    BY <1>8 DEF FollowUpPosted
  <2>3. UNCHANGED <<turn.pc, turn.message, turn.auth>>
    BY <1>2, <2>2 DEF TurnType
  <2> QED
    BY <1>5, <2>1, <2>3
<1>9. CASE \E lost \in BOOLEAN : FollowUpFails(f, lost)
  <2>1. /\ server' = server \/ server' = Accepted(f.message)
        /\ FailSubmission(f.message) /\ ups' = ups \ {f} /\ turn' = turn
    BY <1>9 DEF FollowUpFails
  <2>2. store'.events = store.events
    BY <1>2, <2>1 DEF ClientTypes, StoreTyped, FailSubmission
  <2> QED
    BY <1>5, <2>1, <2>2
<1> QED
  BY <1>6, <1>7, <1>8, <1>9

\* The reader of a send takes its next event: it passes over another delivery's,
\* shows its own, and ends at the boundary that closes its turn.
LEMMA ReadResponseA ==
  ASSUME AInv, IInv', ReadResponse
  PROVE  AInv'
<1> DEFINE m == turn.message
           P == reader.place
           L == Len(log)
<1>1. PICK e : e = NextPlace(reader)
  OBVIOUS
<1>2. /\ turn.pc = "response" /\ Reads("response") /\ UNCHANGED <<log, server, ups, budget>>
  BY DEF ReadResponse
<1>3. IInv /\ ClientTypes /\ turn \in TurnType /\ m \in Everyone /\ m # None /\ L \in Nat
  BY <1>2, Reached DEF AInv, IInv, ModeInv, Everyone, Typed, SessionTypes
<1>4. P \in Nat /\ e = P + 1 /\ e \in 1..L /\ e - 1 = P
  BY <1>1, <1>2, <1>3, NextEvent, ReadTyped DEF PlaceType, ClientTypes
<1>5. ReadTo(m, P)
  BY <1>2 DEF AInv, ReadInv
<1>6. /\ Names(log, m, server.misnamed, e) /\ Goes(log, m, e)
      /\ P > 0 => Goes(log, m, P)
  BY <1>3, <1>4 DEF AInv, History
<1>7. /\ Logged(log, m, e) <=> Logged(log, m, P) \/ m \in log[e].of
      /\ Asked(log, m, e) <=>
           \/ m \in log[e].of /\ log[e].type = "authRequired"
           \/ Asked(log, m, P) /\ ~(log[e].type = "authCompleted" /\ m \in log[e].of)
  BY <1>4, OneMore
<1>8. Asked(log, m, P) => Logged(log, m, P) /\ P > 0
  <2>1. Asked(log, m, P) => P > 0
    BY <1>4 DEF Asked
  <2> QED
    BY <2>1, ImpliesLogged
\* An authorization that was completed under this name is asked for again at once.
<1>9. m \notin server.misnamed /\ Asked(log, m, P) /\ ~turn.auth =>
        log[e].type = "authRequired" /\ (m \in log[e].ids \/ log[e].ids = {})
  BY <1>4, <1>5, <1>6, <1>8 DEF ReadTo, Goes
<1>10. PICK auth \in BOOLEAN : auth = updatePendingAuthorizations(turn.auth, e)
  BY <1>3 DEF updatePendingAuthorizations, TurnType
<1>11. ASSUME \/ turn'.message = None
              \/ ~Sending' /\ ReadInv' /\ DoneInv'
       PROVE  AInv'
  <2>1. ReadInv' /\ DoneInv' /\ ~Sending'
    <3>1. CASE turn'.message = None
      <4>1. turn'.pc \notin {"prepare", "post", "response"}
        BY <3>1 DEF IInv, ModeInv
      <4> QED
        BY <3>1, <4>1 DEF ReadInv, DoneInv, Sending
    <3> QED
      BY <1>11, <3>1
  <2>2. FreshInv'
    BY <1>2, <2>1 DEF AInv, FreshInv, Unposted, Queued
  <2> QED
    BY <1>2, <2>1, <2>2, ClientGoes
<1>12. CASE EndedBefore(e)
  <2>1. TurnFails(store)
    BY <1>1, <1>12 DEF ReadResponse
  <2>2. turn'.message = None
    BY <2>1 DEF TurnFails, Over, Turn
  <2> QED
    BY <1>11, <2>2
<1>13. CASE ~EndedBefore(e) /\ PassesOver(e)
  <2>1. reader' = Read /\ UNCHANGED <<store, turn>>
    BY <1>1, <1>13 DEF ReadResponse
  <2>2. reader'.place = e /\ reader'.started = reader.started
    BY <1>1, <1>3, <2>1, ReadTyped
  <2>3. m \notin log[e].ids /\ (reader.started => log[e].ids # {})
    BY <1>13 DEF PassesOver, Matches
  <2>4. m \notin server.misnamed => m \notin log[e].of
    BY <1>4, <1>5, <1>6, <2>3 DEF Names, ReadTo
  <2>5. Logged(log, m, e) <=> reader.started
    BY <1>4, <1>5, <1>6, <1>7, <2>3 DEF Names, ReadTo
  <2>6. m \notin server.misnamed => (Asked(log, m, e) => turn.auth)
    BY <1>5, <1>7, <1>8, <1>9, <2>3, <2>4 DEF ReadTo
  <2>7. m \notin server.misnamed => \A i \in 1..e : m \in log[i].of => i \in Shown(store)
    <3>1. \A i \in 1..e : i \in 1..P \/ i = e
      BY <1>4
    <3> QED
      BY <1>5, <2>4, <3>1 DEF ReadTo
  <2>8. ReadTo(m, e)'
    BY <1>2, <2>1, <2>2, <2>5, <2>6, <2>7 DEF ReadTo, Shown
  <2>9. ReadInv'
    BY <1>2, <1>4, <2>1, <2>2, <2>8 DEF ReadInv, ReadTo, Shown
  <2>10. DoneInv' /\ ~Sending'
    BY <1>2, <2>1 DEF DoneInv, Sending
  <2> QED
    BY <1>11, <2>9, <2>10
<1>14. CASE ~EndedBefore(e) /\ ~PassesOver(e)
  <2>1. m \in log[e].ids \/ (reader.started /\ (Terminal(e) \/ log[e].ids = {}))
    BY <1>14 DEF PassesOver, Matches
  <2>2. store' = acceptServerEvent(store, e, "streaming")
    BY <1>1, <1>14 DEF ReadResponse
  <2>3. Shown(store)' = Shown(store) \cup {e}
    <3>1. StoreTyped(store) /\ "streaming" \in Statuses /\ e \in Nat
      BY <1>3, <1>4 DEF ClientTypes, Statuses
    <3>2. Shown(acceptServerEvent(store, e, "streaming")) = Shown(store) \cup {e}
      BY <3>1, EventShown
    <3> QED
      BY <2>2, <3>2 DEF Shown
  <2>4. Logged(log, m, e)
    BY <1>5, <1>6, <1>7, <2>1 DEF Names, ReadTo
  <2>5. m \notin server.misnamed => \A i \in 1..e : m \in log[i].of => i \in Shown(store)'
    <3>1. \A i \in 1..e : i \in 1..P \/ i = e
      BY <1>4
    <3> QED
      BY <1>5, <2>3, <3>1 DEF ReadTo
  <2>6. \/ Settles(e, auth) /\ turn' = [turn EXCEPT !.pc = "settle", !.auth = FALSE]
        \/ ~Settles(e, auth) /\ reader' = [Read EXCEPT !.started = TRUE] /\ turn' = [turn EXCEPT !.auth = auth]
    BY <1>1, <1>10, <1>14 DEF ReadResponse
  <2>7. CASE ~Settles(e, auth) /\ reader' = [Read EXCEPT !.started = TRUE] /\ turn' = [turn EXCEPT !.auth = auth]
    <3>1. turn'.pc = "response" /\ turn'.message = m /\ turn'.auth = auth
      BY <1>2, <1>3, <2>7 DEF TurnType
    <3>2. reader'.place = e /\ reader'.started = TRUE
      BY <1>1, <1>3, <2>7, ReadTyped DEF PlaceType
    <3>3. ~Terminal(e)
      BY <2>7 DEF Terminal, Settles, isCurrentTurnBoundaryEvent
    <3>4. m \notin server.misnamed /\ Asked(log, m, e) =>
            auth \/ (log[e].type = "authCompleted" /\ (m \in log[e].ids \/ log[e].ids = {}))
      BY <1>7, <1>9, <1>10, <2>1, <3>3 DEF updatePendingAuthorizations
    <3>5. ReadInv'
      BY <1>2, <1>4, <2>4, <2>5, <3>1, <3>2, <3>4 DEF ReadInv, ReadTo
    <3>6. DoneInv' /\ ~Sending'
      BY <3>1 DEF DoneInv, Sending
    <3> QED
      BY <1>11, <3>5, <3>6
  <2>8. CASE Settles(e, auth) /\ turn' = [turn EXCEPT !.pc = "settle", !.auth = FALSE]
    <3>1. turn'.pc = "settle" /\ turn'.message = m
      BY <1>3, <2>8 DEF TurnType
    <3>2. Logged(log, m, L)
      BY <1>4, <2>4 DEF Logged
    <3>3. CASE Terminal(e)
      <4>1. e = L /\ server.phase = "over"
        BY <1>3, <1>4, <3>3 DEF IInv, EndInv
      <4>2. Done(m)'
        BY <1>2, <2>5, <3>1, <3>2, <4>1 DEF Done
      <4> QED
        BY <1>11, <3>1, <4>2 DEF DoneInv, ReadInv, Sending, Done
    <3>4. CASE log[e].type = "waiting" /\ ~auth
      <4>1. ~turn.auth
        BY <1>10, <3>4 DEF updatePendingAuthorizations
      <4>2. m \notin server.misnamed => ~Asked(log, m, e)
        BY <1>7, <1>9, <3>4, <4>1
      <4>3. m \notin server.misnamed => Closed(log, m, e)
        BY <1>6, <2>4, <3>4, <4>2 DEF Goes
      <4>4. m \notin server.misnamed => \A p \in e..L : Closed(log, m, p)
        BY <1>4, <4>3 DEF Closed
      <4>5. ASSUME m \notin server.misnamed, NEW p \in 1..L, m \in log[p].of PROVE p \in Shown(store)'
        <5>1. CASE p \in 1..e
          BY <2>5, <4>5, <5>1
        <5>2. CASE p > e
          <6>1. p - 1 \in e..L
            BY <1>4, <5>2
          <6> QED
            BY <1>3, <4>4, <4>5, <6>1 DEF AInv, History, Goes
        <5> QED
          BY <1>4, <5>1, <5>2
      <4>6. L \in e..L
        BY <1>4
      <4>7. Done(m)'
        BY <1>2, <3>1, <3>2, <4>4, <4>5, <4>6 DEF Done
      <4> QED
        BY <1>11, <3>1, <4>7 DEF DoneInv, ReadInv, Sending, Done
    <3> QED
      BY <2>8, <3>3, <3>4 DEF Settles, isCurrentTurnBoundaryEvent, Terminal
  <2> QED
    BY <2>6, <2>7, <2>8
<1> QED
  BY <1>12, <1>13, <1>14

\* The other readers show more: what a send has shown stays shown.
LEMMA ReadOthersA ==
  ASSUME AInv, IInv', ReadReplay \/ ReadSteered
  PROVE  AInv'
<1>1. /\ UNCHANGED <<log, server, ups, budget>> /\ IInv
  BY DEF ReadReplay, ReadSteered, AInv
<1>2. turn \in TurnType /\ ClientTypes /\ reader.mode = ModeOf(turn.pc)
  BY <1>1, Reached
<1>3. ASSUME ReadInv', DoneInv', ~Sending' PROVE AInv'
  <2>1. FreshInv'
    BY <1>1, <1>3 DEF AInv, FreshInv, Unposted, Queued
  <2> QED
    BY <1>1, <1>3, <2>1, ClientGoes
<1>4. CASE ReadReplay
  <2>1. turn.message = None
    BY <1>1, <1>2, <1>4 DEF ReadReplay, Reads, ModeOf, IInv, ModeInv, Replays
  <2>2. PICK tail, auth, pc : turn' = [turn EXCEPT !.tail = tail, !.auth = auth, !.pc = pc]
    BY <1>4 DEF ReadReplay
  <2>3. turn'.message = None
    BY <1>2, <2>1, <2>2 DEF TurnType
  <2>4. ReadInv' /\ DoneInv' /\ ~Sending'
    BY <2>3 DEF IInv, ModeInv, ReadInv, DoneInv, Sending
  <2> QED
    BY <1>3, <2>4
<1>5. CASE ReadSteered
  <2>1. PICK e : e = NextPlace(reader) /\ store' = acceptServerEvent(store, e, "streaming")
    BY <1>5 DEF ReadSteered
  <2>2. PICK n \in Nat, pc \in {"pause", "steered"} : turn' = [turn EXCEPT !.received = n, !.pc = pc]
    <3>1. (IF log[e].type = "received" THEN turn.received + 1 ELSE turn.received) \in Nat
      BY <1>2 DEF TurnType
    <3>2. (IF isCurrentTurnBoundaryEvent(e) THEN "pause" ELSE turn.pc) \in {"pause", "steered"}
      BY <1>5 DEF ReadSteered
    <3> QED
      BY <1>5, <2>1, <3>1, <3>2 DEF ReadSteered
  <2>3. turn'.message = turn.message /\ turn'.pc \in {"pause", "steered"} /\ turn.pc = "steered"
    BY <1>2, <1>5, <2>2 DEF TurnType, ReadSteered
  <2>4. Shown(store)' = Shown(store) \cup {e}
    <3>1. StoreTyped(store) /\ "streaming" \in Statuses /\ e \in Nat
      BY <1>2, <2>1, ReadTyped DEF ClientTypes, Statuses
    <3>2. Shown(acceptServerEvent(store, e, "streaming")) = Shown(store) \cup {e}
      BY <3>1, EventShown
    <3> QED
      BY <2>1, <3>2 DEF Shown
  <2>5. DoneInv'
    BY <1>1, <2>3, <2>4 DEF AInv, DoneInv, Done
  <2> QED
    BY <1>3, <2>3, <2>5 DEF ReadInv, Sending
<1> QED
  BY <1>4, <1>5

\* The invariant holds at first: what is recorded belongs to nobody.
LEMMA InitAInv == Init => AInv
<1> SUFFICES ASSUME Init PROVE AInv
  OBVIOUS
<1>1. IInv
  BY InitIInv
<1>2. /\ Len(log) \in Nat
      /\ \A e \in 1..Len(log) : log[e].of = {} /\ log[e].ids = {} /\ log[e].type \in {"received", "waiting"}
  BY RecordedTurns
<1>3. \A x, p : p \in 0..Len(log) => ~Logged(log, x, p) /\ ~Asked(log, x, p) /\ ~Closed(log, x, p)
  <2>1. \A p \in 0..Len(log) : 1..p \subseteq 1..Len(log)
    BY <1>2
  <2> QED
    BY <1>2, <2>1 DEF Logged, Asked, Closed
<1>4. History(log, server.misnamed)
  <2> SUFFICES ASSUME NEW p \in 1..Len(log), NEW x \in Everyone
               PROVE  Names(log, x, server.misnamed, p) /\ Goes(log, x, p)
    BY DEF History
  <2>1. p \in 0..Len(log) /\ p - 1 \in 0..Len(log)
    BY <1>2
  <2> QED
    BY <1>2, <1>3, <2>1 DEF Names, Goes
<1>5. /\ server.queue = <<>> /\ server.phase = "parked" /\ server.ids = {} /\ server.waits = {}
      /\ turn.pc = "none" /\ turn.message = None /\ ups = {}
  BY DEF Init, Turn
<1>6. Now
  BY <1>2, <1>3, <1>5 DEF Now, NowOf, Running
<1>7. \A x : ~Queued(x)
  BY <1>5 DEF Queued
<1>8. QueueInv
  BY <1>5, <1>7 DEF QueueInv
<1>9. FreshInv /\ ReadInv /\ DoneInv
  BY <1>2, <1>3, <1>5, <1>7 DEF FreshInv, ReadInv, DoneInv, Unposted, Sending
<1> QED
  BY <1>1, <1>4, <1>6, <1>8, <1>9 DEF AInv

\* Every step preserves it.
LEMMA NextAInv == AInv /\ [Next]_vars => AInv'
<1> SUFFICES ASSUME AInv, [Next]_vars PROVE AInv'
  OBVIOUS
<1>1. IInv'
  BY NextIInv DEF AInv
<1>2. CASE UNCHANGED vars
  <2>1. UNCHANGED <<log, server, cursor, store, turn, reader, ups, budget>>
    BY <1>2 DEF vars
  <2> QED
    BY <1>1, <2>1, Kept DEF Quiet, Sending
<1>3. CASE ServerNext
  BY <1>1, <1>3, ServerNextA
<1>4. CASE ClientNext
  BY <1>1, <1>4, ConnectionStepsA, ReadResponseA, ReadOthersA, TurnStepsA, PostsA, FollowUpsA, LeftA
     DEF ClientNext, ReaderProgress, TurnProgress, UpProgress
<1>5. CASE UserNext
  <2>1. \A lost \in BOOLEAN : lost = TRUE \/ lost = FALSE
    OBVIOUS
  <2> QED
    BY <1>1, <1>5, <2>1, TypedA, PostsA, LeftA DEF UserNext
<1> QED
  BY <1>2, <1>3, <1>4, <1>5 DEF Next

\* The invariant of the session and its client.
THEOREM AnswerInvariant == Spec => []AInv
<1>1. Init => AInv
  BY InitAInv
<1>2. AInv /\ [Next]_vars => AInv'
  BY NextAInv
<1> QED
  BY <1>1, <1>2, PTL DEF Spec

\* A send that ended well has shown its message's whole turn.
THEOREM WholeAnswer == Spec => []AnswerShown
<1>1. AInv => AnswerShown
  <2> DEFINE m == turn.message
  <2> SUFFICES ASSUME AInv, ~Active, m # None, m \notin server.misnamed
               PROVE  /\ m \in server.turn => server.phase # "running"
                      /\ m \in server.waits => server.phase = "over"
                      /\ \A i \in DOMAIN server.queue : server.queue[i] # m
                      /\ \A e \in DOMAIN log : m \in log[e].of => e \in Shown(store)
    BY DEF AnswerShown
  <2>1. Done(m) /\ m \in Everyone
    BY Reached DEF AInv, DoneInv, Active, Everyone
  <2>2. NowOf(m) /\ ~Queued(m)
    BY <2>1, NowKnown DEF Done
  <2>3. DOMAIN log = 1..Len(log) /\ DOMAIN server.queue = 1..Len(server.queue)
    BY DEF AInv, IInv, Typed, SessionTypes, ServerType
  <2> QED
    BY <2>1, <2>2, <2>3 DEF Done, NowOf, Running, Queued
<1> QED
  BY <1>1, AnswerInvariant, PTL
=============================================================================
