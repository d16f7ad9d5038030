------------------------ MODULE AgentHandles_proofs ------------------------
(***************************************************************************)
(* Proofs about the agent handle store: for every set of agents, tasks,    *)
(* tool runs and concurrent calls, the stores keep their shape, no task at *)
(* work is forgotten by the session that started it or loses its lease,    *)
(* and every claim has an owner that will give it up.                      *)
(***************************************************************************)
EXTENDS AgentHandles, FiniteSetTheorems, SequenceTheorems, TLAPS

-----------------------------------------------------------------------------
(* The inductive invariant.                                                 *)

Stores == [Agents -> Handles]
CallType == [pc : CallPhases, task : Tasks \cup {Nobody}, agent : Agents \cup {Nobody},
             old : Owners \cup {Nobody}]
ScopeType == [on : BOOLEAN, store : Stores, calls : [Slots -> CallType]]
TurnType == [pc : {"parked", "inline", "run", "wait", "result", "settling", "crashed"},
             n : 0..MaxTurns, steps : 0..MaxSteps, cancelled : BOOLEAN]
TasksType == [Tasks -> [pc : {"none", "working", "ended"}, agent : Agents \cup {Nobody},
                        invoked : BOOLEAN]]
MailType == [kind : {"invoke", "settled", "view"}, task : Tasks, outcome : Outcomes \cup {"none"}]

\* A step's calls exist while a turn is stepping, and steer a task away only.
Steps ==
  /\ scope.on => turn.pc \in {"inline", "run"}
  /\ ~scope.on => scope = NoScope
  /\ \A k \in Slots : scope.calls[k].pc = "steering" => scope.calls[k].old \in Tasks

\* What the driver has indexed when it dispatches a turn, the turn keeps; an inline
\* turn that has indexed more no longer is one; between turns only the driver knows.
Indexes ==
  /\ turn.pc \in {"parked", "settling"} => mine.index = {}
  /\ turn.pc \in {"inline", "run", "wait", "result"} =>
       cursor.index = base.index /\ base.index \subseteq mine.index
  /\ turn.pc = "inline" => mine.index = base.index

\* Whoever is about to work, or works, for an agent names it.
Engaged == {"starting", "claimed", "steering", "settled"}
Named ==
  /\ \A k \in Slots : scope.calls[k].pc \in Engaged =>
       scope.calls[k].task \in Tasks /\ scope.calls[k].agent \in Agents
  /\ \A t \in Tasks : tasks[t].pc = "working" => tasks[t].agent \in Agents

IInv == TypeOK /\ Steps /\ Indexes /\ Named /\ TaskNotOrphaned

-----------------------------------------------------------------------------
(* The store's operations.                                                  *)

LEMMA HandleShapes ==
  /\ \A phase \in {"absent", "available", "parked", "reserved", "claimed"},
        o \in Owners \cup {Nobody}, c \in Nat : Handle(phase, o, c) \in Handles
  /\ Absent \in Handles /\ Available \in Handles /\ Parked \in Handles
  /\ \A outcome : SettledHandle(outcome) \in Handles
<1>1. \A phase \in {"absent", "available", "parked", "reserved", "claimed"},
        o \in Owners \cup {Nobody}, c \in Nat : Handle(phase, o, c) \in Handles
  BY DEF Handle, Handles
<1>2. Absent \in Handles /\ Available \in Handles /\ Parked \in Handles
  BY <1>1 DEF Absent, Available, Parked
<1>3. \A outcome : SettledHandle(outcome) \in Handles
  BY <1>2 DEF SettledHandle
<1> QED
  BY <1>1, <1>2, <1>3

\* Every command takes a store to a store.
LEMMA StoreShapes ==
  ASSUME NEW H \in Stores
  PROVE  /\ \A a \in Agents, o \in Owners, c \in Nat :
              reserve(H, a, o, c) \in Stores /\ claim(H, a, o, c) \in Stores
         /\ \A a \in Agents : \A o : confirm(H, a) \in Stores /\ remove(H, a, o) \in Stores
         /\ \A os : Released(H, os, Available) \in Stores /\ Released(H, os, Parked) \in Stores
         /\ \A o, c, outcome : settleTaskAgentInvocation(H, o, c, outcome) \in Stores
<1>1. \A a \in Agents, o \in Owners, c \in Nat :
        reserve(H, a, o, c) \in Stores /\ claim(H, a, o, c) \in Stores
  BY HandleShapes DEF Stores, reserve, claim
<1>2. \A a \in Agents : \A o : confirm(H, a) \in Stores /\ remove(H, a, o) \in Stores
  <2>1. \A a \in Agents : confirm(H, a) \in Stores
    BY DEF Stores, confirm, Handles
  <2>2. \A a \in Agents : \A o : remove(H, a, o) \in Stores
    BY HandleShapes DEF Stores, remove
  <2> QED
    BY <2>1, <2>2
<1>3. \A os : Released(H, os, Available) \in Stores /\ Released(H, os, Parked) \in Stores
  BY HandleShapes DEF Stores, Released
<1>4. \A o, c, outcome : settleTaskAgentInvocation(H, o, c, outcome) \in Stores
  BY HandleShapes DEF Stores, settleTaskAgentInvocation
<1> QED
  BY <1>1, <1>2, <1>3, <1>4

\* dispatchAgentInvocation returns stores.
LEMMA DispatchShapes ==
  ASSUME NEW H \in Stores, NEW a \in Agents, NEW o \in Owners, NEW c \in Nat
  PROVE  dispatchAgentInvocation(H, a, o, c) \subseteq Stores
<1> DEFINE r == reserve(H, a, o, c)
           d == claim(H, a, o, c)
<1>1. r \in Stores /\ d \in Stores
  BY StoreShapes
<1>2. /\ confirm(r, a) \in Stores /\ remove(r, a, o) \in Stores /\ remove(d, a, o) \in Stores
  <2> HIDE DEF r, d
  <2> QED
    BY <1>1, StoreShapes
<1>3. \A S \in dispatchAgentInvocation(H, a, o, c) : S \in {confirm(r, a), remove(r, a, o), d, remove(d, a, o), H}
  <2>1. dispatchAgentInvocation(H, a, o, c) =
          IF H[a] = Absent \/ H[a] = Handle("reserved", o, c) THEN {confirm(r, a), remove(r, a, o)}
          ELSE IF d[a] = Handle("claimed", o, c) THEN {d, remove(d, a, o)} ELSE {H}
    BY DEF dispatchAgentInvocation
  <2> HIDE DEF r, d
  <2> QED
    BY <2>1
<1> QED
  <2> HIDE DEF r, d
  <2> QED
    BY <1>1, <1>2, <1>3

-----------------------------------------------------------------------------
(* Every step keeps the invariant.                                          *)

LEMMA Types ==
  /\ TypeOK <=> /\ cursor \in Session /\ base \in Session /\ mine \in Session /\ turn \in TurnType
                /\ scope \in ScopeType /\ tasks \in TasksType /\ calls \in [Runs -> SUBSET (1..MaxCalls)]
                /\ mail \in Seq(MailType) /\ used \subseteq Agents \cup Tasks
  /\ TypeOK' <=> /\ cursor' \in Session /\ base' \in Session /\ mine' \in Session /\ turn' \in TurnType
                 /\ scope' \in ScopeType /\ tasks' \in TasksType /\ calls' \in [Runs -> SUBSET (1..MaxCalls)]
                 /\ mail' \in Seq(MailType) /\ used' \subseteq Agents \cup Tasks
BY DEF TypeOK, TurnType, ScopeType, TasksType, MailType, CallType, Stores

\* Nothing is going on between steps, and nothing is known before the first turn.
LEMMA Nothing ==
  /\ NoScope \in ScopeType /\ NoSession \in Session /\ NoScope.on = FALSE
  /\ \A k \in Slots : NoScope.calls[k].pc = "idle"
  /\ scope = NoScope => NewTasks = {}
<1>1. Idle \in CallType /\ Idle.pc = "idle"
  BY DEF Idle, CallType, CallPhases
<1>2. NoScope \in ScopeType /\ NoScope.on = FALSE
  BY <1>1, HandleShapes DEF NoScope, ScopeType, Stores
<1>3. \A k \in Slots : NoScope.calls[k].pc = "idle"
  BY <1>1 DEF NoScope
<1>4. NoSession \in Session
  BY HandleShapes DEF NoSession, Session
<1>5. scope = NoScope => NewTasks = {}
  BY <1>3 DEF NewTasks, CallsOf
<1> QED
  BY <1>2, <1>3, <1>4, <1>5

LEMMA InitIInv == Init => IInv
<1> SUFFICES ASSUME Init PROVE IInv
  OBVIOUS
<1> DEFINE a == Fresh(Agents)
           t == Fresh(Tasks)
<1>1. a \in Agents /\ t \in Tasks
  BY HandleConstants DEF Fresh
<1> HIDE DEF a, t
<1>2. PICK h \in {Absent, Available, Parked, Handle("claimed", t, 1)} :
        LET owned == h.owner = t
        IN /\ cursor = [handles |-> [x \in Agents |-> IF x = a THEN h ELSE Absent],
                        index |-> IF owned THEN {t} ELSE {}, runs |-> {}]
           /\ tasks = [x \in Tasks |->
                IF owned /\ x = t THEN [pc |-> "working", agent |-> a, invoked |-> TRUE]
                ELSE [pc |-> "none", agent |-> Nobody, invoked |-> FALSE]]
           /\ used = (IF h = Absent THEN {} ELSE {a}) \cup (IF owned THEN {t} ELSE {})
  BY DEF Init, a, t
<1>3. /\ base = NoSession /\ mine = NoSession /\ turn = Between("parked", 0) /\ scope = NoScope
      /\ mail = <<>> /\ calls = [r \in Runs |-> {}]
  BY DEF Init
<1>4. h \in Handles
  BY <1>1, HandleShapes DEF Owners
<1>5. TypeOK
  <2>1. cursor \in Session
    BY <1>1, <1>2, <1>4, HandleShapes DEF Session
  <2>2. tasks \in TasksType
    BY <1>1, <1>2 DEF TasksType
  <2>3. used \subseteq Agents \cup Tasks
    BY <1>1, <1>2
  <2>4. turn \in TurnType
    BY <1>3, HandleConstants DEF TurnType, Between
  <2>5. mail \in Seq(MailType) /\ calls \in [Runs -> SUBSET (1..MaxCalls)]
    BY <1>3
  <2> QED
    BY <1>3, <2>1, <2>2, <2>3, <2>4, <2>5, Nothing, Types
<1>6. turn.pc = "parked"
  BY <1>3 DEF Between
<1>7. Steps
  BY <1>3, Nothing DEF Steps
<1>8. Indexes
  BY <1>3, <1>6 DEF Indexes, NoSession
<1>9. \A x \in Tasks : tasks[x].pc = "working" => x \in cursor.index /\ tasks[x].agent \in Agents
  BY <1>1, <1>2
<1>10. Named
  BY <1>3, <1>9, Nothing DEF Named, Engaged
<1> QED
  BY <1>5, <1>7, <1>8, <1>9, <1>10 DEF IInv, TaskNotOrphaned

\* A background task, or a message of one, changes no index.
LEMMA TasksMove ==
  ASSUME IInv, UNCHANGED <<base, mine, turn, scope>>, cursor' \in Session, cursor'.index = cursor.index,
         tasks' \in TasksType,
         \A t \in Tasks : tasks'[t].pc = "working" =>
           tasks[t].pc = "working" /\ tasks'[t].agent = tasks[t].agent,
         calls' \in [Runs -> SUBSET (1..MaxCalls)], mail' \in Seq(MailType),
         used' \subseteq Agents \cup Tasks
  PROVE  IInv'
<1>1. TypeOK'
  BY Types DEF IInv
<1>2. Steps'
  BY DEF IInv, Steps
<1>3. Indexes'
  BY DEF IInv, Indexes
<1>4. NewTasks' = NewTasks
  BY DEF NewTasks, CallsOf
<1>5. TaskNotOrphaned'
  BY <1>4 DEF IInv, TaskNotOrphaned
<1>6. Named'
  BY DEF IInv, Named
<1> QED
  BY <1>1, <1>2, <1>3, <1>5, <1>6 DEF IInv

\* A tool call that has no task at work yet moves on: only the task it starts
\* becomes one at work, and the step remembers it.
LEMMA CallMoves ==
  ASSUME IInv, NEW k \in Slots, NEW X \in CallType, scope.on, scope.calls[k].pc # "settled",
         scope' \in ScopeType, scope'.on, scope'.calls = [scope.calls EXCEPT ![k] = X],
         X.pc = "steering" => X.old \in Tasks,
         X.pc \in Engaged => X.task \in Tasks /\ X.agent \in Agents,
         tasks' \in TasksType,
         \A t \in Tasks : tasks'[t].pc = "working" =>
           \/ tasks[t].pc = "working" /\ tasks'[t].agent = tasks[t].agent
           \/ X.pc = "settled" /\ X.task = t /\ tasks'[t].agent \in Agents,
         UNCHANGED <<cursor, base, mine, turn, calls>>, mail' \in Seq(MailType),
         used' \subseteq Agents \cup Tasks
  PROVE  IInv'
<1>1. TypeOK'
  BY Types DEF IInv
<1>2. scope.calls \in [Slots -> CallType]
  BY Types DEF IInv, ScopeType
<1>3. \A j \in Slots : scope'.calls[j] = IF j = k THEN X ELSE scope.calls[j]
  BY <1>2
<1>4. Steps'
  BY <1>3 DEF IInv, Steps
<1>5. Indexes'
  BY DEF IInv, Indexes
<1>6. Named'
  BY <1>3 DEF IInv, Named
<1>7. /\ NewTasks \subseteq NewTasks'
      /\ X.pc = "settled" => X.task \in NewTasks'
  BY <1>3 DEF NewTasks, CallsOf
<1>8. TaskNotOrphaned'
  BY <1>7 DEF IInv, TaskNotOrphaned
<1> QED
  BY <1>1, <1>4, <1>5, <1>6, <1>8 DEF IInv

\* What a call in progress is.
LEMMA CallShapes ==
  ASSUME IInv, NEW k \in Slots
  PROVE  /\ scope.calls[k] \in CallType /\ scope.store \in Stores
         /\ scope.calls[k].pc # "idle" => scope.on
<1>1. scope.calls[k] \in CallType /\ scope.store \in Stores
  BY Types DEF IInv, ScopeType
<1>2. scope.calls[k].pc # "idle" => scope.on
  BY Nothing DEF IInv, Steps
<1> QED
  BY <1>1, <1>2

\* Writing one call, and the store with it, leaves a scope.
LEMMA SetCalls ==
  ASSUME IInv, NEW k \in Slots, NEW X \in CallType, NEW Y \in Stores,
         \/ scope' = [scope EXCEPT !.calls[k] = X]
         \/ scope' = [[scope EXCEPT !.calls[k] = X] EXCEPT !.store = Y]
  PROVE  scope' \in ScopeType /\ scope'.on = scope.on /\ scope'.calls = [scope.calls EXCEPT ![k] = X]
<1>1. scope \in [on : BOOLEAN, store : Stores, calls : [Slots -> CallType]]
  BY Types DEF IInv, ScopeType
<1> DEFINE S == [scope EXCEPT !.calls[k] = X]
<1>2. /\ S \in [on : BOOLEAN, store : Stores, calls : [Slots -> CallType]] /\ S.on = scope.on
      /\ S.calls = [scope.calls EXCEPT ![k] = X]
  BY <1>1
<1>3. scope' = S \/ scope' = [S EXCEPT !.store = Y]
  OBVIOUS
<1> HIDE DEF S
<1> QED
  BY <1>2, <1>3 DEF ScopeType

LEMMA StartsFresh ==
  ASSUME IInv, NEW k \in Slots, NEW t \in Tasks, NEW a \in Agents, CallStartsFresh(k, t, a)
  PROVE  IInv'
<1> DEFINE X == [pc |-> "starting", task |-> t, agent |-> a, old |-> Nobody]
           Y == reserve(scope.store, a, t, 1)
<1>1. /\ scope.on /\ scope.calls[k].pc # "settled" /\ used' = used \cup {t, a}
      /\ scope' = [[scope EXCEPT !.calls[k] = X] EXCEPT !.store = Y]
      /\ UNCHANGED <<cursor, base, mine, turn, tasks, calls, mail>>
  BY Nothing DEF CallStartsFresh, Calls, SetCall, Idle
<1>2. X \in CallType
  BY DEF CallType, CallPhases
<1>3. Y \in Stores
  BY StoreShapes, CallShapes DEF Owners
<1>4. scope' \in ScopeType /\ scope'.on /\ scope'.calls = [scope.calls EXCEPT ![k] = X]
  <2> HIDE DEF X, Y
  <2> QED
    BY <1>1, <1>2, <1>3, SetCalls
<1>5. tasks' \in TasksType /\ mail' \in Seq(MailType) /\ used' \subseteq Agents \cup Tasks
  BY <1>1, Types DEF IInv
<1> QED
  BY <1>1, <1>2, <1>4, <1>5, CallMoves

LEMMA Resumes ==
  ASSUME IInv, NEW k \in Slots, NEW t \in Tasks, NEW a \in Agents, CallResumes(k, t, a)
  PROVE  IInv'
<1> DEFINE h == scope.store[a]
           X(pc, o) == [pc |-> pc, task |-> t, agent |-> a, old |-> o]
           Y == claim(scope.store, a, t, 1)
<1>1. /\ scope.on /\ scope.calls[k].pc # "settled" /\ used' = used \cup {t}
      /\ UNCHANGED <<cursor, base, mine, turn, tasks, calls, mail>>
  BY DEF CallResumes, Calls, Idle
<1>2. \/ scope' = [[scope EXCEPT !.calls[k] = X("claimed", Nobody)] EXCEPT !.store = Y]
      \/ scope' = [scope EXCEPT !.calls[k] = X("steering", h.owner)] /\ h.owner \in mine.index
      \/ scope' = [scope EXCEPT !.calls[k] = X("failed", h.owner)]
  BY DEF CallResumes, SetCall
<1>3. Y \in Stores /\ h \in Handles /\ mine.index \subseteq Tasks
  BY StoreShapes, CallShapes, Types DEF Owners, Stores, Session, IInv
<1>4. \A pc \in CallPhases, o \in Owners \cup {Nobody} : X(pc, o) \in CallType
  BY DEF CallType
<1>5. h.owner \in Owners \cup {Nobody}
  BY <1>3 DEF Handles
<1>6. tasks' \in TasksType /\ mail' \in Seq(MailType) /\ used' \subseteq Agents \cup Tasks
  BY <1>1, Types DEF IInv
<1>7. CASE scope' = [[scope EXCEPT !.calls[k] = X("claimed", Nobody)] EXCEPT !.store = Y]
  <2> DEFINE Z == X("claimed", Nobody)
  <2>1. Z \in CallType
    BY <1>4 DEF CallPhases
  <2>2. scope' \in ScopeType /\ scope'.on /\ scope'.calls = [scope.calls EXCEPT ![k] = Z]
    <3>1. scope' = [[scope EXCEPT !.calls[k] = Z] EXCEPT !.store = Y] /\ Y \in Stores
      BY <1>3, <1>7
    <3> HIDE DEF Z, Y
    <3> QED
      BY <1>1, <2>1, <3>1, SetCalls
  <2> QED
    BY <1>1, <1>6, <2>1, <2>2, CallMoves
<1>8. CASE scope' = [scope EXCEPT !.calls[k] = X("steering", h.owner)] /\ h.owner \in mine.index
  <2> DEFINE Z == X("steering", h.owner)
  <2>1. Z \in CallType /\ Z.old \in Tasks
    BY <1>3, <1>4, <1>5, <1>8 DEF CallPhases
  <2>2. scope' \in ScopeType /\ scope'.on /\ scope'.calls = [scope.calls EXCEPT ![k] = Z]
    BY <1>1, <1>3, <1>8, <2>1, SetCalls
  <2> QED
    BY <1>1, <1>6, <2>1, <2>2, CallMoves
<1>9. CASE scope' = [scope EXCEPT !.calls[k] = X("failed", h.owner)]
  <2> DEFINE Z == X("failed", h.owner)
  <2>1. Z \in CallType /\ Z.pc \notin Engaged
    BY <1>4, <1>5 DEF CallPhases, Engaged
  <2>2. scope' \in ScopeType /\ scope'.on /\ scope'.calls = [scope.calls EXCEPT ![k] = Z]
    BY <1>1, <1>3, <1>9, <2>1, SetCalls
  <2> QED
    BY <1>1, <1>6, <2>1, <2>2, CallMoves
<1> QED
  BY <1>2, <1>7, <1>8, <1>9

\* The task an agent is taken from is over, and has told the session.
LEMMA EndedShapes ==
  ASSUME IInv, NEW t \in Tasks
  PROVE  /\ Ended(t) \in TasksType /\ Told(t) \in Seq(MailType)
         /\ \A x \in Tasks : Ended(t)[x].pc = "working" =>
              tasks[x].pc = "working" /\ Ended(t)[x].agent = tasks[x].agent
<1>1. tasks \in TasksType /\ mail \in Seq(MailType)
  BY Types DEF IInv
<1>2. Ended(t) \in TasksType
  BY <1>1 DEF Ended, TasksType
<1>3. \A x \in Tasks : Ended(t)[x] = IF x = t THEN [tasks[t] EXCEPT !.pc = "ended"] ELSE tasks[x]
  BY <1>1 DEF Ended, TasksType
<1>4. \A x \in Tasks : Ended(t)[x].pc = "working" =>
        tasks[x].pc = "working" /\ Ended(t)[x].agent = tasks[x].agent
  <2>1. Ended(t)[t].pc = "ended"
    BY <1>1, <1>3 DEF TasksType
  <2> QED
    BY <1>3, <2>1
<1>5. [kind |-> "view", task |-> t, outcome |-> "none"] \in MailType
  BY DEF MailType
<1>6. Told(t) \in Seq(MailType)
  BY <1>1, <1>5 DEF Told
<1> QED
  BY <1>2, <1>4, <1>6

LEMMA Steers ==
  ASSUME IInv, NEW k \in Slots, CallSteers(k)
  PROVE  IInv'
<1> DEFINE c == scope.calls[k]
           Y == claim(releaseOwner(scope.store, c.old), c.agent, c.task, 1)
           X == [pc |-> IF LeasedTo(Y[c.agent], c.task) THEN "claimed" ELSE "failed",
                 task |-> c.task, agent |-> c.agent, old |-> Nobody]
<1>1. /\ c.pc = "steering" /\ scope' = [[scope EXCEPT !.calls[k] = X] EXCEPT !.store = Y]
      /\ tasks' = Ended(c.old) /\ mail' = Told(c.old)
      /\ UNCHANGED <<cursor, base, mine, turn, calls, used>>
  BY DEF CallSteers, SetCall
<1>2. c.old \in Tasks /\ c.task \in Tasks /\ c.agent \in Agents
  BY <1>1 DEF IInv, Steps, Named, Engaged
<1>3. Y \in Stores
  <2>1. releaseOwner(scope.store, c.old) \in Stores
    BY StoreShapes, CallShapes DEF releaseOwner
  <2> QED
    BY <1>2, <2>1, StoreShapes DEF Owners
<1>4. X \in CallType /\ X.pc # "steering" /\ X.pc # "settled" /\ X.task \in Tasks /\ X.agent \in Agents
  <2> HIDE DEF Y
  <2> QED
    BY <1>2 DEF CallType, CallPhases
<1>5. scope' \in ScopeType /\ scope'.on /\ scope'.calls = [scope.calls EXCEPT ![k] = X]
  <2>1. scope.on
    BY <1>1, CallShapes
  <2> HIDE DEF X, Y
  <2> QED
    BY <1>1, <1>3, <1>4, <2>1, SetCalls
<1>6. used' \subseteq Agents \cup Tasks /\ scope.on
  BY <1>1, Types, CallShapes DEF IInv
<1>7. /\ tasks' \in TasksType /\ mail' \in Seq(MailType)
      /\ \A x \in Tasks : tasks'[x].pc = "working" =>
           tasks[x].pc = "working" /\ tasks'[x].agent = tasks[x].agent
  BY <1>1, <1>2, EndedShapes
<1> HIDE DEF X, Y
<1> QED
  BY <1>1, <1>4, <1>5, <1>6, <1>7, CallMoves

LEMMA SteeringThrows ==
  ASSUME IInv, NEW k \in Slots, CallSteeringThrows(k)
  PROVE  IInv'
<1> DEFINE X == [scope.calls[k] EXCEPT !.pc = "failed"]
<1>1. /\ scope.calls[k].pc = "steering" /\ scope' = [scope EXCEPT !.calls[k] = X]
      /\ UNCHANGED <<cursor, base, mine, turn, tasks, calls, mail, used>>
  BY DEF CallSteeringThrows
<1>2. X \in CallType /\ X.pc = "failed" /\ scope.on /\ scope.store \in Stores
  BY <1>1, CallShapes DEF CallType, CallPhases
<1>3. scope' \in ScopeType /\ scope'.on /\ scope'.calls = [scope.calls EXCEPT ![k] = X]
  <2> HIDE DEF X
  <2> QED
    BY <1>1, <1>2, SetCalls
<1>4. tasks' \in TasksType /\ mail' \in Seq(MailType) /\ used' \subseteq Agents \cup Tasks
  BY <1>1, Types DEF IInv
<1> HIDE DEF X
<1> QED
  BY <1>1, <1>2, <1>3, <1>4, CallMoves DEF Engaged

LEMMA StartThrows ==
  ASSUME IInv, NEW k \in Slots, RunStartThrows(k)
  PROVE  IInv'
<1> DEFINE X == [scope.calls[k] EXCEPT !.pc = IF @ = "starting" THEN "failed" ELSE "unclaimed"]
<1>1. /\ scope.calls[k].pc \in {"starting", "claimed"} /\ scope' = [scope EXCEPT !.calls[k] = X]
      /\ UNCHANGED <<cursor, base, mine, turn, tasks, calls, mail, used>>
  BY DEF RunStartThrows
<1>2. X \in CallType /\ X.pc \in {"failed", "unclaimed"} /\ scope.on /\ scope.store \in Stores
  BY <1>1, CallShapes DEF CallType, CallPhases
<1>3. scope' \in ScopeType /\ scope'.on /\ scope'.calls = [scope.calls EXCEPT ![k] = X]
  <2> HIDE DEF X
  <2> QED
    BY <1>1, <1>2, SetCalls
<1>4. tasks' \in TasksType /\ mail' \in Seq(MailType) /\ used' \subseteq Agents \cup Tasks
  BY <1>1, Types DEF IInv
<1> HIDE DEF X
<1> QED
  BY <1>1, <1>2, <1>3, <1>4, CallMoves DEF Engaged

LEMMA Started ==
  ASSUME IInv, NEW k \in Slots, RunStarts(k)
  PROVE  IInv'
<1> DEFINE X == [scope.calls[k] EXCEPT !.pc = "settled"]
           t == scope.calls[k].task
<1>1. /\ scope.calls[k].pc \in {"starting", "claimed"} /\ scope' = [scope EXCEPT !.calls[k] = X]
      /\ tasks' = [tasks EXCEPT ![t] = [pc |-> "working", agent |-> scope.calls[k].agent,
                                          invoked |-> FALSE]]
      /\ UNCHANGED <<cursor, base, mine, turn, calls, mail, used>>
  BY DEF RunStarts
<1>2. /\ X \in CallType /\ X.pc = "settled" /\ X.task = t /\ scope.on /\ scope.store \in Stores
      /\ scope.calls[k].pc # "settled"
  BY <1>1, CallShapes DEF CallType, CallPhases
<1>3. scope' \in ScopeType /\ scope'.on /\ scope'.calls = [scope.calls EXCEPT ![k] = X]
  <2> HIDE DEF X
  <2> QED
    BY <1>1, <1>2, SetCalls
<1>4. t \in Tasks /\ scope.calls[k].agent \in Agents
  BY <1>1 DEF IInv, Named, Engaged
<1>5. /\ tasks' \in TasksType /\ mail' \in Seq(MailType) /\ used' \subseteq Agents \cup Tasks
      /\ \A x \in Tasks : x # t => tasks'[x] = tasks[x]
      /\ tasks'[t].agent \in Agents
  BY <1>1, <1>4, Types DEF IInv, TasksType
<1>6. \A x \in Tasks : tasks'[x].pc = "working" =>
        \/ tasks[x].pc = "working" /\ tasks'[x].agent = tasks[x].agent
        \/ X.pc = "settled" /\ X.task = x /\ tasks'[x].agent \in Agents
  BY <1>2, <1>5
<1>7. X.task \in Tasks /\ X.agent \in Agents
  BY <1>2, <1>4, CallShapes DEF CallType
<1> HIDE DEF X, t
<1> QED
  BY <1>1, <1>2, <1>3, <1>4, <1>5, <1>6, <1>7, CallMoves DEF Engaged

-----------------------------------------------------------------------------
(* The turn and the driver.                                                 *)

\* A step of the turn or of the driver that leaves tasks alone may end the step of
\* the turn, as long as every task known before is known after.
LEMMA TurnMoves ==
  ASSUME IInv, turn.pc # "crashed",
         cursor' \in Session, base' \in Session, mine' \in Session, turn' \in TurnType,
         calls' \in [Runs -> SUBSET (1..MaxCalls)], mail' \in Seq(MailType),
         used' \subseteq Agents \cup Tasks, UNCHANGED tasks,
         scope' \in ScopeType, \A k \in Slots : scope'.calls[k].pc = "idle",
         scope'.on => turn'.pc \in {"inline", "run"}, ~scope'.on => scope' = NoScope,
         Indexes',
         turn'.pc # "crashed" =>
           cursor.index \cup mine.index \cup NewTasks \subseteq cursor'.index \cup mine'.index
  PROVE  IInv'
<1>1. TypeOK'
  BY Types DEF IInv
<1>2. Steps'
  BY DEF Steps
<1>3. Named'
  BY DEF Named, Engaged, IInv
<1>4. TaskNotOrphaned'
  BY DEF IInv, TaskNotOrphaned
<1> QED
  BY <1>1, <1>2, <1>3, <1>4 DEF IInv

\* What a step leaves when it is committed.
LEMMA CommittedShapes ==
  ASSUME IInv
  PROVE  /\ Committed \in Session /\ Committed.index = mine.index \cup NewTasks
         /\ NewTasks \subseteq Tasks
         /\ \A rs \in SUBSET Runs : [Committed EXCEPT !.runs = rs] \in Session
                                /\ [Committed EXCEPT !.runs = rs].index = Committed.index
<1>1. NewTasks \subseteq Tasks
  BY DEF NewTasks, CallsOf, IInv, Named, Engaged
<1>2. mine \in Session /\ scope.store \in Stores
  BY Types DEF IInv, ScopeType
<1>3. Released(scope.store, Unclaimed, Available) \in Stores
  BY <1>2, StoreShapes
<1>4. Committed \in Session /\ Committed.index = mine.index \cup NewTasks
  BY <1>1, <1>2, <1>3 DEF Committed, Session, Stores
<1>5. \A rs \in SUBSET Runs : [Committed EXCEPT !.runs = rs] \in Session
                           /\ [Committed EXCEPT !.runs = rs].index = Committed.index
  BY <1>4 DEF Session
<1> QED
  BY <1>1, <1>4, <1>5

\* A step that ends, with its state committed and every task it started in it.
LEMMA StepEnds ==
  ASSUME IInv, NEW pc \in {"inline", "run", "wait", "result"}, NEW c \in BOOLEAN,
         StepDone, EndsStep(pc, c), mine' \in Session, mine'.index = Committed.index,
         cursor' = cursor \/ (cursor' = mine' /\ turn.pc = "inline" /\ NewTasks = {}),
         pc = "inline" => turn.pc = "inline" /\ NewTasks = {}
  PROVE  IInv'
<1>1. /\ scope.on /\ scope' = NoScope /\ turn' = [turn EXCEPT !.pc = pc, !.cancelled = c]
      /\ UNCHANGED <<base, tasks, calls, mail, used>>
  BY DEF StepDone, EndsStep
<1>2. turn.pc \in {"inline", "run"}
  BY <1>1 DEF IInv, Steps
<1>3. turn' \in TurnType /\ turn'.pc = pc
  BY <1>1, Types DEF IInv, TurnType
<1>4. /\ cursor.index = base.index /\ base.index \subseteq mine.index
      /\ turn.pc = "inline" => mine.index = base.index
  BY <1>2 DEF IInv, Indexes
<1>5. mine'.index = mine.index \cup NewTasks
  BY CommittedShapes
<1>6. Indexes'
  BY <1>1, <1>3, <1>4, <1>5 DEF Indexes
<1>7. /\ cursor' \in Session /\ base' \in Session /\ calls' \in [Runs -> SUBSET (1..MaxCalls)]
      /\ mail' \in Seq(MailType) /\ used' \subseteq Agents \cup Tasks
  BY <1>1, Types DEF IInv
<1> QED
  BY <1>1, <1>2, <1>3, <1>4, <1>5, <1>6, <1>7, Nothing, TurnMoves

\* The ways a step ends.
LEMMA StepEndings ==
  ASSUME IInv,
         \/ InlineContinues \/ InlineHandsOver \/ RunContinues
         \/ \E cancelled \in BOOLEAN : StepSettles(cancelled)
         \/ \E rs \in SUBSET Runs : DispatchRuns(rs)
  PROVE  IInv'
<1>1. CASE InlineContinues
  BY <1>1, CommittedShapes, StepEnds DEF InlineContinues
<1>2. CASE InlineHandsOver
  BY <1>2, CommittedShapes, StepEnds DEF InlineHandsOver
<1>3. CASE RunContinues
  BY <1>3, CommittedShapes, StepEnds DEF RunContinues
<1>4. ASSUME NEW c \in BOOLEAN, StepSettles(c) PROVE IInv'
  BY <1>4, CommittedShapes, StepEnds DEF StepSettles
<1>5. ASSUME NEW rs \in SUBSET Runs, DispatchRuns(rs) PROVE IInv'
  BY <1>5, CommittedShapes, StepEnds DEF DispatchRuns
<1> QED
  BY <1>1, <1>2, <1>3, <1>4, <1>5

\* Outside a step there is no call, so no task the session does not know of.
LEMMA OutsideStep ==
  ASSUME IInv, ~scope.on
  PROVE  /\ scope = NoScope /\ NewTasks = {} /\ scope \in ScopeType
         /\ \A k \in Slots : scope.calls[k].pc = "idle"
BY Nothing, Types DEF IInv, Steps

LEMMA StepBegins ==
  ASSUME IInv, BeginStep PROVE IInv'
<1>1. /\ turn.pc \in {"inline", "run"} /\ ~scope.on /\ turn.steps < MaxSteps
      /\ scope' = [NoScope EXCEPT !.on = TRUE, !.store = mine.handles]
      /\ turn' = [turn EXCEPT !.steps = @ + 1]
      /\ UNCHANGED <<cursor, base, mine, tasks, calls, mail, used>>
  BY DEF BeginStep, Stepping
<1>2. scope' \in ScopeType /\ scope'.on /\ scope'.calls = NoScope.calls
  <2>1. mine.handles \in Stores
    BY Types DEF IInv, Session, Stores
  <2>2. NoScope \in [on : BOOLEAN, store : Stores, calls : [Slots -> CallType]]
    BY Nothing DEF ScopeType
  <2> QED
    BY <1>1, <2>1, <2>2 DEF ScopeType
<1>3. turn' \in TurnType /\ turn'.pc = turn.pc
  BY <1>1, Types, HandleConstants DEF IInv, TurnType
<1>4. Indexes'
  BY <1>1, <1>3 DEF IInv, Indexes
<1>5. /\ cursor' \in Session /\ base' \in Session /\ mine' \in Session
      /\ calls' \in [Runs -> SUBSET (1..MaxCalls)]
      /\ mail' \in Seq(MailType) /\ used' \subseteq Agents \cup Tasks
  BY <1>1, Types DEF IInv
<1> QED
  BY <1>1, <1>2, <1>3, <1>4, <1>5, Nothing, OutsideStep, TurnMoves

\* The turn moves on outside a step and keeps what it has indexed.
LEMMA TurnGoesOn ==
  ASSUME IInv, turn.pc \in {"inline", "run", "wait", "result"}, ~scope.on, UNCHANGED <<cursor, base, scope, tasks, mail>>,
         turn' \in TurnType, turn'.pc \in {"run", "wait", "result"},
         mine' \in Session,
         mine'.index = mine.index \/ (turn.pc = "inline" /\ mine'.index = base.index),
         calls' \in [Runs -> SUBSET (1..MaxCalls)], used' \subseteq Agents \cup Tasks
  PROVE  IInv'
<1>1. Indexes'
  BY DEF IInv, Indexes
<1>2. cursor.index \cup mine.index \cup NewTasks \subseteq cursor'.index \cup mine'.index
  BY OutsideStep DEF IInv, Indexes
<1>3. cursor' \in Session /\ base' \in Session /\ mail' \in Seq(MailType)
  BY Types DEF IInv
<1> QED
  BY <1>1, <1>2, <1>3, OutsideStep, TurnMoves

LEMMA Waiting ==
  ASSUME IInv, turn.pc \in {"wait", "result", "parked", "settling"}
  PROVE  ~scope.on
BY DEF IInv, Steps

LEMMA InlineDefersIInv ==
  ASSUME IInv, InlineDefers \/ TurnEnds \/ WaitCancelled
  PROVE  IInv'
<1>1. /\ turn.pc \in {"inline", "run", "wait"} /\ ~scope.on
      /\ mine' = mine \/ (turn.pc = "inline" /\ mine' = base)
      /\ UNCHANGED <<cursor, base, scope, tasks, calls, mail, used>>
  BY Waiting DEF InlineDefers, TurnEnds, WaitCancelled, Stepping, others
<1>2. turn' \in TurnType /\ turn'.pc \in {"run", "result"}
  <2>1. turn \in TurnType
    BY Types DEF IInv
  <2> QED
    BY <2>1 DEF InlineDefers, TurnEnds, WaitCancelled, TurnType
<1>3. mine' \in Session /\ calls' \in [Runs -> SUBSET (1..MaxCalls)] /\ used' \subseteq Agents \cup Tasks
  BY <1>1, Types DEF IInv
<1> QED
  BY <1>1, <1>2, <1>3, TurnGoesOn

\* Another store leaves a session, with its index and runs.
LEMMA SetHandles ==
  ASSUME NEW s \in Session, NEW H \in Stores
  PROVE  /\ [s EXCEPT !.handles = H] \in Session /\ [s EXCEPT !.handles = H].index = s.index
         /\ \A rs \in SUBSET Runs :
              /\ [s EXCEPT !.runs = rs, !.handles = H] \in Session
              /\ [s EXCEPT !.runs = rs, !.handles = H].index = s.index
BY DEF Session, Stores

\* One more call of a run stays within its bound.
LEMMA OneMoreCall ==
  ASSUME NEW S \in SUBSET (1..MaxCalls), Cardinality(S) < MaxCalls
  PROVE  Cardinality(S) + 1 \in 1..MaxCalls
<1>1. IsFiniteSet(1..MaxCalls)
  BY HandleConstants, FS_Interval
<1>2. Cardinality(S) \in Nat
  BY <1>1, FS_Subset, FS_CardinalityType
<1> QED
  BY <1>2, HandleConstants

LEMMA RunRequests ==
  ASSUME IInv, NEW r \in Runs, NEW a \in Agents, handleWorkflowToolRunRequest(r, a)
  PROVE  IInv'
<1> DEFINE n == Cardinality(calls[r])
<1>1. /\ turn.pc = "wait" /\ n < MaxCalls
      /\ calls' = [calls EXCEPT ![r] = @ \cup {n + 1}] /\ used' = used \cup {a}
      /\ UNCHANGED <<turn, cursor, base, scope, tasks, mail>>
  BY DEF handleWorkflowToolRunRequest, others
<1>2. mine \in Session /\ mine.handles \in Stores /\ calls \in [Runs -> SUBSET (1..MaxCalls)]
  BY Types DEF IInv, Session, Stores
<1>3. n + 1 \in 1..MaxCalls
  BY <1>1, <1>2, OneMoreCall
<1>4. PICK H \in dispatchAgentInvocation(mine.handles, a, r, n + 1) : mine' = [mine EXCEPT !.handles = H]
  BY DEF handleWorkflowToolRunRequest
<1>5. H \in Stores
  BY <1>2, <1>3, <1>4, DispatchShapes DEF Owners
<1>6. mine' \in Session /\ mine'.index = mine.index
  BY <1>2, <1>4, <1>5, SetHandles
<1>7. calls' \in [Runs -> SUBSET (1..MaxCalls)] /\ used' \subseteq Agents \cup Tasks /\ turn' \in TurnType
  <2> HIDE DEF n
  <2> QED
    BY <1>1, <1>2, <1>3, Types DEF IInv
<1> QED
  BY <1>1, <1>6, <1>7, Waiting, TurnGoesOn

LEMMA RunSettles ==
  ASSUME IInv, NEW r \in Runs, NEW c, NEW o, SettleRunInvocation(r, c, o)
  PROVE  IInv'
<1>1. /\ turn.pc = "wait" /\ UNCHANGED <<turn, calls, used, cursor, base, scope, tasks, mail>>
      /\ mine' = [mine EXCEPT !.handles = settleTaskAgentInvocation(mine.handles, r, c, o)]
  BY DEF SettleRunInvocation, others
<1>2. mine \in Session /\ mine.handles \in Stores
  BY Types DEF IInv, Session, Stores
<1>3. settleTaskAgentInvocation(mine.handles, r, c, o) \in Stores
  BY <1>2, StoreShapes
<1>4. mine' \in Session /\ mine'.index = mine.index
  BY <1>1, <1>2, <1>3, SetHandles
<1>5. calls' \in [Runs -> SUBSET (1..MaxCalls)] /\ used' \subseteq Agents \cup Tasks /\ turn' \in TurnType
  BY <1>1, Types DEF IInv
<1> QED
  BY <1>1, <1>4, <1>5, Waiting, TurnGoesOn

LEMMA RunOutcome ==
  ASSUME IInv, NEW r \in Runs, NEW cancelled \in BOOLEAN, handleWorkflowToolRunOutcome(r, cancelled)
  PROVE  IInv'
<1> DEFINE H == IF cancelled THEN abandonAgentInvocationOwners(mine.handles, {r})
                ELSE releaseOwner(mine.handles, r)
<1>1. /\ turn.pc = "wait" /\ UNCHANGED <<calls, used, cursor, base, scope, tasks, mail>>
      /\ mine' = [mine EXCEPT !.runs = mine.runs \ {r}, !.handles = H]
      /\ turn' = [turn EXCEPT !.pc = IF mine'.runs = {} THEN "run" ELSE "wait"]
  BY DEF handleWorkflowToolRunOutcome, others
<1>2. mine \in Session /\ mine.handles \in Stores /\ mine.runs \ {r} \in SUBSET Runs
  BY Types DEF IInv, Session, Stores
<1>3. H \in Stores
  BY <1>2, StoreShapes DEF abandonAgentInvocationOwners, releaseOwner
<1>4. mine' \in Session /\ mine'.index = mine.index
  <2> HIDE DEF H
  <2> QED
    BY <1>1, <1>2, <1>3, SetHandles
<1>5. calls' \in [Runs -> SUBSET (1..MaxCalls)] /\ used' \subseteq Agents \cup Tasks
  BY <1>1, Types DEF IInv
<1>6. turn' \in TurnType /\ turn'.pc \in {"run", "wait"}
  BY <1>1, Types DEF IInv, TurnType
<1> QED
  BY <1>1, <1>4, <1>5, <1>6, Waiting, TurnGoesOn

LEMMA TurnRuns ==
  ASSUME IInv, NEW inline \in BOOLEAN, RunTurn(inline) PROVE IInv'
<1>1. /\ turn.pc = "parked" /\ turn.n < MaxTurns /\ base' = cursor /\ mine' = cursor
      /\ turn' = Between(IF inline THEN "inline" ELSE "run", turn.n + 1)
      /\ UNCHANGED <<cursor, scope, tasks, calls, mail, used>>
  BY DEF RunTurn
<1>2. turn' \in TurnType /\ turn'.pc \in {"inline", "run"}
  BY <1>1, Types, HandleConstants DEF IInv, TurnType, Between
<1>3. Indexes'
  BY <1>1, <1>2 DEF Indexes
<1>4. /\ cursor' \in Session /\ base' \in Session /\ mine' \in Session
      /\ calls' \in [Runs -> SUBSET (1..MaxCalls)]
      /\ mail' \in Seq(MailType) /\ used' \subseteq Agents \cup Tasks
  BY <1>1, Types DEF IInv
<1>5. scope' = NoScope /\ NewTasks = {}
  BY <1>1, Waiting, OutsideStep
<1>6. mine.index = {}
  BY <1>1 DEF IInv, Indexes
<1> QED
  BY <1>1, <1>2, <1>3, <1>4, <1>5, <1>6, Nothing, TurnMoves

LEMMA Rebases ==
  ASSUME IInv, rebaseTaskAgentHandleMutations PROVE IInv'
<1> DEFINE H == mergeTaskOwnedAgentHandlesIntoTurnState(base.handles, cursor.handles, mine.handles)
<1>1. /\ turn.pc = "result" /\ base' = NoSession /\ mine' = NoSession
      /\ UNCHANGED <<scope, tasks, calls, mail, used>>
      /\ \/ turn' = [turn EXCEPT !.pc = "crashed"] /\ UNCHANGED cursor
         \/ /\ cursor' = [mine EXCEPT !.handles = H]
            /\ turn' = Between(IF turn.cancelled THEN "settling" ELSE "parked", turn.n)
  BY DEF rebaseTaskAgentHandleMutations
<1>2. /\ cursor \in Session /\ base \in Session /\ mine \in Session /\ turn \in TurnType
      /\ cursor.handles \in Stores /\ mine.handles \in Stores
  BY Types DEF IInv, Session, Stores
<1>3. H \in Stores
  BY <1>2 DEF mergeTaskOwnedAgentHandlesIntoTurnState, Mutated, Stores
<1> HIDE DEF H
<1>4. /\ turn' \in TurnType /\ turn'.pc \in {"crashed", "settling", "parked"}
      /\ turn'.pc # "crashed" => cursor' = [mine EXCEPT !.handles = H]
  <2>1. CASE turn' = [turn EXCEPT !.pc = "crashed"]
    BY <1>2, <2>1 DEF TurnType
  <2>2. CASE /\ cursor' = [mine EXCEPT !.handles = H]
             /\ turn' = Between(IF turn.cancelled THEN "settling" ELSE "parked", turn.n)
    BY <1>2, <2>2, HandleConstants DEF TurnType, Between
  <2> QED
    BY <1>1, <2>1, <2>2
<1>5. cursor' \in Session /\ (turn'.pc # "crashed" => cursor'.index = mine.index)
  BY <1>1, <1>2, <1>3, <1>4, SetHandles
<1>6. Indexes'
  BY <1>1, <1>4 DEF Indexes, NoSession
<1>7. cursor.index \subseteq mine.index
  BY <1>1 DEF IInv, Indexes
<1>8. scope' = NoScope /\ NewTasks = {}
  BY <1>1, Waiting, OutsideStep
<1>9. /\ calls' \in [Runs -> SUBSET (1..MaxCalls)] /\ mail' \in Seq(MailType)
      /\ used' \subseteq Agents \cup Tasks
  BY <1>1, Types DEF IInv
<1> QED
  BY <1>1, <1>4, <1>5, <1>6, <1>7, <1>8, <1>9, Nothing, TurnMoves

LEMMA CancelSettles ==
  ASSUME IInv, settleCancelledTurnStep PROVE IInv'
<1> DEFINE H == abandonAgentInvocationOwners(cursor.handles, cursor.runs)
<1>1. /\ turn.pc = "settling" /\ cursor' = [cursor EXCEPT !.runs = {}, !.handles = H]
      /\ turn' = [turn EXCEPT !.pc = "parked"]
      /\ UNCHANGED <<base, mine, scope, tasks, calls, mail, used>>
  BY DEF settleCancelledTurnStep
<1>2. cursor \in Session /\ cursor.handles \in Stores /\ turn \in TurnType
  BY Types DEF IInv, Session, Stores
<1>3. H \in Stores
  BY <1>2, StoreShapes DEF abandonAgentInvocationOwners
<1>4. cursor' \in Session /\ cursor'.index = cursor.index
  <2> HIDE DEF H
  <2> QED
    BY <1>1, <1>2, <1>3, SetHandles
<1>5. turn' \in TurnType /\ turn'.pc = "parked"
  BY <1>1, <1>2 DEF TurnType
<1>6. Indexes' /\ mine.index = {}
  BY <1>1, <1>5 DEF IInv, Indexes
<1>7. scope' = NoScope /\ NewTasks = {}
  BY <1>1, Waiting, OutsideStep
<1>8. /\ calls' \in [Runs -> SUBSET (1..MaxCalls)] /\ mail' \in Seq(MailType)
      /\ used' \subseteq Agents \cup Tasks /\ base' \in Session /\ mine' \in Session
  BY <1>1, Types DEF IInv
<1> QED
  BY <1>1, <1>4, <1>5, <1>6, <1>7, <1>8, Nothing, TurnMoves

LEMMA Routes ==
  ASSUME IInv, routeDeliverToChildren PROVE IInv'
<1> DEFINE m == Head(mail)
           H == cursor.handles
<1>1. mail # <<>> /\ mail' = Tail(mail) /\ UNCHANGED <<base, mine, turn, scope, tasks, calls, used>>
  BY DEF routeDeliverToChildren
<1>2. /\ mail \in Seq(MailType) /\ cursor \in Session /\ H \in Stores /\ tasks \in TasksType
      /\ calls \in [Runs -> SUBSET (1..MaxCalls)] /\ used \subseteq Agents \cup Tasks
  BY Types DEF IInv, Session, Stores
<1>3. m \in MailType /\ mail' \in Seq(MailType)
  BY <1>1, <1>2
<1>4. PICK S : /\ cursor' = [cursor EXCEPT !.handles = S]
               /\ \/ Admits(m.task) /\ S \in dispatchAgentInvocation(H, tasks[m.task].agent, m.task, 1)
                  \/ S = settleTaskAgentInvocation(H, m.task, 1, m.outcome)
                  \/ S = releaseOwner(H, m.task)
                  \/ S = H
  BY DEF routeDeliverToChildren
<1>5. S \in Stores
  <2>1. m.task \in Tasks
    BY <1>3 DEF MailType
  <2>2. CASE Admits(m.task) /\ S \in dispatchAgentInvocation(H, tasks[m.task].agent, m.task, 1)
    <3>1. tasks[m.task].agent \in Agents
      BY <2>1, <2>2 DEF Admits, IInv, Named
    <3> HIDE DEF m, H
    <3> QED
      BY <1>2, <2>1, <2>2, <3>1, DispatchShapes DEF Owners
  <2>3. CASE S = settleTaskAgentInvocation(H, m.task, 1, m.outcome)
    BY <1>2, <2>3, StoreShapes
  <2>4. CASE S = releaseOwner(H, m.task)
    BY <1>2, <2>4, StoreShapes DEF releaseOwner
  <2> QED
    BY <1>2, <1>4, <2>2, <2>3, <2>4
<1>6. cursor' \in Session /\ cursor'.index = cursor.index
  BY <1>2, <1>4, <1>5, SetHandles
<1> QED
  BY <1>1, <1>2, <1>3, <1>6, TasksMove

LEMMA TasksGoOn ==
  ASSUME IInv, NEW t \in Tasks, TaskInvokes(t) \/ TaskEnds(t) \/ \E o \in Outcomes : TaskSettles(t, o)
  PROVE  IInv'
<1>1. UNCHANGED <<cursor, base, mine, turn, scope, calls, used>>
  BY DEF TaskInvokes, TaskEnds, TaskSettles, taskOthers
<1>2. /\ mail \in Seq(MailType) /\ cursor' \in Session /\ tasks \in TasksType
      /\ calls' \in [Runs -> SUBSET (1..MaxCalls)] /\ used' \subseteq Agents \cup Tasks
  BY <1>1, Types DEF IInv
<1>3. \A kind \in {"invoke", "settled", "view"}, o \in Outcomes \cup {"none"} :
        [kind |-> kind, task |-> t, outcome |-> o] \in MailType
  BY DEF MailType
<1>4. mail' \in Seq(MailType)
  <2>1. CASE TaskInvokes(t) \/ TaskEnds(t)
    <3>1. \E kind \in {"invoke", "view"} :
            mail' = Append(mail, [kind |-> kind, task |-> t, outcome |-> "none"])
      BY <2>1 DEF TaskInvokes, TaskEnds, Send
    <3>2. \E m \in MailType : mail' = Append(mail, m)
      BY <1>3, <3>1
    <3> QED
      BY <1>2, <3>2
  <2>2. ASSUME NEW o \in Outcomes, TaskSettles(t, o) PROVE mail' \in Seq(MailType)
    <3> DEFINE s == [kind |-> "settled", task |-> t, outcome |-> o]
               v == [kind |-> "view", task |-> t, outcome |-> "none"]
    <3>1. s \in MailType /\ v \in MailType /\ mail' = mail \o <<s, v>>
      BY <1>3, <2>2 DEF TaskSettles
    <3> HIDE DEF s, v
    <3> QED
      BY <1>2, <3>1
  <2> QED
    BY <2>1, <2>2
<1>5. /\ tasks' \in TasksType
      /\ \A x \in Tasks : tasks'[x].pc = "working" =>
           tasks[x].pc = "working" /\ tasks'[x].agent = tasks[x].agent
  <2>1. CASE TaskInvokes(t)
    BY <1>2, <2>1 DEF TaskInvokes, TasksType
  <2>2. CASE tasks' = Ended(t)
    BY <2>2, EndedShapes
  <2> QED
    BY <2>1, <2>2 DEF TaskEnds, TaskSettles
<1> QED
  BY <1>1, <1>2, <1>4, <1>5, TasksMove

LEMMA NextIInv == IInv /\ [Next]_vars => IInv'
<1> SUFFICES ASSUME IInv, [Next]_vars PROVE IInv'
  OBVIOUS
<1>1. CASE UNCHANGED vars
  <2>1. /\ UNCHANGED <<base, mine, turn, scope>> /\ cursor' = cursor /\ tasks' = tasks
        /\ calls' = calls /\ mail' = mail /\ used' = used
    BY <1>1 DEF vars
  <2> QED
    BY <2>1, Types, TasksMove DEF IInv
<1>2. CASE CallNext
  BY <1>2, StartsFresh, Resumes, Steers, SteeringThrows, Started, StartThrows DEF CallNext
<1>3. CASE TurnNext
  BY <1>3, StepBegins, StepEndings, InlineDefersIInv, RunRequests, RunSettles, RunOutcome DEF TurnNext
<1>4. CASE DriverNext
  BY <1>4, TurnRuns, Rebases, CancelSettles, Routes DEF DriverNext
<1>5. CASE TaskNext
  BY <1>5, TasksGoOn DEF TaskNext
<1> QED
  BY <1>1, <1>2, <1>3, <1>4, <1>5 DEF Next

\* Every step of calls, turn, driver and tasks keeps the invariant, for every set of
\* agents, tasks, runs and calls of a step.
THEOREM HandleInvariant == Spec => []IInv
<1> QED
  BY InitIInv, NextIInv, PTL DEF Spec

\* The type invariant: whatever calls, turns, merges and messages do to a store, it
\* stays one (transitions.ts).
THEOREM HandleTypes == Spec => []TypeOK
<1>1. IInv => TypeOK
  BY DEF IInv
<1> QED
  BY <1>1, HandleInvariant, PTL

\* No task at work is forgotten: a cancelled or deferred step, a hand-over and the
\* merge of a turn's state keep every task that was started (tool-execution.ts:101).
THEOREM NoOrphan == Spec => []TaskNotOrphaned
<1>1. IInv => TaskNotOrphaned
  BY DEF IInv
<1> QED
  BY <1>1, HandleInvariant, PTL

-----------------------------------------------------------------------------
(* Leases.  Two relations say all that matters of a command on a store: it  *)
(* loosens leases of some owners, or one owner takes one agent that nobody  *)
(* else has.                                                                *)

Loosens(H, G, os) ==
  \A a \in Agents :
    \/ G[a] = H[a]
    \/ /\ H[a].phase \in {"reserved", "claimed"} /\ H[a].owner \in os
       /\ G[a] \in {Absent, Available, Parked}
Takes(H, G, a, o) ==
  /\ \A b \in Agents : b # a => G[b] = H[b]
  /\ \/ G[a] = H[a]
     \/ /\ Free(H[a]) \/ H[a] = Absent \/ H[a].owner = o
        /\ G[a] = Absent \/ LeasedTo(G[a], o)

LEMMA HandleFields ==
  /\ \A phase, o, c : /\ Handle(phase, o, c).phase = phase /\ Handle(phase, o, c).owner = o
                      /\ Handle(phase, o, c).call = c
  /\ Absent.phase = "absent" /\ Available.phase = "available" /\ Parked.phase = "parked"
  /\ Absent.owner = Nobody /\ Available.owner = Nobody /\ Parked.owner = Nobody
BY DEF Handle, Absent, Available, Parked

\* releaseOwner, abandonAgentInvocationOwners and compensate: the owners have no
\* claim left, everybody else has what they had.
LEMMA ReleasedLoosens ==
  ASSUME NEW H \in Stores, NEW os, NEW idle \in {Available, Parked}
  PROVE  /\ Loosens(H, Released(H, os, idle), os)
         /\ \A a \in Agents : Released(H, os, idle)[a].phase = "claimed" =>
              Released(H, os, idle)[a] = H[a] /\ H[a].owner \notin os
<1>1. \A a \in Agents : H[a].phase \in {"reserved", "claimed"} /\ H[a].owner \in os =>
        Released(H, os, idle)[a] = IF H[a].phase = "reserved" THEN Absent ELSE idle
  BY DEF Released
<1>2. \A a \in Agents : ~(H[a].phase \in {"reserved", "claimed"} /\ H[a].owner \in os) =>
        Released(H, os, idle)[a] = H[a]
  BY DEF Released
<1>3. Loosens(H, Released(H, os, idle), os)
  BY <1>1, <1>2 DEF Loosens
<1>4. Absent.phase # "claimed" /\ idle.phase # "claimed"
  BY HandleFields
<1> HIDE DEF Released
<1> QED
  BY <1>1, <1>2, <1>3, <1>4

LEMMA SettledLoosens ==
  ASSUME NEW H \in Stores, NEW o, NEW c, NEW outcome
  PROVE  Loosens(H, settleTaskAgentInvocation(H, o, c, outcome), {o})
<1> DEFINE exact == {a \in Claims(H, o) : H[a].call = c}
           settled == IF exact # {} THEN exact
                      ELSE IF Cardinality(Claims(H, o)) = 1 THEN Claims(H, o) ELSE {}
           b == CHOOSE a \in settled : TRUE
<1>1. settled \subseteq Claims(H, o)
  OBVIOUS
<1>2. settleTaskAgentInvocation(H, o, c, outcome) =
        IF settled = {} THEN H ELSE [H EXCEPT ![b] = SettledHandle(outcome)]
  BY DEF settleTaskAgentInvocation
<1>3. SettledHandle(outcome) \in {Absent, Available, Parked}
  BY DEF SettledHandle
<1> HIDE DEF settled
<1>4. settled # {} => b \in settled
  OBVIOUS
<1>5. settled # {} => b \in Agents /\ H[b].phase = "claimed" /\ H[b].owner = o
  BY <1>1, <1>4 DEF Claims
<1> HIDE DEF b
<1> QED
  BY <1>2, <1>3, <1>5 DEF Loosens, Stores

LEMMA ReserveTakes ==
  ASSUME NEW H \in Stores, NEW a \in Agents, NEW o \in Owners, NEW c \in Nat, H[a] = Absent
  PROVE  Takes(H, reserve(H, a, o, c), a, o) /\ reserve(H, a, o, c)[a] = Handle("reserved", o, c)
BY HandleFields DEF Takes, reserve, Stores, LeasedTo

LEMMA ClaimTakes ==
  ASSUME NEW H \in Stores, NEW a \in Agents, NEW o \in Owners, NEW c \in Nat
  PROVE  /\ Takes(H, claim(H, a, o, c), a, o)
         /\ IF Free(H[a]) THEN claim(H, a, o, c)[a] = Handle("claimed", o, c) ELSE claim(H, a, o, c) = H
BY HandleFields DEF Takes, claim, Stores, LeasedTo

LEMMA DispatchTakes ==
  ASSUME NEW H \in Stores, NEW a \in Agents, NEW o \in Owners, NEW c \in Nat,
         NEW S \in dispatchAgentInvocation(H, a, o, c)
  PROVE  Takes(H, S, a, o)
<1> DEFINE fresh == H[a] = Absent \/ H[a] = Handle("reserved", o, c)
           r == reserve(H, a, o, c)
           d == claim(H, a, o, c)
<1>1. \/ fresh /\ S \in {confirm(r, a), remove(r, a, o)}
      \/ d[a] = Handle("claimed", o, c) /\ S \in {d, remove(d, a, o)}
      \/ S = H
  BY DEF dispatchAgentInvocation
<1>2. CASE fresh /\ S \in {confirm(r, a), remove(r, a, o)}
  <2>1. /\ r \in Stores /\ r[a] = Handle("reserved", o, c)
        /\ \A b \in Agents : b # a => r[b] = H[b]
    BY HandleShapes DEF reserve, Stores
  <2> HIDE DEF r
  <2>2. \A b \in Agents : b # a => S[b] = H[b]
    BY <1>2, <2>1 DEF confirm, remove, Stores
  <2>3. S[a] = Absent \/ LeasedTo(S[a], o)
    BY <1>2, <2>1, HandleFields DEF confirm, remove, Stores, LeasedTo, Handles
  <2> QED
    BY <1>2, <2>2, <2>3, HandleFields DEF Takes
<1>3. CASE d[a] = Handle("claimed", o, c) /\ S \in {d, remove(d, a, o)}
  <2>1. /\ d \in Stores /\ \A b \in Agents : b # a => d[b] = H[b]
        /\ Free(H[a]) \/ H[a] = Handle("claimed", o, c)
    BY <1>3, HandleShapes DEF claim, Stores
  <2> HIDE DEF d
  <2>2. \A b \in Agents : b # a => S[b] = H[b]
    BY <1>3, <2>1 DEF remove, Stores
  <2>3. S[a] = Absent \/ LeasedTo(S[a], o)
    BY <1>3, <2>1, HandleFields DEF remove, Stores, LeasedTo
  <2> QED
    BY <2>1, <2>2, <2>3, HandleFields DEF Takes
<1>4. CASE S = H
  BY <1>4 DEF Takes
<1> QED
  BY <1>1, <1>2, <1>3, <1>4

\* What a task has leased, and an agent that is lost, is nobody else's to change.
LEMMA Spared ==
  ASSUME NEW H, NEW G, NEW a \in Agents, NEW t
  PROVE  /\ \A os : Loosens(H, G, os) /\ t \notin os /\ LeasedTo(H[a], t) => G[a] = H[a]
         /\ \A os : Loosens(H, G, os) /\ H[a] = Absent => G[a] = H[a]
         /\ \A b, o : Takes(H, G, b, o) /\ o # t /\ LeasedTo(H[a], t) => G[a] = H[a]
         /\ \A b, o : Takes(H, G, b, o) /\ b # a => G[a] = H[a]
<1>1. \A os : Loosens(H, G, os) /\ t \notin os /\ LeasedTo(H[a], t) => G[a] = H[a]
  BY DEF Loosens, LeasedTo
<1>2. \A os : Loosens(H, G, os) /\ H[a] = Absent => G[a] = H[a]
  BY HandleFields DEF Loosens
<1>3. \A b, o : Takes(H, G, b, o) /\ o # t /\ LeasedTo(H[a], t) => G[a] = H[a]
  BY HandleFields DEF Takes, LeasedTo, Free
<1>4. \A b, o : Takes(H, G, b, o) /\ b # a => G[a] = H[a]
  BY DEF Takes
<1> QED
  BY <1>1, <1>2, <1>3, <1>4

-----------------------------------------------------------------------------
(* The invariant that keeps leases.                                         *)

Working(t) == tasks[t].pc = "working"
Viewed(t) == \E i \in DOMAIN mail : mail[i].task = t /\ mail[i].kind = "view"
Alive(t) == Working(t) \/ Viewed(t)
Living(I) == {t \in I : Alive(t)}
InTurn == turn.pc \in {"inline", "run", "wait", "result"}

\* What is known somewhere was minted.
UsedIn(H, U) ==
  \A a \in Agents : (H[a] # Absent => a \in U) /\ (H[a].owner \in Tasks => H[a].owner \in U)
UsedIds ==
  /\ \A t \in Tasks : tasks[t].pc # "none" => t \in used
  /\ \A t \in Tasks : Working(t) => tasks[t].agent \in used
  /\ cursor.index \cup base.index \cup mine.index \subseteq used
  /\ UsedIn(cursor.handles, used) /\ UsedIn(base.handles, used)
  /\ UsedIn(mine.handles, used) /\ UsedIn(scope.store, used)
  /\ \A k \in Slots : scope.calls[k].pc # "idle" => scope.calls[k].task \in Tasks \cap used

\* A call has a task of its own, which the session does not know yet, and the
\* lease on its agent from the moment it may start it.
CallTasks ==
  /\ \A j, k \in Slots :
       j # k /\ scope.calls[j].pc # "idle" /\ scope.calls[k].pc # "idle" =>
         scope.calls[j].task # scope.calls[k].task
  /\ \A k \in Slots :
       /\ scope.calls[k].pc \notin {"idle", "settled"} => tasks[scope.calls[k].task].pc = "none"
       /\ scope.calls[k].pc = "settled" =>
            Alive(scope.calls[k].task) /\ tasks[scope.calls[k].task].agent = scope.calls[k].agent
       /\ scope.calls[k].pc # "idle" =>
            /\ scope.calls[k].task \notin mine.index
            /\ \A a \in Agents : base.handles[a].owner # scope.calls[k].task
       /\ scope.calls[k].pc \in {"starting", "claimed", "settled"} =>
            LeasedTo(scope.store[scope.calls[k].agent], scope.calls[k].task)
       /\ scope.calls[k].pc = "steering" => scope.calls[k].old \in mine.index

\* Who has reported its end is over, and no two tasks at work have one agent.
MailOver ==
  \A i \in DOMAIN mail : mail[i].kind # "invoke" => tasks[mail[i].task].pc = "ended"
Distinct ==
  \A t, u \in Tasks : t # u /\ Working(t) /\ Working(u) => tasks[t].agent # tasks[u].agent

\* A task at work has its lease, in every copy of the store that knows of it.
HeldOrLost(h, t) == LeasedTo(h, t) \/ h = Absent
Leases ==
  /\ turn.pc \in {"parked", "settling"} =>
       \A t \in Tasks : Working(t) => HeldOrLost(cursor.handles[tasks[t].agent], t)
  /\ InTurn =>
       /\ \A t \in base.index : Working(t) =>
            /\ cursor.handles[tasks[t].agent] = base.handles[tasks[t].agent]
            /\ mine.handles[tasks[t].agent] = base.handles[tasks[t].agent]
            /\ HeldOrLost(base.handles[tasks[t].agent], t)
       /\ \A t \in mine.index \ base.index : Working(t) => LeasedTo(mine.handles[tasks[t].agent], t)
       /\ \A a \in Agents, t \in Tasks : base.handles[a].owner = t /\ Working(t) => t \in base.index
  /\ scope.on => \A t \in mine.index : Working(t) =>
                    scope.store[tasks[t].agent] = mine.handles[tasks[t].agent]
  /\ turn.pc = "inline" => mine = cursor

\* Tool runs belong to the turn that waits for them, or to its cancelled result.
RunsOver ==
  /\ turn.pc \in {"parked", "settling", "inline", "run"} => mine.runs = {}
  /\ InTurn \/ turn.pc = "parked" => cursor.runs = {}
  /\ InTurn => base.runs = {}
  /\ turn.pc = "result" /\ ~turn.cancelled => mine.runs = {}

\* Every claim, in every copy, has an owner that will give it up.
ClaimedBy(H, S) == \A a \in Agents : H[a].phase = "claimed" => H[a].owner \in S
Taking == {scope.calls[k].task : k \in CallsOf("claimed") \cup CallsOf("settled") \cup CallsOf("unclaimed")}
Claimed ==
  /\ turn.pc # "crashed" => ClaimedBy(cursor.handles, Living(cursor.index) \cup cursor.runs)
  /\ InTurn => /\ ClaimedBy(base.handles, Living(base.index))
               /\ ClaimedBy(mine.handles, Living(mine.index) \cup mine.runs)
  /\ scope.on => ClaimedBy(scope.store, Living(mine.index) \cup Taking)

LInv == IInv /\ UsedIds /\ CallTasks /\ MailOver /\ Distinct /\ Leases /\ RunsOver /\ Claimed

LEMMA UsedStays ==
  ASSUME NEW H, NEW G, NEW U, NEW V, UsedIn(H, U), U \subseteq V
  PROVE  /\ UsedIn(H, V)
         /\ \A os : Loosens(H, G, os) => UsedIn(G, V)
         /\ \A a \in V, o \in Owners : Takes(H, G, a, o) /\ (o \in Tasks => o \in V) => UsedIn(G, V)
<1>1. UsedIn(H, V)
  BY DEF UsedIn
<1>2. ASSUME NEW os, Loosens(H, G, os) PROVE UsedIn(G, V)
  BY <1>1, <1>2, HandleFields, HandleConstants DEF UsedIn, Loosens
<1>3. ASSUME NEW a \in V, NEW o \in Owners, Takes(H, G, a, o), o \in Tasks => o \in V PROVE UsedIn(G, V)
  BY <1>1, <1>3, HandleFields, HandleConstants DEF UsedIn, Takes, LeasedTo
<1> QED
  BY <1>1, <1>2, <1>3

LEMMA ClaimsStay ==
  ASSUME NEW H, NEW G, NEW S, NEW T, ClaimedBy(H, S), S \subseteq T
  PROVE  /\ ClaimedBy(H, T)
         /\ \A os : Loosens(H, G, os) => ClaimedBy(G, T)
         /\ \A a, o : Takes(H, G, a, o) /\ o \in T => ClaimedBy(G, T)
<1>1. ClaimedBy(H, T)
  BY DEF ClaimedBy
<1>2. ASSUME NEW os, Loosens(H, G, os) PROVE ClaimedBy(G, T)
  BY <1>1, <1>2, HandleFields DEF ClaimedBy, Loosens
<1>3. ASSUME NEW a, NEW o, Takes(H, G, a, o), o \in T PROVE ClaimedBy(G, T)
  BY <1>1, <1>3, HandleFields DEF ClaimedBy, Takes, LeasedTo
<1> QED
  BY <1>1, <1>2, <1>3

LEMMA InitLInv == Init => LInv
<1> SUFFICES ASSUME Init PROVE LInv
  OBVIOUS
<1> DEFINE a == Fresh(Agents)
           t == Fresh(Tasks)
<1>1. a \in Agents /\ t \in Tasks /\ Nobody \notin Tasks
  BY HandleConstants DEF Fresh
<1> HIDE DEF a, t
<1>2. PICK h \in {Absent, Available, Parked, Handle("claimed", t, 1)} :
        LET owned == h.owner = t
        IN /\ cursor = [handles |-> [x \in Agents |-> IF x = a THEN h ELSE Absent],
                        index |-> IF owned THEN {t} ELSE {}, runs |-> {}]
           /\ tasks = [x \in Tasks |->
                IF owned /\ x = t THEN [pc |-> "working", agent |-> a, invoked |-> TRUE]
                ELSE [pc |-> "none", agent |-> Nobody, invoked |-> FALSE]]
           /\ used = (IF h = Absent THEN {} ELSE {a}) \cup (IF owned THEN {t} ELSE {})
  BY DEF Init, a, t
<1>3. /\ base = NoSession /\ mine = NoSession /\ turn = Between("parked", 0) /\ scope = NoScope
      /\ mail = <<>> /\ calls = [r \in Runs |-> {}]
  BY DEF Init
<1>4. turn.pc = "parked" /\ NoScope.on = FALSE /\ \A k \in Slots : scope.calls[k].pc = "idle"
  BY <1>3, Nothing DEF Between
<1>5. h.owner = t => h = Handle("claimed", t, 1) /\ h # Absent
  BY <1>1, HandleFields
<1>6. /\ h.owner \in Tasks => h.owner = t
      /\ h.phase = "claimed" => h.owner = t
  BY <1>1, HandleFields
<1>7. /\ \A x \in Agents : cursor.handles[x] = IF x = a THEN h ELSE Absent
      /\ \A x \in Tasks : tasks[x].pc # "none" =>
           /\ h.owner = t /\ x = t /\ tasks[x].agent = a /\ Working(x) /\ a \in used /\ t \in used
      /\ h.owner = t => Working(t) /\ t \in cursor.index
      /\ cursor.index \subseteq used /\ cursor.runs = {}
  BY <1>1, <1>2, <1>5 DEF Working
<1>8. UsedIn(cursor.handles, used)
  BY <1>1, <1>2, <1>6, <1>7, HandleFields DEF UsedIn
<1>9. /\ UsedIn(NoSession.handles, used) /\ UsedIn(NoScope.store, used) /\ NoSession.index = {}
      /\ NoSession.runs = {}
  BY <1>1, HandleFields DEF UsedIn, NoSession, NoScope
<1>10. UsedIds
  BY <1>3, <1>4, <1>7, <1>8, <1>9 DEF UsedIds, Working
<1>11. CallTasks /\ MailOver
  BY <1>3, <1>4 DEF CallTasks, MailOver
<1>12. Distinct
  BY <1>7 DEF Distinct, Working
<1>13. Leases
  <2>1. \A x \in Tasks : Working(x) => HeldOrLost(cursor.handles[tasks[x].agent], x)
    BY <1>1, <1>5, <1>7, HandleFields DEF Working, HeldOrLost, LeasedTo
  <2> QED
    BY <1>3, <1>4, <2>1 DEF Leases, InTurn
<1>14. RunsOver
  BY <1>3, <1>4, <1>7, <1>9 DEF RunsOver, InTurn
<1>15. Claimed
  <2>1. ClaimedBy(cursor.handles, Living(cursor.index) \cup cursor.runs)
    BY <1>6, <1>7, HandleFields DEF ClaimedBy, Living, Alive
  <2> QED
    BY <1>3, <1>4, <2>1 DEF Claimed, InTurn
<1> QED
  BY <1>10, <1>11, <1>12, <1>13, <1>14, <1>15, InitIInv DEF LInv

\* What a step changes that ends outside a step and leaves the tasks alone.
LEMMA LeasesOutside ==
  ASSUME LInv, IInv', scope' = NoScope, UNCHANGED <<tasks, mail>>, used \subseteq used',
         cursor'.index \cup base'.index \cup mine'.index \subseteq used',
         UsedIn(cursor'.handles, used'), UsedIn(base'.handles, used'), UsedIn(mine'.handles, used'),
         Leases', RunsOver', Claimed'
  PROVE  LInv'
<1>1. \A k \in Slots : scope'.calls[k].pc = "idle"
  BY Nothing
<1>2. UsedIn(scope'.store, used')
  BY HandleFields, HandleConstants DEF NoScope, UsedIn
<1>3. UsedIds'
  BY <1>1, <1>2 DEF LInv, UsedIds, Working
<1>4. CallTasks'
  BY <1>1 DEF CallTasks
<1>5. MailOver' /\ Distinct'
  BY DEF LInv, MailOver, Distinct, Working
<1> QED
  BY <1>3, <1>4, <1>5 DEF LInv

\* With tasks and mail as they were, who was alive is.
LEMMA LivingSame ==
  ASSUME UNCHANGED <<tasks, mail>>
  PROVE  /\ \A t : Working(t)' <=> Working(t)
         /\ \A t : Alive(t)' <=> Alive(t)
BY DEF Working, Alive, Viewed

LEMMA TurnRunsL ==
  ASSUME LInv, IInv', NEW inline \in BOOLEAN, RunTurn(inline) PROVE LInv'
<1>1. /\ turn.pc = "parked" /\ base' = cursor /\ mine' = cursor
      /\ turn' = Between(IF inline THEN "inline" ELSE "run", turn.n + 1)
      /\ UNCHANGED <<cursor, scope, tasks, calls, mail, used>>
  BY DEF RunTurn
<1>2. turn'.pc \in {"inline", "run"} /\ InTurn'
  BY <1>1 DEF Between, InTurn
<1>3. scope' = NoScope /\ NewTasks = {} /\ mine.index = {}
  BY <1>1, Waiting, OutsideStep DEF LInv, IInv, Indexes
<1>4. /\ ~scope'.on /\ \A t \in Tasks : Working(t) => t \in cursor.index
      /\ cursor.index \subseteq Tasks
  BY <1>1, <1>3, Nothing, Types DEF LInv, IInv, TaskNotOrphaned, Working, Session
<1>5. Leases'
  BY <1>1, <1>2, <1>4 DEF LInv, Leases, Working, InTurn
<1>6. RunsOver'
  BY <1>1, <1>2 DEF LInv, RunsOver, InTurn
<1>7. Claimed'
  <2>1. ClaimedBy(cursor.handles, Living(cursor.index) \cup cursor.runs) /\ cursor.runs = {}
    BY <1>1 DEF LInv, Claimed, RunsOver
  <2>2. Living(cursor.index)' = Living(cursor.index)
    BY <1>1, LivingSame DEF Living
  <2> QED
    BY <1>1, <1>4, <2>1, <2>2 DEF Claimed, Living
<1> QED
  BY <1>1, <1>3, <1>5, <1>6, <1>7, LeasesOutside DEF LInv, UsedIds

\* The turn moves on outside a step with the state it has, or with the one it was
\* dispatched with.
LEMMA MovesOnL ==
  ASSUME LInv, IInv', InlineDefers \/ TurnEnds \/ WaitCancelled PROVE LInv'
<1>1. /\ turn.pc \in {"inline", "run", "wait"} /\ ~scope.on /\ InTurn
      /\ mine' = mine \/ (turn.pc = "inline" /\ mine' = base)
      /\ UNCHANGED <<cursor, base, scope, tasks, calls, mail, used>>
  BY Waiting DEF InlineDefers, TurnEnds, WaitCancelled, Stepping, others, InTurn, LInv
<1>2. /\ turn'.pc = "result" \/ (turn'.pc = "run" /\ mine' = base)
      /\ turn'.pc = "result" => mine' = mine /\ (turn.pc = "wait" => turn'.cancelled)
      /\ InTurn'
  <2>1. turn \in TurnType
    BY Types DEF LInv, IInv
  <2> QED
    BY <2>1 DEF InlineDefers, TurnEnds, WaitCancelled, TurnType, InTurn, Stepping
<1>3. scope' = NoScope /\ ~scope'.on
  BY <1>1, OutsideStep, Nothing DEF LInv
<1>4. Leases'
  <2>1. CASE mine' = mine
    BY <1>1, <1>2, <1>3, <2>1 DEF LInv, Leases, Working
  <2>2. CASE turn'.pc = "run" /\ mine' = base
    BY <1>1, <1>2, <1>3, <2>2 DEF LInv, Leases, Working
  <2> QED
    BY <1>2, <2>1, <2>2
<1>5. RunsOver'
  BY <1>1, <1>2 DEF LInv, RunsOver
<1>6. Claimed'
  <2>1. \A I : {t \in I : Alive(t)'} = Living(I)
    BY <1>1, LivingSame DEF Living
  <2>2. /\ ClaimedBy(cursor.handles, Living(cursor.index) \cup cursor.runs)
        /\ ClaimedBy(base.handles, Living(base.index)) /\ base.runs = {}
        /\ ClaimedBy(mine.handles, Living(mine.index) \cup mine.runs)
    BY <1>1 DEF LInv, Claimed, InTurn, RunsOver
  <2>3. /\ Living(cursor.index)' = Living(cursor.index) /\ Living(base.index)' = Living(base.index)
        /\ Living(mine.index)' = Living(mine'.index)
    BY <1>1, <2>1 DEF Living
  <2>4. ClaimedBy(mine'.handles, Living(mine'.index) \cup mine'.runs)
    BY <1>1, <2>2
  <2> QED
    BY <1>1, <1>3, <2>2, <2>3, <2>4 DEF Claimed
<1>7. UsedIn(mine'.handles, used') /\ mine'.index \subseteq used'
  BY <1>1 DEF LInv, UsedIds
<1> QED
  BY <1>1, <1>3, <1>4, <1>5, <1>6, <1>7, LeasesOutside DEF LInv, UsedIds

\* A task at work the turn knows of has its lease or has lost its agent.
LEMMA TurnHolds ==
  ASSUME LInv, InTurn, NEW t \in mine.index, Working(t)
  PROVE  /\ HeldOrLost(mine.handles[tasks[t].agent], t) /\ tasks[t].agent \in used /\ t \in Tasks
         /\ tasks[t].agent \in Agents
<1>1. t \in Tasks
  BY Types DEF LInv, IInv, Session
<1>2. tasks[t].agent \in used /\ tasks[t].agent \in Agents
  BY <1>1 DEF LInv, UsedIds, IInv, Named, Working
<1>3. CASE t \in base.index
  BY <1>1, <1>2, <1>3 DEF LInv, Leases
<1>4. CASE t \notin base.index
  BY <1>1, <1>2, <1>4 DEF LInv, Leases, HeldOrLost
<1> QED
  BY <1>3, <1>4

\* The waiting turn handles something of a tool run.
LEMMA RunHandled ==
  ASSUME LInv, IInv', turn.pc = "wait", turn'.pc \in {"wait", "run"},
         UNCHANGED <<cursor, base, scope, tasks, mail>>, used \subseteq used',
         mine'.index = mine.index, turn'.pc = "run" => mine'.runs = {}, UsedIn(mine'.handles, used'),
         \A t \in mine.index : Working(t) => mine'.handles[tasks[t].agent] = mine.handles[tasks[t].agent],
         ClaimedBy(mine'.handles, Living(mine.index) \cup mine'.runs)
  PROVE  LInv'
<1>1. InTurn /\ InTurn' /\ turn'.pc # "inline" /\ turn'.pc \notin {"parked", "settling", "result"}
  BY DEF InTurn
<1>2. scope' = NoScope /\ ~scope'.on
  BY Waiting, OutsideStep, Nothing DEF LInv
<1>3. base.index \subseteq mine.index
  BY DEF LInv, IInv, Indexes
<1>4. Leases'
  BY <1>1, <1>2, <1>3 DEF LInv, Leases, Working
<1>5. RunsOver'
  BY <1>1 DEF LInv, RunsOver
<1>6. Claimed'
  <2>1. /\ Living(cursor.index)' = Living(cursor.index) /\ Living(base.index)' = Living(base.index)
        /\ Living(mine.index)' = Living(mine.index)
    BY LivingSame DEF Living
  <2>2. /\ ClaimedBy(cursor.handles, Living(cursor.index) \cup cursor.runs)
        /\ ClaimedBy(base.handles, Living(base.index))
    BY <1>1 DEF LInv, Claimed
  <2> QED
    BY <1>1, <1>2, <2>1, <2>2 DEF Claimed
<1>7. /\ cursor'.index \cup base'.index \cup mine'.index \subseteq used'
      /\ UsedIn(cursor'.handles, used') /\ UsedIn(base'.handles, used')
  BY UsedStays DEF LInv, UsedIds
<1> QED
  BY <1>2, <1>4, <1>5, <1>6, <1>7, LeasesOutside

LEMMA RunRequestsL ==
  ASSUME LInv, IInv', NEW r \in Runs, NEW a \in Agents, handleWorkflowToolRunRequest(r, a)
  PROVE  LInv'
<1> DEFINE n == Cardinality(calls[r])
<1>1. /\ turn.pc = "wait" /\ n < MaxCalls /\ r \in mine.runs
      /\ used' = used \cup {a} /\ (mine.handles[a] # Absent \/ a \notin used)
      /\ UNCHANGED <<turn, cursor, base, scope, tasks, mail>>
  BY DEF handleWorkflowToolRunRequest, others, Mints, Fresh
<1>2. mine \in Session /\ mine.handles \in Stores /\ calls \in [Runs -> SUBSET (1..MaxCalls)]
  BY Types DEF LInv, IInv, Session, Stores
<1>3. n + 1 \in Nat
  BY <1>1, <1>2, OneMoreCall
<1>4. PICK H \in dispatchAgentInvocation(mine.handles, a, r, n + 1) : mine' = [mine EXCEPT !.handles = H]
  BY DEF handleWorkflowToolRunRequest
<1>5. mine'.handles = H /\ mine'.index = mine.index /\ mine'.runs = mine.runs
  BY <1>2, <1>4 DEF Session
<1> HIDE DEF n
<1>6. Takes(mine.handles, H, a, r)
  BY <1>2, <1>3, <1>4, DispatchTakes DEF Owners
<1>7. UsedIn(mine'.handles, used')
  BY <1>1, <1>5, <1>6, UsedStays, HandleConstants DEF LInv, UsedIds, Owners
<1>8. ASSUME NEW t \in mine.index, Working(t)
      PROVE  mine'.handles[tasks[t].agent] = mine.handles[tasks[t].agent]
  <2> DEFINE b == tasks[t].agent
  <2>1. HeldOrLost(mine.handles[b], t) /\ b \in used /\ t \in Tasks /\ b \in Agents
    BY <1>1, <1>8, TurnHolds DEF InTurn
  <2>2. t # r
    BY <2>1, HandleConstants
  <2> HIDE DEF b
  <2>3. LeasedTo(mine.handles[b], t) => H[b] = mine.handles[b]
    BY <1>6, <2>1, <2>2, Spared
  <2>4. mine.handles[b] = Absent => H[b] = mine.handles[b]
    BY <1>1, <1>6, <2>1, Spared
  <2> QED
    BY <1>5, <2>1, <2>3, <2>4 DEF HeldOrLost, b
<1>9. ClaimedBy(mine'.handles, Living(mine.index) \cup mine'.runs)
  <2>1. ClaimedBy(mine.handles, Living(mine.index) \cup mine.runs)
    BY <1>1 DEF LInv, Claimed, InTurn
  <2> QED
    BY <1>1, <1>5, <1>6, <2>1, ClaimsStay
<1> QED
  BY <1>1, <1>5, <1>7, <1>8, <1>9, RunHandled

\* A command that loosens leases of runs only.
LEMMA RunLoosens ==
  ASSUME LInv, InTurn, NEW os \in SUBSET Runs, NEW G, Loosens(mine.handles, G, os)
  PROVE  /\ UsedIn(G, used)
         /\ \A t \in mine.index : Working(t) => G[tasks[t].agent] = mine.handles[tasks[t].agent]
         /\ ClaimedBy(G, Living(mine.index) \cup mine.runs)
<1>1. UsedIn(G, used)
  BY UsedStays DEF LInv, UsedIds
<1>2. ASSUME NEW t \in mine.index, Working(t)
      PROVE  G[tasks[t].agent] = mine.handles[tasks[t].agent]
  <2> DEFINE b == tasks[t].agent
  <2>1. HeldOrLost(mine.handles[b], t) /\ t \in Tasks /\ b \in Agents /\ t \notin os
    BY <1>2, TurnHolds, HandleConstants
  <2> HIDE DEF b
  <2>2. LeasedTo(mine.handles[b], t) => G[b] = mine.handles[b]
    BY <2>1, Spared
  <2>3. mine.handles[b] = Absent => G[b] = mine.handles[b]
    BY <2>1, Spared
  <2> QED
    BY <2>1, <2>2, <2>3 DEF HeldOrLost, b
<1>3. ClaimedBy(G, Living(mine.index) \cup mine.runs)
  BY ClaimsStay DEF LInv, Claimed
<1> QED
  BY <1>1, <1>2, <1>3

LEMMA RunSettlesL ==
  ASSUME LInv, IInv', NEW r \in Runs, NEW c, NEW o, SettleRunInvocation(r, c, o)
  PROVE  LInv'
<1> DEFINE G == settleTaskAgentInvocation(mine.handles, r, c, o)
<1>1. /\ turn.pc = "wait" /\ UNCHANGED <<turn, calls, used, cursor, base, scope, tasks, mail>>
      /\ mine' = [mine EXCEPT !.handles = G]
  BY DEF SettleRunInvocation, others
<1>2. mine \in Session /\ mine.handles \in Stores
  BY Types DEF LInv, IInv, Session, Stores
<1>3. mine'.handles = G /\ mine'.index = mine.index /\ mine'.runs = mine.runs
  <2> HIDE DEF G
  <2> QED
    BY <1>1, <1>2 DEF Session
<1>4. Loosens(mine.handles, G, {r}) /\ InTurn
  BY <1>1, <1>2, SettledLoosens DEF InTurn
<1> HIDE DEF G
<1> QED
  BY <1>1, <1>3, <1>4, RunLoosens, RunHandled

LEMMA RunOutcomeL ==
  ASSUME LInv, IInv', NEW r \in Runs, NEW cancelled \in BOOLEAN, handleWorkflowToolRunOutcome(r, cancelled)
  PROVE  LInv'
<1> DEFINE idle == IF cancelled THEN Parked ELSE Available
           G == Released(mine.handles, {r}, idle)
<1>1. /\ turn.pc = "wait" /\ UNCHANGED <<calls, used, cursor, base, scope, tasks, mail>>
      /\ mine' = [mine EXCEPT !.runs = mine.runs \ {r}, !.handles = G]
      /\ turn' = [turn EXCEPT !.pc = IF mine'.runs = {} THEN "run" ELSE "wait"]
  BY DEF handleWorkflowToolRunOutcome, others, abandonAgentInvocationOwners, releaseOwner
<1>2. mine \in Session /\ mine.handles \in Stores /\ turn \in TurnType
  BY Types DEF LInv, IInv, Session, Stores
<1>3. mine'.handles = G /\ mine'.index = mine.index /\ mine'.runs = mine.runs \ {r}
  <2> HIDE DEF G
  <2> QED
    BY <1>1, <1>2 DEF Session
<1>4. /\ Loosens(mine.handles, G, {r}) /\ InTurn
      /\ \A a \in Agents : G[a].phase = "claimed" => G[a] = mine.handles[a] /\ G[a].owner # r
  BY <1>1, <1>2, ReleasedLoosens DEF InTurn
<1>5. turn'.pc \in {"wait", "run"} /\ (turn'.pc = "run" => mine'.runs = {})
  BY <1>1, <1>2 DEF TurnType
<1> HIDE DEF G
<1>6. ClaimedBy(G, Living(mine.index) \cup mine'.runs)
  <2>1. ClaimedBy(G, Living(mine.index) \cup mine.runs)
    BY <1>4, RunLoosens
  <2> QED
    BY <1>3, <1>4, <2>1 DEF ClaimedBy
<1>7. /\ UsedIn(G, used)
      /\ \A t \in mine.index : Working(t) => G[tasks[t].agent] = mine.handles[tasks[t].agent]
  BY <1>4, RunLoosens
<1> QED
  BY <1>1, <1>3, <1>5, <1>6, <1>7, RunHandled

LEMMA RebasesL ==
  ASSUME LInv, IInv', rebaseTaskAgentHandleMutations PROVE LInv'
<1> DEFINE H == mergeTaskOwnedAgentHandlesIntoTurnState(base.handles, cursor.handles, mine.handles)
<1>1. /\ turn.pc = "result" /\ InTurn /\ base' = NoSession /\ mine' = NoSession
      /\ UNCHANGED <<scope, tasks, calls, mail, used>>
      /\ \/ turn' = [turn EXCEPT !.pc = "crashed"] /\ UNCHANGED cursor
         \/ /\ cursor' = [mine EXCEPT !.handles = H]
            /\ turn' = Between(IF turn.cancelled THEN "settling" ELSE "parked", turn.n)
            /\ Conflicts(base.handles, cursor.handles, mine.handles) = {}
  BY DEF rebaseTaskAgentHandleMutations, InTurn
<1>2. /\ cursor \in Session /\ base \in Session /\ mine \in Session /\ turn \in TurnType
      /\ mine.handles \in Stores
  BY Types DEF LInv, IInv, Session, Stores
<1>3. scope' = NoScope /\ ~scope'.on /\ NewTasks = {}
  BY <1>1, Waiting, OutsideStep, Nothing DEF LInv
<1>4. /\ NoSession.index = {} /\ NoSession.runs = {} /\ UsedIn(NoSession.handles, used)
  BY HandleFields, HandleConstants DEF NoSession, UsedIn
<1>5. CASE turn' = [turn EXCEPT !.pc = "crashed"] /\ UNCHANGED cursor
  <2>1. turn'.pc = "crashed" /\ ~InTurn'
    BY <1>2, <1>5 DEF TurnType, InTurn
  <2>2. Leases' /\ RunsOver' /\ Claimed'
    BY <1>3, <2>1 DEF Leases, RunsOver, Claimed
  <2> QED
    BY <1>1, <1>3, <1>4, <1>5, <2>2, LeasesOutside DEF LInv, UsedIds
<1>6. CASE /\ cursor' = [mine EXCEPT !.handles = H]
           /\ turn' = Between(IF turn.cancelled THEN "settling" ELSE "parked", turn.n)
           /\ Conflicts(base.handles, cursor.handles, mine.handles) = {}
  <2>1. /\ turn'.pc \in {"settling", "parked"} /\ ~InTurn' /\ turn'.pc # "crashed"
        /\ turn'.pc = "parked" => ~turn.cancelled
    BY <1>2, <1>6 DEF Between, InTurn, TurnType
  <2>2. \A a \in Agents : H[a] = IF base.handles[a] # cursor.handles[a] THEN cursor.handles[a] ELSE mine.handles[a]
    BY DEF mergeTaskOwnedAgentHandlesIntoTurnState, Mutated
  <2> HIDE DEF H
  <2>3. cursor'.handles = H /\ cursor'.index = mine.index /\ cursor'.runs = mine.runs
    BY <1>2, <1>6 DEF Session
  <2>4. UsedIn(H, used)
    BY <2>2 DEF LInv, UsedIds, UsedIn
  <2>5. ASSUME NEW t \in Tasks, Working(t) PROVE HeldOrLost(H[tasks[t].agent], t)
    <3> DEFINE b == tasks[t].agent
    <3>1. t \in mine.index
      BY <1>1, <1>3, <2>5 DEF LInv, IInv, TaskNotOrphaned, Indexes, Working
    <3>2. b \in Agents /\ HeldOrLost(mine.handles[b], t)
      BY <1>1, <2>5, <3>1, TurnHolds
    <3>3. CASE t \in base.index
      <4>1. cursor.handles[b] = base.handles[b]
        BY <1>1, <2>5, <3>3 DEF LInv, Leases
      <4> QED
        BY <2>2, <3>2, <4>1
    <3>4. CASE t \notin base.index
      <4>1. LeasedTo(mine.handles[b], t)
        BY <1>1, <2>5, <3>1, <3>4 DEF LInv, Leases
      <4>2. base.handles[b].owner # t
        BY <1>1, <2>5, <3>2, <3>4 DEF LInv, Leases
      <4>3. mine.handles[b] # Absent /\ mine.handles[b] # base.handles[b]
        BY <4>1, <4>2, HandleFields DEF LeasedTo
      <4>4. base.handles[b] # cursor.handles[b] => mine.handles[b] = cursor.handles[b]
        BY <1>6, <3>2, <4>3 DEF Conflicts, Mutated
      <4> QED
        BY <2>2, <3>2, <4>4
    <3> QED
      BY <3>3, <3>4
  <2>6. Leases'
    BY <1>1, <1>3, <2>1, <2>3, <2>5 DEF Leases, Working
  <2>7. RunsOver'
    BY <1>1, <1>4, <2>1, <2>3 DEF LInv, RunsOver
  <2>8. Claimed'
    <3>1. /\ ClaimedBy(cursor.handles, Living(cursor.index)) /\ cursor.index \subseteq mine.index
          /\ ClaimedBy(mine.handles, Living(mine.index) \cup mine.runs)
      BY <1>1 DEF LInv, Claimed, RunsOver, IInv, Indexes
    <3>2. ClaimedBy(H, Living(mine.index) \cup mine.runs)
      BY <2>2, <3>1 DEF ClaimedBy, Living
    <3>3. Living(cursor.index)' = Living(mine.index)
      BY <1>1, <2>3, LivingSame DEF Living
    <3> QED
      BY <1>3, <2>1, <2>3, <3>2, <3>3 DEF Claimed
  <2>9. cursor'.index \subseteq used
    BY <2>3 DEF LInv, UsedIds
  <2> QED
    BY <1>1, <1>3, <1>4, <2>3, <2>4, <2>6, <2>7, <2>8, <2>9, LeasesOutside
<1> QED
  BY <1>1, <1>5, <1>6

LEMMA CancelSettlesL ==
  ASSUME LInv, IInv', settleCancelledTurnStep PROVE LInv'
<1> DEFINE G == Released(cursor.handles, cursor.runs, Parked)
<1>1. /\ turn.pc = "settling" /\ cursor' = [cursor EXCEPT !.runs = {}, !.handles = G]
      /\ turn' = [turn EXCEPT !.pc = "parked"]
      /\ UNCHANGED <<base, mine, scope, tasks, calls, mail, used>>
  BY DEF settleCancelledTurnStep, abandonAgentInvocationOwners
<1>2. /\ cursor \in Session /\ cursor.handles \in Stores /\ turn \in TurnType
      /\ cursor.runs \subseteq Runs
  BY Types DEF LInv, IInv, Session, Stores
<1>3. cursor'.handles = G /\ cursor'.index = cursor.index /\ cursor'.runs = {}
  <2> HIDE DEF G
  <2> QED
    BY <1>1, <1>2 DEF Session
<1>4. /\ Loosens(cursor.handles, G, cursor.runs)
      /\ \A a \in Agents : G[a].phase = "claimed" => G[a] = cursor.handles[a] /\ G[a].owner \notin cursor.runs
  BY <1>2, ReleasedLoosens
<1> HIDE DEF G
<1>5. turn'.pc = "parked" /\ ~InTurn'
  BY <1>1, <1>2 DEF TurnType, InTurn
<1>6. scope' = NoScope /\ ~scope'.on
  BY <1>1, Waiting, OutsideStep, Nothing DEF LInv
<1>7. UsedIn(G, used)
  BY <1>4, UsedStays DEF LInv, UsedIds
<1>8. ASSUME NEW t \in Tasks, Working(t) PROVE HeldOrLost(G[tasks[t].agent], t)
  <2> DEFINE b == tasks[t].agent
  <2>1. HeldOrLost(cursor.handles[b], t) /\ b \in Agents /\ t \notin cursor.runs
    BY <1>1, <1>2, <1>8, HandleConstants DEF LInv, Leases, IInv, Named, Working
  <2> HIDE DEF b
  <2>2. LeasedTo(cursor.handles[b], t) => G[b] = cursor.handles[b]
    BY <1>4, <2>1, Spared
  <2>3. cursor.handles[b] = Absent => G[b] = cursor.handles[b]
    BY <1>4, <2>1, Spared
  <2> QED
    BY <2>1, <2>2, <2>3 DEF HeldOrLost, b
<1>9. Leases'
  BY <1>1, <1>3, <1>5, <1>6, <1>8 DEF Leases, Working
<1>10. RunsOver'
  BY <1>1, <1>3, <1>5 DEF LInv, RunsOver
<1>11. Claimed'
  <2>1. ClaimedBy(cursor.handles, Living(cursor.index) \cup cursor.runs)
    BY <1>1 DEF LInv, Claimed
  <2>2. ClaimedBy(G, Living(cursor.index))
    BY <1>4, <2>1 DEF ClaimedBy
  <2>3. Living(cursor.index)' = Living(cursor.index)
    BY <1>1, <1>3, LivingSame DEF Living
  <2> QED
    BY <1>3, <1>5, <1>6, <2>2, <2>3 DEF Claimed
<1> QED
  BY <1>1, <1>3, <1>6, <1>7, <1>9, <1>10, <1>11, LeasesOutside DEF LInv, UsedIds

LEMMA RoutesL ==
  ASSUME LInv, IInv', routeDeliverToChildren PROVE LInv'
<1> DEFINE m == Head(mail)
           H == cursor.handles
           t == m.task
<1>1. /\ turn.pc = "parked" /\ mail # <<>> /\ mail' = Tail(mail)
      /\ UNCHANGED <<base, mine, turn, scope, tasks, calls, used>>
  BY DEF routeDeliverToChildren
<1>2. /\ mail \in Seq(MailType) /\ cursor \in Session /\ H \in Stores /\ tasks \in TasksType
  BY Types DEF LInv, IInv, Session, Stores
<1>3. /\ m \in MailType /\ t \in Tasks /\ Len(mail) \in Nat \ {0} /\ m = mail[1] /\ 1 \in DOMAIN mail
      /\ \A i \in DOMAIN mail' : i + 1 \in DOMAIN mail /\ mail'[i] = mail[i + 1]
      /\ \A i \in DOMAIN mail : i # 1 => i - 1 \in DOMAIN mail' /\ mail'[i - 1] = mail[i]
  <2>1. Len(mail) \in Nat \ {0} /\ m = mail[1] /\ 1 \in DOMAIN mail /\ m \in MailType
    BY <1>1, <1>2
  <2>2. /\ \A i \in DOMAIN mail' : i + 1 \in DOMAIN mail /\ mail'[i] = mail[i + 1]
        /\ \A i \in DOMAIN mail : i # 1 => i - 1 \in DOMAIN mail' /\ mail'[i - 1] = mail[i]
    BY <1>1, <1>2, <2>1
  <2> QED
    BY <2>1, <2>2 DEF MailType
<1>4. PICK S : /\ cursor' = [cursor EXCEPT !.handles = S]
               /\ \/ m.kind = "invoke" /\ Admits(t) /\ S \in dispatchAgentInvocation(H, tasks[t].agent, t, 1)
                  \/ m.kind = "settled" /\ S = settleTaskAgentInvocation(H, t, 1, m.outcome)
                  \/ m.kind = "view" /\ t \in cursor.index /\ S = releaseOwner(H, t)
                  \/ (m.kind = "view" => t \notin cursor.index) /\ S = H
  BY DEF routeDeliverToChildren
<1>5. cursor'.handles = S /\ cursor'.index = cursor.index /\ cursor'.runs = cursor.runs
  BY <1>2, <1>4 DEF Session
<1>6. scope = NoScope /\ ~scope.on /\ \A k \in Slots : scope.calls[k].pc = "idle"
  BY <1>1, Waiting, OutsideStep, Nothing DEF LInv
\* The store: one task takes its own agent, or a task that is over loosens its leases.
<1>7. \/ Admits(t) /\ m.kind = "invoke" /\ Takes(H, S, tasks[t].agent, t) /\ tasks[t].agent \in Agents
      \/ Loosens(H, S, {t}) /\ m.kind # "invoke" /\ ~Working(t)
      \/ S = H
  <2>1. m.kind # "invoke" => ~Working(t)
    BY <1>3 DEF LInv, MailOver, Working
  <2>2. CASE m.kind = "invoke" /\ Admits(t) /\ S \in dispatchAgentInvocation(H, tasks[t].agent, t, 1)
    <3>1. tasks[t].agent \in Agents
      BY <1>3, <2>2 DEF Admits, LInv, IInv, Named
    <3> HIDE DEF H, t, m
    <3> QED
      BY <1>2, <1>3, <2>2, <3>1, DispatchTakes DEF Owners
  <2>3. CASE m.kind = "settled" /\ S = settleTaskAgentInvocation(H, t, 1, m.outcome)
    BY <1>2, <2>1, <2>3, SettledLoosens
  <2>4. CASE m.kind = "view" /\ t \in cursor.index /\ S = releaseOwner(H, t)
    BY <1>2, <2>1, <2>4, ReleasedLoosens DEF releaseOwner
  <2> QED
    BY <1>4, <2>2, <2>3, <2>4
<1>8. UsedIn(S, used)
  <2>1. UsedIn(H, used)
    BY DEF LInv, UsedIds
  <2>2. Admits(t) => t \in used /\ tasks[t].agent \in used
    BY <1>3 DEF Admits, LInv, UsedIds, Working
  <2> HIDE DEF H, t, m
  <2> QED
    BY <1>3, <1>7, <2>1, <2>2, UsedStays DEF Owners
<1>9. UsedIds'
  BY <1>1, <1>5, <1>8 DEF LInv, UsedIds, Working
<1>10. CallTasks'
  BY <1>1, <1>6 DEF CallTasks
<1>11. MailOver' /\ Distinct'
  BY <1>1, <1>3 DEF LInv, MailOver, Distinct, Working
<1>12. ASSUME NEW u \in Tasks, Working(u) PROVE HeldOrLost(S[tasks[u].agent], u)
  <2> DEFINE b == tasks[u].agent
  <2>1. HeldOrLost(H[b], u) /\ b \in Agents
    BY <1>1, <1>12 DEF LInv, Leases, IInv, Named, Working
  <2>2. CASE Admits(t) /\ Takes(H, S, tasks[t].agent, t) /\ u = t
    BY <2>1, <2>2 DEF Takes, HeldOrLost
  <2>3. CASE Admits(t) /\ Takes(H, S, tasks[t].agent, t) /\ u # t
    <3>1. tasks[t].agent # b
      BY <1>3, <1>12, <2>3 DEF Admits, LInv, Distinct, Working
    <3> QED
      BY <2>1, <2>3, <3>1 DEF Takes
  <2>4. CASE Loosens(H, S, {t}) /\ ~Working(t)
    <3>1. u # t
      BY <1>12, <2>4
    <3> HIDE DEF b, t, m, H
    <3>2. LeasedTo(H[b], u) => S[b] = H[b]
      BY <2>1, <2>4, <3>1, Spared
    <3>3. H[b] = Absent => S[b] = H[b]
      BY <2>1, <2>4, Spared
    <3> QED
      BY <2>1, <3>2, <3>3 DEF HeldOrLost, b
  <2> QED
    BY <1>7, <2>1, <2>2, <2>3, <2>4
<1>13. Leases'
  BY <1>1, <1>5, <1>6, <1>12 DEF Leases, Working, InTurn
<1>14. RunsOver'
  BY <1>1, <1>5 DEF LInv, RunsOver, InTurn
<1>15. Claimed'
  <2>1. ClaimedBy(H, Living(cursor.index)) /\ cursor.runs = {}
    BY <1>1 DEF LInv, Claimed, RunsOver
  <2>2. \A x : Alive(x) /\ (x = t => m.kind # "view") => Alive(x)'
    <3>1. \A x : Working(x)' <=> Working(x)
      BY <1>1 DEF Working
    <3>2. ASSUME NEW x, Viewed(x), x = t => m.kind # "view" PROVE Viewed(x)'
      <4>1. PICK i \in DOMAIN mail : mail[i].task = x /\ mail[i].kind = "view"
        BY <3>2 DEF Viewed
      <4>2. i # 1
        BY <1>3, <3>2, <4>1
      <4> QED
        BY <1>3, <4>1, <4>2 DEF Viewed
    <3> QED
      BY <3>1, <3>2 DEF Alive
  <2>3. ASSUME NEW a \in Agents, S[a].phase = "claimed"
        PROVE  S[a].owner \in cursor.index /\ Alive(S[a].owner) /\ (S[a].owner = t => m.kind # "view")
    <3>1. CASE m.kind = "view" /\ t \in cursor.index /\ S = releaseOwner(H, t)
      <4>1. S[a] = H[a] /\ H[a].owner # t
        BY <1>2, <2>3, <3>1, ReleasedLoosens DEF releaseOwner
      <4> QED
        BY <2>1, <2>3, <4>1 DEF ClaimedBy, Living
    <3>2. CASE (m.kind = "view" => t \notin cursor.index) /\ S = H
      BY <2>1, <2>3, <3>2 DEF ClaimedBy, Living
    <3>3. CASE m.kind = "invoke" /\ Admits(t) /\ S \in dispatchAgentInvocation(H, tasks[t].agent, t, 1)
      <4>1. Takes(H, S, tasks[t].agent, t) \/ S = H
        BY <1>7, <3>3
      <4>2. t \in cursor.index /\ Alive(t)
        BY <3>3 DEF Admits, Alive, Working
      <4>3. S[a] = H[a] \/ S[a].owner = t
        BY <2>3, <4>1, HandleFields DEF Takes, LeasedTo
      <4> QED
        BY <2>1, <2>3, <3>3, <4>2, <4>3 DEF ClaimedBy, Living
    <3>4. CASE m.kind = "settled" /\ S = settleTaskAgentInvocation(H, t, 1, m.outcome)
      <4>1. Loosens(H, S, {t})
        BY <1>2, <3>4, SettledLoosens
      <4>2. S[a] = H[a]
        BY <2>3, <4>1, HandleFields DEF Loosens
      <4> QED
        BY <2>1, <2>3, <3>4, <4>2 DEF ClaimedBy, Living
    <3> QED
      BY <1>4, <3>1, <3>2, <3>3, <3>4
  <2>4. ClaimedBy(S, {x \in cursor.index : Alive(x)'})
    BY <2>2, <2>3 DEF ClaimedBy
  <2> QED
    BY <1>1, <1>5, <1>6, <2>1, <2>4 DEF Claimed, Living, InTurn, ClaimedBy
<1> QED
  BY <1>9, <1>10, <1>11, <1>13, <1>14, <1>15 DEF LInv

\* Tasks go on: nobody starts to work, who was alive is, what is in the mail is true.
LEMMA TasksSteady ==
  ASSUME LInv, IInv', UNCHANGED <<cursor, base, mine, turn, scope, used>>, MailOver',
         \A x \in Tasks :
           /\ Working(x)' => Working(x)
           /\ tasks'[x].agent = tasks[x].agent
           /\ tasks'[x].pc = "none" <=> tasks[x].pc = "none"
           /\ Alive(x) => Alive(x)'
  PROVE  LInv'
<1>1. cursor.index \subseteq Tasks /\ base.index \subseteq Tasks /\ mine.index \subseteq Tasks
  BY Types DEF LInv, IInv, Session
<1>2. UsedIds'
  BY DEF LInv, UsedIds
<1>3. CallTasks'
  <2>1. \A k \in Slots : scope.calls[k].pc # "idle" => scope.calls[k].task \in Tasks
    BY DEF LInv, UsedIds
  <2> QED
    BY <2>1 DEF LInv, CallTasks
<1>4. Distinct'
  BY DEF LInv, Distinct
<1>5. Leases'
  BY <1>1 DEF LInv, Leases, InTurn
<1>6. RunsOver'
  BY DEF LInv, RunsOver, InTurn
<1>7. Claimed'
  <2>1. /\ Living(cursor.index) \subseteq Living(cursor.index)'
        /\ Living(base.index) \subseteq Living(base.index)'
        /\ Living(mine.index) \subseteq Living(mine.index)'
    BY <1>1 DEF Living
  <2>2. Taking' = Taking
    BY DEF Taking, CallsOf
  <2> QED
    BY <2>1, <2>2 DEF LInv, Claimed, ClaimedBy, InTurn
<1> QED
  BY <1>2, <1>3, <1>4, <1>5, <1>6, <1>7 DEF LInv

\* Whom a message is from.
LEMMA Senders ==
  ASSUME NEW q \in Seq(MailType)
  PROVE  \A i \in DOMAIN q : q[i].task \in Tasks
<1>1. \A i \in DOMAIN q : q[i] \in MailType
  OBVIOUS
<1> QED
  BY <1>1 DEF MailType

\* More mail, and one task less at work that has said so.
LEMMA EndedSteady ==
  ASSUME LInv, NEW t \in Tasks, tasks' = Ended(t), mail' \in Seq(MailType),
         Len(mail') \in Nat, Len(mail') >= Len(mail), \A i \in DOMAIN mail : mail'[i] = mail[i],
         \A i \in DOMAIN mail' : i \in DOMAIN mail \/ mail'[i].task = t,
         Working(t) => \E i \in DOMAIN mail' : mail'[i].task = t /\ mail'[i].kind = "view"
  PROVE  /\ MailOver'
         /\ \A x \in Tasks :
              /\ Working(x)' => Working(x)
              /\ tasks'[x].agent = tasks[x].agent
              /\ x # t \/ tasks[t].pc # "none" => (tasks'[x].pc = "none" <=> tasks[x].pc = "none")
              /\ Alive(x) => Alive(x)'
<1>1. tasks \in TasksType /\ mail \in Seq(MailType)
  BY Types DEF LInv, IInv
<1>2. /\ \A x \in Tasks : x # t => tasks'[x] = tasks[x]
      /\ tasks'[t].pc = "ended" /\ tasks'[t].agent = tasks[t].agent
  BY <1>1 DEF Ended, TasksType
<1>3. \A i \in DOMAIN mail : mail[i].task \in Tasks
  BY <1>1, Senders
<1>4. MailOver'
  <2> SUFFICES ASSUME NEW i \in DOMAIN mail', mail'[i].kind # "invoke"
               PROVE  tasks'[mail'[i].task].pc = "ended"
    BY DEF MailOver
  <2>1. CASE i \in DOMAIN mail
    BY <1>2, <1>3, <2>1 DEF LInv, MailOver
  <2>2. CASE mail'[i].task = t
    BY <1>2, <2>2
  <2> QED
    BY <2>1, <2>2
<1>5. DOMAIN mail \subseteq DOMAIN mail'
  BY <1>1
<1>6. \A x : Viewed(x) => Viewed(x)'
  BY <1>5 DEF Viewed
<1>7. Working(t) => Viewed(t)'
  BY DEF Viewed
<1> QED
  BY <1>2, <1>4, <1>6, <1>7 DEF Working, Alive

\* One more message.
LEMMA Sent ==
  ASSUME NEW q \in Seq(MailType), NEW m \in MailType
  PROVE  LET n == Append(q, m)
         IN  /\ n \in Seq(MailType) /\ Len(n) = Len(q) + 1 /\ Len(q) \in Nat
             /\ \A i \in DOMAIN q : n[i] = q[i]
             /\ \A i \in DOMAIN n : i \in DOMAIN q \/ n[i] = m
             /\ Len(n) \in DOMAIN n /\ n[Len(n)] = m
OBVIOUS

LEMMA TasksGoOnL ==
  ASSUME LInv, IInv', NEW t \in Tasks, TaskInvokes(t) \/ TaskEnds(t) \/ \E o \in Outcomes : TaskSettles(t, o)
  PROVE  LInv'
<1>1. UNCHANGED <<cursor, base, mine, turn, scope, used>>
  BY DEF TaskInvokes, TaskEnds, TaskSettles, taskOthers
<1>2. tasks \in TasksType /\ mail \in Seq(MailType) /\ mail' \in Seq(MailType)
  BY Types DEF LInv, IInv
<1>3. \A kind \in {"invoke", "settled", "view"}, o \in Outcomes \cup {"none"} :
        [kind |-> kind, task |-> t, outcome |-> o] \in MailType
  BY DEF MailType
<1>4. CASE TaskInvokes(t)
  <2> DEFINE m == [kind |-> "invoke", task |-> t, outcome |-> "none"]
  <2>1. /\ m \in MailType /\ m.kind = "invoke" /\ mail' = Append(mail, m)
        /\ tasks' = [tasks EXCEPT ![t].invoked = TRUE]
    BY <1>3, <1>4 DEF TaskInvokes, Send
  <2>2. \A x \in Tasks : tasks'[x].pc = tasks[x].pc /\ tasks'[x].agent = tasks[x].agent
    BY <1>2, <2>1 DEF TasksType
  <2> HIDE DEF m
  <2>3. /\ \A i \in DOMAIN mail : mail'[i] = mail[i] /\ i \in DOMAIN mail' /\ mail[i].task \in Tasks
        /\ \A i \in DOMAIN mail' : i \in DOMAIN mail \/ mail'[i] = m
    BY <1>2, <2>1, Sent, Senders
  <2>4. MailOver'
    BY <2>1, <2>2, <2>3 DEF LInv, MailOver
  <2>5. \A x : Viewed(x) => Viewed(x)'
    BY <2>3 DEF Viewed
  <2>6. \A x \in Tasks : /\ (Working(x)' => Working(x)) /\ tasks'[x].agent = tasks[x].agent
                        /\ (tasks'[x].pc = "none" <=> tasks[x].pc = "none") /\ (Alive(x) => Alive(x)')
    BY <2>2, <2>5 DEF Working, Alive
  <2> QED
    BY <1>1, <2>4, <2>6, TasksSteady
<1>5. CASE TaskEnds(t)
  <2> DEFINE m == [kind |-> "view", task |-> t, outcome |-> "none"]
  <2>1. /\ m \in MailType /\ m.kind = "view" /\ m.task = t /\ mail' = Append(mail, m)
        /\ tasks' = Ended(t) /\ tasks[t].pc # "none"
    BY <1>3, <1>5 DEF TaskEnds, Send
  <2> HIDE DEF m
  <2>2. /\ Len(mail') \in Nat /\ Len(mail') >= Len(mail) /\ \A i \in DOMAIN mail : mail'[i] = mail[i]
        /\ \A i \in DOMAIN mail' : i \in DOMAIN mail \/ mail'[i] = m
        /\ \E i \in DOMAIN mail' : mail'[i] = m
    BY <1>2, <2>1, Sent
  <2> QED
    BY <1>1, <1>2, <2>1, <2>2, EndedSteady, TasksSteady
<1>6. ASSUME NEW o \in Outcomes, TaskSettles(t, o) PROVE LInv'
  <2> DEFINE s == [kind |-> "settled", task |-> t, outcome |-> o]
             m == [kind |-> "view", task |-> t, outcome |-> "none"]
  <2>1. /\ m \in MailType /\ m.kind = "view" /\ m.task = t /\ s \in MailType /\ s.task = t
        /\ mail' = mail \o <<s, m>> /\ tasks' = Ended(t) /\ tasks[t].pc # "none"
    BY <1>3, <1>6 DEF TaskSettles
  <2> HIDE DEF m, s
  <2>2. /\ Len(mail') = Len(mail) + 2 /\ Len(mail) \in Nat
        /\ \A i \in DOMAIN mail : mail'[i] = mail[i]
        /\ mail'[Len(mail) + 1] = s /\ mail'[Len(mail) + 2] = m
    BY <1>2, <2>1
  <2>3. /\ Len(mail) + 2 \in DOMAIN mail'
        /\ \A i \in DOMAIN mail' : i \in DOMAIN mail \/ i = Len(mail) + 1 \/ i = Len(mail) + 2
    BY <1>2, <2>2
  <2>4. Len(mail') \in Nat /\ Len(mail') >= Len(mail)
    BY <2>2
  <2>5. \A i \in DOMAIN mail' : i \in DOMAIN mail \/ mail'[i].task = t
    BY <2>1, <2>2, <2>3, Zenon
  <2>6. \E i \in DOMAIN mail' : mail'[i].task = t /\ mail'[i].kind = "view"
    BY <2>1, <2>2, <2>3, Zenon
  <2> QED
    BY <1>1, <1>2, <2>1, <2>2, <2>4, <2>5, <2>6, EndedSteady, TasksSteady
<1> QED
  BY <1>4, <1>5, <1>6

LEMMA StepBeginsL ==
  ASSUME LInv, IInv', BeginStep PROVE LInv'
<1>1. /\ turn.pc \in {"inline", "run"} /\ ~scope.on
      /\ scope' = [NoScope EXCEPT !.on = TRUE, !.store = mine.handles]
      /\ turn' = [turn EXCEPT !.steps = @ + 1]
      /\ UNCHANGED <<cursor, base, mine, tasks, calls, mail, used>>
  BY DEF BeginStep, Stepping
<1>2. scope'.on /\ scope'.calls = NoScope.calls /\ scope'.store = mine.handles
  <2>1. NoScope \in [on : BOOLEAN, store : Stores, calls : [Slots -> CallType]]
    BY Nothing DEF ScopeType
  <2> QED
    BY <1>1, <2>1
<1>3. turn'.pc = turn.pc /\ turn'.cancelled = turn.cancelled
  BY <1>1, Types DEF LInv, IInv, TurnType
<1>4. \A k \in Slots : scope'.calls[k].pc = "idle"
  BY <1>2, Nothing
<1>5. UsedIds'
  BY <1>1, <1>2, <1>4 DEF LInv, UsedIds, Working
<1>6. CallTasks'
  BY <1>4 DEF CallTasks
<1>7. MailOver' /\ Distinct'
  BY <1>1 DEF LInv, MailOver, Distinct, Working
<1>8. Leases'
  BY <1>1, <1>2, <1>3 DEF LInv, Leases, Working, InTurn
<1>9. RunsOver'
  BY <1>1, <1>3 DEF LInv, RunsOver, InTurn
<1>10. Claimed'
  <2>1. /\ Living(cursor.index)' = Living(cursor.index) /\ Living(base.index)' = Living(base.index)
        /\ Living(mine.index)' = Living(mine.index)
    BY <1>1, LivingSame DEF Living
  <2>2. /\ ClaimedBy(cursor.handles, Living(cursor.index) \cup cursor.runs)
        /\ ClaimedBy(base.handles, Living(base.index))
        /\ ClaimedBy(mine.handles, Living(mine.index) \cup mine.runs) /\ mine.runs = {}
    BY <1>1 DEF LInv, Claimed, RunsOver, InTurn
  <2> QED
    BY <1>1, <1>2, <2>1, <2>2 DEF Claimed, ClaimedBy
<1> QED
  BY <1>5, <1>6, <1>7, <1>8, <1>9, <1>10 DEF LInv

\* What a step commits: tasks at work keep what they had, those it started have
\* their agents, and every claim has an owner.
LEMMA CommittedHolds ==
  ASSUME LInv, StepDone
  PROVE  /\ \A t \in mine.index : Working(t) =>
              Committed.handles[tasks[t].agent] = mine.handles[tasks[t].agent]
         /\ \A t \in NewTasks : /\ Working(t) => LeasedTo(Committed.handles[tasks[t].agent], t)
                                /\ t \notin mine.index
         /\ ClaimedBy(Committed.handles, Living(mine.index \cup NewTasks))
         /\ UsedIn(Committed.handles, used) /\ NewTasks \subseteq used
         /\ Committed.runs = mine.runs
<1> DEFINE H == scope.store
           G == Released(H, Unclaimed, Available)
<1>1. scope.on /\ InTurn /\ turn.pc \in {"inline", "run"}
  BY DEF StepDone, LInv, IInv, Steps, InTurn
<1>2. H \in Stores /\ mine \in Session
  BY Types DEF LInv, IInv, ScopeType
<1>3. Committed.handles = G /\ Committed.runs = mine.runs
  <2> HIDE DEF G
  <2> QED
    BY <1>2 DEF Committed, Session, G
<1>4. /\ Loosens(H, G, Unclaimed)
      /\ \A a \in Agents : G[a].phase = "claimed" => G[a] = H[a] /\ H[a].owner \notin Unclaimed
  BY <1>2, ReleasedLoosens
<1>5. \A t \in Unclaimed : tasks[t].pc = "none"
  BY DEF Unclaimed, CallsOf, LInv, CallTasks
<1>6. ASSUME NEW t \in mine.index, Working(t)
      PROVE  G[tasks[t].agent] = mine.handles[tasks[t].agent]
  <2> DEFINE b == tasks[t].agent
  <2>1. /\ HeldOrLost(mine.handles[b], t) /\ b \in Agents /\ H[b] = mine.handles[b]
        /\ t \notin Unclaimed
    BY <1>1, <1>5, <1>6, TurnHolds DEF LInv, Leases, Working
  <2> HIDE DEF b, H, G
  <2>2. LeasedTo(H[b], t) => G[b] = H[b]
    BY <1>4, <2>1, Spared
  <2>3. H[b] = Absent => G[b] = H[b]
    BY <1>4, <2>1, Spared
  <2> QED
    BY <2>1, <2>2, <2>3 DEF HeldOrLost, b
<1>7. ASSUME NEW t \in NewTasks
      PROVE  /\ Working(t) => LeasedTo(G[tasks[t].agent], t)
             /\ t \notin mine.index /\ t \in used /\ Alive(t)
  <2>1. PICK k \in Slots : scope.calls[k].pc = "settled" /\ scope.calls[k].task = t
    BY DEF NewTasks, CallsOf
  <2>2. /\ t \notin mine.index /\ Alive(t) /\ tasks[t].agent = scope.calls[k].agent
        /\ LeasedTo(H[scope.calls[k].agent], t) /\ t \in used /\ scope.calls[k].agent \in Agents
    BY <2>1 DEF LInv, CallTasks, UsedIds, IInv, Named, Engaged
  <2>3. Working(t) => t \notin Unclaimed
    BY <1>5 DEF Working
  <2>4. Working(t) => G[scope.calls[k].agent] = H[scope.calls[k].agent]
    <3> DEFINE b == scope.calls[k].agent
    <3>1. b \in Agents /\ LeasedTo(H[b], t)
      BY <2>2
    <3> HIDE DEF G, H, b
    <3>2. Working(t) => G[b] = H[b]
      BY <1>4, <2>3, <3>1, Spared
    <3> QED
      BY <3>2 DEF b
  <2> QED
    BY <2>2, <2>4
<1>8. ClaimedBy(G, Living(mine.index \cup NewTasks))
  <2> SUFFICES ASSUME NEW a \in Agents, G[a].phase = "claimed"
               PROVE  G[a].owner \in Living(mine.index \cup NewTasks)
    BY DEF ClaimedBy
  <2>1. G[a] = H[a] /\ H[a].owner \notin Unclaimed
    BY <1>4
  <2>2. H[a].owner \in Living(mine.index) \cup Taking
    BY <1>1, <2>1 DEF LInv, Claimed, ClaimedBy
  <2>3. H[a].owner \in Taking => H[a].owner \in NewTasks
    BY <2>1 DEF Taking, StepDone, NewTasks, Unclaimed
  <2> QED
    BY <1>7, <2>1, <2>2, <2>3 DEF Living
<1>9. UsedIn(G, used)
  BY <1>4, UsedStays DEF LInv, UsedIds
<1> QED
  BY <1>3, <1>6, <1>7, <1>8, <1>9

LEMMA StepEndsL ==
  ASSUME LInv, IInv', NEW pc \in {"inline", "run", "wait", "result"}, NEW c \in BOOLEAN,
         StepDone, EndsStep(pc, c), mine'.handles = Committed.handles, mine'.index = Committed.index,
         pc # "wait" => mine'.runs = {},
         \/ cursor' = cursor /\ pc # "inline"
         \/ cursor' = mine' /\ turn.pc = "inline" /\ pc = "inline" /\ NewTasks = {}
  PROVE  LInv'
<1>1. /\ scope.on /\ scope' = NoScope /\ turn' = [turn EXCEPT !.pc = pc, !.cancelled = c]
      /\ UNCHANGED <<base, tasks, calls, mail, used>>
  BY DEF StepDone, EndsStep
<1>2. turn.pc \in {"inline", "run"} /\ InTurn
  BY <1>1 DEF LInv, IInv, Steps, InTurn
<1>3. turn'.pc = pc /\ InTurn' /\ ~scope'.on /\ turn'.pc \notin {"parked", "settling", "crashed"}
  BY <1>1, Types, Nothing DEF LInv, IInv, TurnType, InTurn
<1>4. /\ cursor.index = base.index /\ base.index \subseteq mine.index
      /\ turn.pc = "inline" => mine.index = base.index
      /\ mine'.index = mine.index \cup NewTasks /\ cursor'.index = base.index
  BY <1>2, CommittedShapes DEF LInv, IInv, Indexes
<1>5. Leases'
  <2>1. \A t : Working(t)' <=> Working(t)
    BY <1>1, LivingSame
  <2>2. ASSUME NEW t \in base.index, Working(t)
        PROVE  /\ cursor'.handles[tasks[t].agent] = base.handles[tasks[t].agent]
               /\ mine'.handles[tasks[t].agent] = base.handles[tasks[t].agent]
               /\ HeldOrLost(base.handles[tasks[t].agent], t)
    <3>1. /\ cursor.handles[tasks[t].agent] = base.handles[tasks[t].agent]
          /\ mine.handles[tasks[t].agent] = base.handles[tasks[t].agent]
          /\ HeldOrLost(base.handles[tasks[t].agent], t)
      BY <1>2, <2>2 DEF LInv, Leases
    <3>2. mine'.handles[tasks[t].agent] = mine.handles[tasks[t].agent]
      BY <1>4, <2>2, CommittedHolds
    <3> QED
      BY <3>1, <3>2
  <2>3. ASSUME NEW t \in mine'.index \ base.index, Working(t)
        PROVE  LeasedTo(mine'.handles[tasks[t].agent], t)
    <3>1. CASE t \in mine.index
      BY <1>2, <2>3, <3>1, CommittedHolds DEF LInv, Leases
    <3>2. CASE t \in NewTasks
      BY <2>3, <3>2, CommittedHolds
    <3> QED
      BY <1>4, <2>3, <3>1, <3>2
  <2>4. \A a \in Agents, t \in Tasks : base.handles[a].owner = t /\ Working(t) => t \in base.index
    BY <1>2 DEF LInv, Leases
  <2> QED
    BY <1>1, <1>3, <2>1, <2>2, <2>3, <2>4 DEF Leases
<1>6. RunsOver'
  <2>1. cursor.runs = {} /\ base.runs = {}
    BY <1>2 DEF LInv, RunsOver
  <2> QED
    BY <1>1, <1>3, <2>1 DEF RunsOver
<1>7. Claimed'
  <2>1. \A I : {t \in I : Alive(t)'} = Living(I)
    BY <1>1, LivingSame DEF Living
  <2>2. /\ Living(base.index)' = Living(base.index)
        /\ Living(cursor.index)' = Living(cursor'.index) /\ Living(mine.index)' = Living(mine'.index)
    BY <1>1, <2>1 DEF Living
  <2>3. ClaimedBy(mine'.handles, Living(mine'.index))
    BY <1>4, CommittedHolds
  <2>4. ClaimedBy(base.handles, Living(base.index)) /\ ClaimedBy(cursor.handles, Living(cursor.index) \cup cursor.runs)
    BY <1>2 DEF LInv, Claimed, InTurn
  <2> QED
    BY <1>1, <1>3, <2>2, <2>3, <2>4 DEF Claimed, ClaimedBy
<1>8. /\ cursor'.index \cup base'.index \cup mine'.index \subseteq used'
      /\ UsedIn(cursor'.handles, used') /\ UsedIn(base'.handles, used') /\ UsedIn(mine'.handles, used')
  BY <1>1, <1>4, CommittedHolds DEF LInv, UsedIds
<1> QED
  BY <1>1, <1>5, <1>6, <1>7, <1>8, LeasesOutside

LEMMA StepEndingsL ==
  ASSUME LInv, IInv',
         \/ InlineContinues \/ InlineHandsOver \/ RunContinues
         \/ \E cancelled \in BOOLEAN : StepSettles(cancelled)
         \/ \E rs \in SUBSET Runs : DispatchRuns(rs)
  PROVE  LInv'
<1>1. StepDone /\ turn.pc \in {"inline", "run"}
  BY DEF InlineContinues, InlineHandsOver, RunContinues, StepSettles, DispatchRuns, StepDone, LInv, IInv, Steps
<1>2. Committed.runs = {}
  BY <1>1, CommittedHolds DEF LInv, RunsOver
<1>3. CASE InlineContinues
  BY <1>1, <1>2, <1>3, StepEndsL DEF InlineContinues
<1>4. CASE InlineHandsOver
  BY <1>1, <1>2, <1>4, StepEndsL DEF InlineHandsOver
<1>5. CASE RunContinues
  BY <1>1, <1>2, <1>5, StepEndsL DEF RunContinues
<1>6. ASSUME NEW c \in BOOLEAN, StepSettles(c) PROVE LInv'
  BY <1>1, <1>2, <1>6, StepEndsL DEF StepSettles
<1>7. ASSUME NEW rs \in SUBSET Runs, DispatchRuns(rs) PROVE LInv'
  <2>1. Committed \in Session
    BY CommittedShapes DEF LInv
  <2>2. mine'.handles = Committed.handles /\ mine'.index = Committed.index
    <3>1. mine' = [Committed EXCEPT !.runs = rs]
      BY <1>7 DEF DispatchRuns
    <3> QED
      BY <2>1, <3>1 DEF Session
  <2> QED
    BY <1>1, <1>7, <2>2, StepEndsL DEF DispatchRuns
<1> QED
  BY <1>3, <1>4, <1>5, <1>6, <1>7

Leasing == {"starting", "claimed", "settled"}
Holding == {"claimed", "settled", "unclaimed"}

\* A tool call of the step moves on: what it has to respect for the leases to hold.
CallKeepsTasks(k, X) ==
  /\ \A j \in Slots : j # k /\ scope.calls[j].pc # "idle" /\ tasks[scope.calls[j].task].pc = "none" =>
       tasks'[scope.calls[j].task].pc = "none"
  /\ \A x \in Tasks : x # X.task => (Working(x)' => Working(x)) /\ tasks'[x].agent = tasks[x].agent
  /\ \A x \in Tasks : tasks'[x].pc # "none" => x \in used'
  /\ \A x \in Tasks : Alive(x) => Alive(x)'
  /\ Working(X.task)' => tasks'[X.task].agent \in used'
CallKeepsLeases(k, X, Y) ==
  /\ \A j \in Slots : j # k /\ scope.calls[j].pc \in Leasing =>
       Y[scope.calls[j].agent] = scope.store[scope.calls[j].agent]
  /\ \A t \in mine.index : Working(t) /\ Working(t)' =>
       Y[tasks[t].agent] = scope.store[tasks[t].agent]
  /\ ClaimedBy(Y, Living(mine.index) \cup Taking')
  /\ UsedIn(Y, used')
CallFits(k, X, Y) ==
  /\ X.pc # "idle" /\ X.task \in Tasks \cap used' /\ X.task \notin mine.index
  /\ \A j \in Slots : j # k /\ scope.calls[j].pc # "idle" => scope.calls[j].task # X.task
  /\ \A a \in Agents : base.handles[a].owner # X.task
  /\ X.pc # "settled" => tasks'[X.task].pc = "none"
  /\ X.pc = "settled" => Alive(X.task)' /\ tasks'[X.task].agent = X.agent
  /\ X.pc \in Leasing => LeasedTo(Y[X.agent], X.task)
  /\ X.pc = "steering" => X.old \in mine.index

LEMMA CallMovesL ==
  ASSUME LInv, IInv', NEW k \in Slots, NEW X \in CallType, NEW Y, scope.on, scope'.on, scope'.store = Y,
         scope'.calls = [scope.calls EXCEPT ![k] = X], UNCHANGED <<cursor, base, mine, turn>>,
         used \subseteq used', CallFits(k, X, Y), CallKeepsTasks(k, X), CallKeepsLeases(k, X, Y),
         MailOver', Distinct'
  PROVE  LInv'
<1> USE DEF CallFits, CallKeepsTasks, CallKeepsLeases
<1>1. scope.calls \in [Slots -> CallType]
  BY Types DEF LInv, IInv, ScopeType
<1>2. \A j \in Slots : scope'.calls[j] = IF j = k THEN X ELSE scope.calls[j]
  BY <1>1
<1>3. /\ mine.index \subseteq Tasks /\ base.index \subseteq mine.index /\ cursor.index = base.index
      /\ InTurn
  BY Types DEF LInv, IInv, Session, Steps, Indexes, InTurn
<1>4. UsedIds'
  <2>1. /\ UsedIn(cursor.handles, used') /\ UsedIn(base.handles, used') /\ UsedIn(mine.handles, used')
    BY UsedStays DEF LInv, UsedIds
  <2>2. \A x \in Tasks : Working(x)' => tasks'[x].agent \in used'
    BY DEF LInv, UsedIds
  <2>3. \A j \in Slots : scope'.calls[j].pc # "idle" => scope'.calls[j].task \in Tasks \cap used'
    BY <1>2 DEF LInv, UsedIds
  <2>4. cursor.index \cup base.index \cup mine.index \subseteq used'
    BY DEF LInv, UsedIds
  <2> QED
    BY <2>1, <2>2, <2>3, <2>4 DEF UsedIds
<1>5. CallTasks'
  <2>1. ASSUME NEW i \in Slots, NEW j \in Slots, i # j,
               scope'.calls[i].pc # "idle", scope'.calls[j].pc # "idle"
        PROVE  scope'.calls[i].task # scope'.calls[j].task
    BY <1>2, <2>1 DEF LInv, CallTasks
  <2>2. ASSUME NEW j \in Slots
        PROVE  /\ scope'.calls[j].pc \notin {"idle", "settled"} => tasks'[scope'.calls[j].task].pc = "none"
               /\ scope'.calls[j].pc = "settled" =>
                    Alive(scope.calls[j].task)' /\ tasks'[scope'.calls[j].task].agent = scope'.calls[j].agent
               /\ scope'.calls[j].pc # "idle" =>
                    /\ scope'.calls[j].task \notin mine.index
                    /\ \A a \in Agents : base.handles[a].owner # scope'.calls[j].task
               /\ scope'.calls[j].pc \in {"starting", "claimed", "settled"} =>
                    LeasedTo(Y[scope'.calls[j].agent], scope'.calls[j].task)
               /\ scope'.calls[j].pc = "steering" => scope'.calls[j].old \in mine.index
    <3>1. CASE j = k
      BY <1>2, <3>1 DEF Leasing, Alive, Viewed, Working
    <3>2. CASE j # k
      <4> DEFINE c == scope.calls[j]
      <4>1. scope'.calls[j] = c
        BY <1>2, <3>2
      <4>2. c.pc # "idle" => c.task \in Tasks /\ c.task # X.task
        BY <3>2 DEF LInv, UsedIds
      <4>3. /\ c.pc \notin {"idle", "settled"} => tasks[c.task].pc = "none"
            /\ c.pc = "settled" => Alive(c.task) /\ tasks[c.task].agent = c.agent
            /\ c.pc # "idle" => c.task \notin mine.index /\ \A a \in Agents : base.handles[a].owner # c.task
            /\ c.pc \in {"starting", "claimed", "settled"} => LeasedTo(scope.store[c.agent], c.task)
            /\ c.pc = "steering" => c.old \in mine.index
        BY DEF LInv, CallTasks
      <4>4. /\ c.pc \notin {"idle", "settled"} => tasks'[c.task].pc = "none"
            /\ c.pc = "settled" => Alive(c.task)' /\ tasks'[c.task].agent = c.agent
        BY <3>2, <4>2, <4>3
      <4>5. c.pc \in {"starting", "claimed", "settled"} => LeasedTo(Y[c.agent], c.task)
        BY <3>2, <4>3 DEF Leasing
      <4> QED
        BY <4>1, <4>3, <4>4, <4>5 DEF Alive, Viewed, Working
    <3> QED
      BY <3>1, <3>2
  <2> QED
    BY <2>1, <2>2 DEF CallTasks
<1>6. Leases'
  <2>1. \A t \in mine.index : Working(t)' => Working(t) /\ tasks'[t].agent = tasks[t].agent
    BY <1>3
  <2>2. ASSUME NEW t \in base.index, Working(t)'
        PROVE  /\ cursor.handles[tasks'[t].agent] = base.handles[tasks'[t].agent]
               /\ mine.handles[tasks'[t].agent] = base.handles[tasks'[t].agent]
               /\ HeldOrLost(base.handles[tasks'[t].agent], t)
    BY <1>3, <2>1, <2>2 DEF LInv, Leases
  <2>3. ASSUME NEW t \in mine.index \ base.index, Working(t)'
        PROVE  LeasedTo(mine.handles[tasks'[t].agent], t)
    BY <1>3, <2>1, <2>3 DEF LInv, Leases
  <2>4. \A a \in Agents, t \in Tasks : base.handles[a].owner = t /\ Working(t)' => t \in base.index
    BY <1>3 DEF LInv, Leases
  <2>5. ASSUME NEW t \in mine.index, Working(t)'
        PROVE  Y[tasks'[t].agent] = mine.handles[tasks'[t].agent]
    BY <2>1, <2>5 DEF LInv, Leases
  <2>6. turn.pc \in {"inline", "run"} /\ (turn.pc = "inline" => mine = cursor)
    BY DEF LInv, IInv, Steps, Leases
  <2> QED
    BY <2>2, <2>3, <2>4, <2>5, <2>6 DEF Leases
<1>7. RunsOver'
  BY DEF LInv, RunsOver, InTurn
<1>8. Claimed'
  <2>1. /\ Living(cursor.index) \subseteq Living(cursor.index)'
        /\ Living(base.index) \subseteq Living(base.index)'
        /\ Living(mine.index) \subseteq Living(mine.index)'
    BY <1>3 DEF Living
  <2>2. /\ ClaimedBy(cursor.handles, Living(cursor.index) \cup cursor.runs)
        /\ ClaimedBy(base.handles, Living(base.index))
        /\ ClaimedBy(mine.handles, Living(mine.index) \cup mine.runs)
    BY <1>3 DEF LInv, Claimed, InTurn
  <2> QED
    BY <2>1, <2>2 DEF Claimed, ClaimedBy
<1> QED
  BY <1>4, <1>5, <1>6, <1>7, <1>8 DEF LInv

\* Nobody has a lease on what is free, and who has one keeps it when only that of
\* somebody else is changed.
LEMMA StoreSpared ==
  ASSUME LInv, scope.on, NEW Y, NEW o \in Tasks,
         \A b \in Agents : b \in used /\ ~Free(scope.store[b]) /\ scope.store[b].owner # o =>
           Y[b] = scope.store[b]
  PROVE  /\ \A j \in Slots : scope.calls[j].pc \in Leasing /\ scope.calls[j].task # o =>
              Y[scope.calls[j].agent] = scope.store[scope.calls[j].agent]
         /\ \A t \in mine.index : Working(t) /\ t # o => Y[tasks[t].agent] = scope.store[tasks[t].agent]
<1>1. ASSUME NEW j \in Slots, scope.calls[j].pc \in Leasing, scope.calls[j].task # o
      PROVE  Y[scope.calls[j].agent] = scope.store[scope.calls[j].agent]
  <2> DEFINE b == scope.calls[j].agent
  <2>1. b \in Agents /\ LeasedTo(scope.store[b], scope.calls[j].task)
    BY <1>1 DEF LInv, CallTasks, IInv, Named, Engaged, Leasing
  <2>2. scope.store[b] # Absent /\ ~Free(scope.store[b]) /\ scope.store[b].owner # o
    BY <1>1, <2>1, HandleFields DEF LeasedTo, Free
  <2>3. b \in used
    BY <2>1, <2>2 DEF LInv, UsedIds, UsedIn
  <2> QED
    BY <2>1, <2>2, <2>3
<1>2. ASSUME NEW t \in mine.index, Working(t), t # o
      PROVE  Y[tasks[t].agent] = scope.store[tasks[t].agent]
  <2> DEFINE b == tasks[t].agent
  <2>1. InTurn
    BY DEF LInv, IInv, Steps, InTurn
  <2>2. /\ HeldOrLost(mine.handles[b], t) /\ b \in used /\ b \in Agents
        /\ scope.store[b] = mine.handles[b]
    BY <1>2, <2>1, TurnHolds DEF LInv, Leases
  <2>3. ~Free(scope.store[b]) /\ scope.store[b].owner # o
    BY <1>2, <2>2, HandleFields, HandleConstants DEF HeldOrLost, LeasedTo, Free
  <2> QED
    BY <2>2, <2>3
<1> QED
  BY <1>1, <1>2

LEMMA TakingGrows ==
  ASSUME NEW k \in Slots, NEW X, scope.calls \in [Slots -> CallType],
         scope'.calls = [scope.calls EXCEPT ![k] = X],
         scope.calls[k].pc \in Holding => X.pc \in Holding /\ X.task = scope.calls[k].task
  PROVE  Taking \subseteq Taking' /\ (X.pc \in Holding => X.task \in Taking')
<1>1. \A j \in Slots : scope'.calls[j] = IF j = k THEN X ELSE scope.calls[j]
  OBVIOUS
<1>2. Taking = {scope.calls[j].task : j \in {i \in Slots : scope.calls[i].pc \in Holding}}
  BY DEF Taking, CallsOf, Holding
<1>3. Taking' = {scope'.calls[j].task : j \in {i \in Slots : scope'.calls[i].pc \in Holding}}
  BY DEF Taking, CallsOf, Holding
<1> QED
  BY <1>1, <1>2, <1>3

\* A minted task is nobody's yet.
LEMMA Minted ==
  ASSUME LInv, NEW t, Mints(t, Tasks)
  PROVE  /\ t \in Tasks /\ t \notin used /\ tasks[t].pc = "none" /\ t \notin mine.index
         /\ \A a \in Agents : base.handles[a].owner # t /\ scope.store[a].owner # t
         /\ \A k \in Slots : scope.calls[k].pc # "idle" => scope.calls[k].task # t
<1>1. t \in Tasks /\ t \notin used
  BY DEF Mints, Fresh
<1> QED
  BY <1>1 DEF LInv, UsedIds, UsedIn

\* The task of a call is its own and not started yet.
OwnTask(k, t) ==
  /\ t \in Tasks \cap used' /\ tasks[t].pc = "none" /\ t \notin mine.index
  /\ \A j \in Slots : j # k /\ scope.calls[j].pc # "idle" => scope.calls[j].task # t
  /\ \A a \in Agents : base.handles[a].owner # t

LEMMA MintedOwn ==
  ASSUME LInv, NEW k \in Slots, NEW t, Mints(t, Tasks), t \in used'
  PROVE  OwnTask(k, t)
BY Minted DEF OwnTask

LEMMA SetStores ==
  ASSUME IInv, NEW k \in Slots, NEW X, NEW Y
  PROVE  /\ scope' = [scope EXCEPT !.calls[k] = X] => scope'.store = scope.store
         /\ scope' = [[scope EXCEPT !.calls[k] = X] EXCEPT !.store = Y] => scope'.store = Y
<1>1. scope \in [on : BOOLEAN, store : Stores, calls : [Slots -> CallType]]
  BY Types DEF IInv, ScopeType
<1> QED
  BY <1>1

\* With tasks and mail as they were, a call only has to keep the leases of others.
SparesOthers(X, Y) ==
  /\ \A b \in Agents : b \in used /\ ~Free(scope.store[b]) /\ scope.store[b].owner # X.task =>
       Y[b] = scope.store[b]
  /\ X.pc \in Leasing => LeasedTo(Y[X.agent], X.task)
  /\ ClaimedBy(Y, Living(mine.index) \cup Taking')
  /\ UsedIn(Y, used')

LEMMA CallMovesQuietly ==
  ASSUME LInv, IInv', NEW k \in Slots, NEW X \in CallType, NEW Y, scope.on, scope'.on, scope'.store = Y,
         scope'.calls = [scope.calls EXCEPT ![k] = X],
         UNCHANGED <<cursor, base, mine, turn, tasks, mail>>, used \subseteq used',
         X.pc \notin {"idle", "settled"}, X.pc = "steering" => X.old \in mine.index,
         OwnTask(k, X.task), SparesOthers(X, Y)
  PROVE  LInv'
<1> USE DEF OwnTask, SparesOthers
<1>1. \A x : (Working(x)' <=> Working(x)) /\ (Alive(x)' <=> Alive(x))
  BY LivingSame
<1>2. MailOver' /\ Distinct'
  BY DEF LInv, MailOver, Distinct, Working
<1>3. \A x \in Tasks : tasks'[x].pc # "none" => x \in used'
  BY DEF LInv, UsedIds
<1>4. /\ \A j \in Slots : j # k /\ scope.calls[j].pc \in Leasing =>
           Y[scope.calls[j].agent] = scope.store[scope.calls[j].agent]
      /\ \A t \in mine.index : Working(t) => Y[tasks[t].agent] = scope.store[tasks[t].agent]
  <2>1. \A j \in Slots : scope.calls[j].pc \in Leasing => scope.calls[j].pc # "idle"
    BY DEF Leasing
  <2> QED
    BY <2>1, StoreSpared
<1>5. ~Working(X.task)'
  BY <1>1 DEF Working
<1>6. CallFits(k, X, Y)
  BY DEF CallFits
<1>7. CallKeepsTasks(k, X)
  BY <1>1, <1>3, <1>5 DEF CallKeepsTasks
<1>8. CallKeepsLeases(k, X, Y)
  BY <1>4 DEF CallKeepsLeases
<1>9. UNCHANGED <<cursor, base, mine, turn>>
  OBVIOUS
<1> QED
  BY <1>2, <1>6, <1>7, <1>8, <1>9, CallMovesL

LEMMA StartsFreshL ==
  ASSUME LInv, IInv', NEW k \in Slots, NEW t \in Tasks, NEW a \in Agents, CallStartsFresh(k, t, a)
  PROVE  LInv'
<1> DEFINE X == [pc |-> "starting", task |-> t, agent |-> a, old |-> Nobody]
           Y == reserve(scope.store, a, t, 1)
<1>1. /\ scope.on /\ scope.calls[k].pc = "idle" /\ used' = used \cup {t, a}
      /\ scope' = [[scope EXCEPT !.calls[k] = X] EXCEPT !.store = Y]
      /\ Mints(t, Tasks) /\ a \notin used
      /\ UNCHANGED <<cursor, base, mine, turn, tasks, calls, mail>>
  BY DEF CallStartsFresh, Calls, SetCall, Idle, Mints, Fresh
<1>2. X \in CallType /\ X.pc = "starting" /\ X.task = t /\ X.agent = a
  BY DEF CallType, CallPhases
<1>3. IInv /\ scope.store \in Stores /\ scope.calls \in [Slots -> CallType]
  BY Types DEF LInv, IInv, ScopeType
<1>4. scope.store[a] = Absent
  BY <1>1 DEF LInv, UsedIds, UsedIn
<1>5. Y \in Stores /\ Takes(scope.store, Y, a, t) /\ Y[a] = Handle("reserved", t, 1)
  BY <1>3, <1>4, StoreShapes, ReserveTakes DEF Owners
<1>6. scope'.on /\ scope'.calls = [scope.calls EXCEPT ![k] = X] /\ scope'.store = Y
  <2> HIDE DEF X, Y
  <2> QED
    BY <1>1, <1>2, <1>3, <1>5, SetCalls, SetStores
<1> HIDE DEF X, Y
<1>7. UsedIn(Y, used')
  <2>1. UsedIn(scope.store, used)
    BY DEF LInv, UsedIds
  <2> QED
    BY <1>1, <1>5, <2>1, UsedStays DEF Owners
<1>8. LeasedTo(Y[X.agent], X.task)
  BY <1>2, <1>5, HandleFields DEF LeasedTo
<1>9. ClaimedBy(Y, Living(mine.index) \cup Taking')
  <2>1. Taking \subseteq Taking'
    BY <1>1, <1>2, <1>3, <1>6, TakingGrows DEF Holding
  <2>2. ClaimedBy(scope.store, Living(mine.index) \cup Taking)
    BY <1>1 DEF LInv, Claimed
  <2> QED
    BY <1>5, <2>1, <2>2, HandleFields DEF ClaimedBy, Takes
<1>10. \A b \in Agents : b \in used => Y[b] = scope.store[b]
  BY <1>1, <1>5 DEF Takes
<1>11. OwnTask(k, X.task) /\ used \subseteq used'
  BY <1>1, <1>2, MintedOwn
<1>12. SparesOthers(X, Y)
  BY <1>7, <1>8, <1>9, <1>10 DEF SparesOthers
<1>13. X.pc \notin {"idle", "settled"} /\ X.pc # "steering" /\ UNCHANGED <<cursor, base, mine, turn, tasks, mail>>
  BY <1>1, <1>2
<1> QED
  BY <1>1, <1>2, <1>6, <1>11, <1>12, <1>13, CallMovesQuietly

LEMMA ResumesL ==
  ASSUME LInv, IInv', NEW k \in Slots, NEW t \in Tasks, NEW a \in Agents, CallResumes(k, t, a)
  PROVE  LInv'
<1> DEFINE h == scope.store[a]
           X(pc, o) == [pc |-> pc, task |-> t, agent |-> a, old |-> o]
           Y == claim(scope.store, a, t, 1)
<1>1. /\ scope.on /\ scope.calls[k].pc = "idle" /\ used' = used \cup {t} /\ Mints(t, Tasks) /\ h # Absent
      /\ UNCHANGED <<cursor, base, mine, turn, tasks, calls, mail>>
  BY DEF CallResumes, Calls, Idle
<1>2. \/ Free(h) /\ scope' = [[scope EXCEPT !.calls[k] = X("claimed", Nobody)] EXCEPT !.store = Y]
      \/ scope' = [scope EXCEPT !.calls[k] = X("steering", h.owner)] /\ h.owner \in mine.index
      \/ scope' = [scope EXCEPT !.calls[k] = X("failed", h.owner)]
  BY DEF CallResumes, SetCall
<1>3. IInv /\ scope.store \in Stores /\ scope.calls \in [Slots -> CallType] /\ h \in Handles
  BY Types DEF LInv, IInv, ScopeType, Stores
<1>4. h.owner \in Owners \cup {Nobody}
  BY <1>3 DEF Handles
<1>5. \A pc \in CallPhases, o \in Owners \cup {Nobody} : X(pc, o) \in CallType
  BY DEF CallType
<1>6. /\ Y \in Stores /\ Takes(scope.store, Y, a, t)
      /\ Free(h) => Y[a] = Handle("claimed", t, 1)
      /\ \A b \in Agents : ~Free(scope.store[b]) => Y[b] = scope.store[b]
  <2>1. /\ Y \in Stores /\ Takes(scope.store, Y, a, t)
        /\ Free(h) => Y[a] = Handle("claimed", t, 1)
        /\ ~Free(h) => Y = scope.store
    BY <1>3, StoreShapes, ClaimTakes DEF Owners
  <2> QED
    BY <2>1 DEF Takes
<1>7. a \in used /\ UsedIn(scope.store, used) /\ ClaimedBy(scope.store, Living(mine.index) \cup Taking)
  BY <1>1 DEF LInv, UsedIds, UsedIn, Claimed
<1>8. CASE Free(h) /\ scope' = [[scope EXCEPT !.calls[k] = X("claimed", Nobody)] EXCEPT !.store = Y]
  <2> DEFINE Z == X("claimed", Nobody)
  <2>1. Z \in CallType /\ Z.pc = "claimed" /\ Z.task = t /\ Z.agent = a
    BY <1>5 DEF CallPhases
  <2>2. scope'.on /\ scope'.calls = [scope.calls EXCEPT ![k] = Z] /\ scope'.store = Y
    <3>1. scope' = [[scope EXCEPT !.calls[k] = Z] EXCEPT !.store = Y] /\ Y \in Stores
      BY <1>6, <1>8
    <3> HIDE DEF Z, Y
    <3> QED
      BY <1>1, <1>3, <2>1, <3>1, SetCalls, SetStores
  <2> HIDE DEF Z, Y, h
  <2>3. UsedIn(Y, used')
    BY <1>1, <1>6, <1>7, UsedStays DEF Owners
  <2>4. LeasedTo(Y[Z.agent], Z.task)
    BY <1>6, <1>8, <2>1, HandleFields DEF LeasedTo
  <2>5. ClaimedBy(Y, Living(mine.index) \cup Taking')
    <3>1. Taking \subseteq Taking' /\ t \in Taking'
      BY <1>1, <1>3, <2>1, <2>2, TakingGrows DEF Holding
    <3>2. Living(mine.index) \cup Taking \subseteq Living(mine.index) \cup Taking'
      BY <3>1
    <3>3. t \in Living(mine.index) \cup Taking'
      BY <3>1
    <3>4. Takes(scope.store, Y, a, t) /\ ClaimedBy(scope.store, Living(mine.index) \cup Taking)
      BY <1>6, <1>7
    <3> QED
      BY ONLY <3>2, <3>3, <3>4, ClaimsStay
  <2>6. OwnTask(k, Z.task) /\ used \subseteq used'
    BY <1>1, <2>1, MintedOwn
  <2>7. SparesOthers(Z, Y)
    BY <1>6, <2>3, <2>4, <2>5 DEF SparesOthers
  <2>8. Z.pc \notin {"idle", "settled"} /\ Z.pc # "steering" /\ UNCHANGED <<cursor, base, mine, turn, tasks, mail>>
    BY <1>1, <2>1
  <2> QED
    BY <1>1, <2>1, <2>2, <2>6, <2>7, <2>8, CallMovesQuietly
<1>9. ASSUME NEW pc \in {"steering", "failed"}, scope' = [scope EXCEPT !.calls[k] = X(pc, h.owner)],
             pc = "steering" => h.owner \in mine.index
      PROVE  LInv'
  <2> DEFINE Z == X(pc, h.owner)
  <2>1. Z \in CallType /\ Z.pc = pc /\ Z.task = t /\ Z.agent = a /\ Z.old = h.owner
    BY <1>4, <1>5 DEF CallPhases
  <2>2. scope'.on /\ scope'.calls = [scope.calls EXCEPT ![k] = Z] /\ scope'.store = scope.store
    <3>1. scope' = [scope EXCEPT !.calls[k] = Z]
      BY <1>9
    <3> HIDE DEF Z
    <3> QED
      BY <1>1, <1>3, <2>1, <3>1, SetCalls, SetStores
  <2> HIDE DEF Z, h
  <2>3. UsedIn(scope.store, used')
    BY <1>1, <1>7, UsedStays
  <2>4. ClaimedBy(scope.store, Living(mine.index) \cup Taking')
    <3>1. Taking \subseteq Taking'
      BY <1>1, <1>3, <2>1, <2>2, TakingGrows DEF Holding
    <3> QED
      BY <1>7, <3>1, ClaimsStay
  <2>5. Z.pc \notin Leasing /\ Z.pc \notin {"idle", "settled"} /\ (Z.pc = "steering" => Z.old \in mine.index)
    BY <1>9, <2>1 DEF Leasing
  <2>6. OwnTask(k, Z.task) /\ used \subseteq used'
    BY <1>1, <2>1, MintedOwn
  <2>7. SparesOthers(Z, scope.store)
    BY <2>3, <2>4, <2>5 DEF SparesOthers
  <2>8. UNCHANGED <<cursor, base, mine, turn, tasks, mail>>
    BY <1>1
  <2> QED
    BY <1>1, <2>1, <2>2, <2>5, <2>6, <2>7, <2>8, CallMovesQuietly
<1> QED
  BY <1>2, <1>8, <1>9

LEMMA OwnTaskStays ==
  ASSUME LInv, NEW k \in Slots, scope.calls[k].pc \notin {"idle", "settled"}, used \subseteq used'
  PROVE  OwnTask(k, scope.calls[k].task) /\ scope.on
<1>1. OwnTask(k, scope.calls[k].task)
  BY DEF LInv, UsedIds, CallTasks, OwnTask
<1>2. scope.on
  BY CallShapes DEF LInv
<1> QED
  BY <1>1, <1>2

LEMMA ThrowsL ==
  ASSUME LInv, IInv', NEW k \in Slots, CallSteeringThrows(k) \/ RunStartThrows(k)
  PROVE  LInv'
<1> DEFINE c == scope.calls[k]
           X == [c EXCEPT !.pc = IF c.pc = "claimed" THEN "unclaimed" ELSE "failed"]
<1>1. /\ c.pc \in {"steering", "starting", "claimed"} /\ UNCHANGED <<cursor, base, mine, turn, tasks, mail>>
      /\ used \subseteq used'
  BY DEF CallSteeringThrows, RunStartThrows
<1>2. IInv /\ c \in CallType /\ scope.calls \in [Slots -> CallType] /\ scope.store \in Stores
  BY Types DEF LInv, IInv, ScopeType
<1>3. scope' = [scope EXCEPT !.calls[k] = X]
  <2>1. CASE CallSteeringThrows(k)
    BY <2>1 DEF CallSteeringThrows
  <2>2. CASE RunStartThrows(k)
    <3>1. c.pc \in {"starting", "claimed"}
      BY <2>2 DEF RunStartThrows
    <3>2. scope' = [scope EXCEPT !.calls[k] = [c EXCEPT !.pc = IF c.pc = "starting" THEN "failed" ELSE "unclaimed"]]
      BY <2>2 DEF RunStartThrows
    <3>3. (IF c.pc = "starting" THEN "failed" ELSE "unclaimed") = (IF c.pc = "claimed" THEN "unclaimed" ELSE "failed")
      BY <3>1
    <3> QED
      BY <3>2, <3>3
  <2> QED
    BY <2>1, <2>2
<1>4. /\ X \in CallType /\ X.task = c.task
      /\ X.pc = IF c.pc = "claimed" THEN "unclaimed" ELSE "failed"
  BY <1>1, <1>2 DEF CallType, CallPhases
<1> HIDE DEF X
<1>5. OwnTask(k, X.task) /\ scope.on
  BY <1>1, <1>4, OwnTaskStays
<1>6. scope'.on /\ scope'.calls = [scope.calls EXCEPT ![k] = X] /\ scope'.store = scope.store
  BY <1>2, <1>3, <1>4, <1>5, SetCalls, SetStores
<1>7. X.pc \notin Leasing /\ X.pc \notin {"idle", "settled", "steering"}
  BY <1>4 DEF Leasing
<1>8. SparesOthers(X, scope.store)
  <2>1. Taking \subseteq Taking'
    BY <1>1, <1>2, <1>4, <1>6, TakingGrows DEF Holding
  <2>2. UsedIn(scope.store, used')
    BY <1>1, UsedStays DEF LInv, UsedIds
  <2>3. ClaimedBy(scope.store, Living(mine.index) \cup Taking')
    BY <1>5, <2>1 DEF LInv, Claimed, ClaimedBy
  <2> QED
    BY <1>7, <2>2, <2>3 DEF SparesOthers
<1> QED
  BY <1>1, <1>4, <1>5, <1>6, <1>7, <1>8, CallMovesQuietly

LEMMA StartedL ==
  ASSUME LInv, IInv', NEW k \in Slots, RunStarts(k)
  PROVE  LInv'
<1>0. PICK c : c = scope.calls[k]
  OBVIOUS
<1> DEFINE X == [c EXCEPT !.pc = "settled"]
           t == c.task
           a == c.agent
<1>1. /\ c.pc \in {"starting", "claimed"} /\ scope' = [scope EXCEPT !.calls[k] = X]
      /\ tasks' = [tasks EXCEPT ![t] = [pc |-> "working", agent |-> a, invoked |-> FALSE]]
      /\ UNCHANGED <<cursor, base, mine, turn, mail>> /\ used' = used
  BY <1>0 DEF RunStarts
<1>2. IInv /\ c \in CallType /\ scope.calls \in [Slots -> CallType] /\ scope.store \in Stores
      /\ tasks \in TasksType /\ mail \in Seq(MailType)
  BY <1>0, Types DEF LInv, IInv, ScopeType
<1>3. X \in CallType /\ X.task = t /\ X.agent = a /\ X.pc = "settled"
  BY <1>2 DEF CallType, CallPhases
<1>4. OwnTask(k, t) /\ scope.on
  BY <1>0, <1>1, OwnTaskStays
<1>5. t \in Tasks /\ a \in Agents /\ LeasedTo(scope.store[a], t)
  BY <1>0, <1>1 DEF LInv, IInv, Named, Engaged, CallTasks
<1> HIDE DEF X, t, a
<1>6. scope'.on /\ scope'.calls = [scope.calls EXCEPT ![k] = X] /\ scope'.store = scope.store
  BY <1>1, <1>2, <1>3, <1>4, SetCalls, SetStores
<1>7. /\ tasks'[t].pc = "working" /\ tasks'[t].agent = a
      /\ \A x \in Tasks : x # t => tasks'[x] = tasks[x]
  BY <1>1, <1>2, <1>5 DEF TasksType
<1>8. t \in used' /\ tasks[t].pc = "none" /\ t \notin mine.index
  BY <1>4 DEF OwnTask
<1>9. MailOver'
  <2>1. \A i \in DOMAIN mail : mail[i].task \in Tasks
    BY <1>2, Senders
  <2> QED
    BY <1>1, <1>7, <1>8, <2>1 DEF LInv, MailOver
<1>10. ASSUME NEW u \in Tasks, u # t, Working(u) PROVE tasks[u].agent # a
  <2>1. CASE u \in mine.index
    <3>1. HeldOrLost(scope.store[tasks[u].agent], u)
      <4>1. InTurn
        BY <1>4 DEF LInv, IInv, Steps, InTurn
      <4> QED
        BY <1>4, <1>10, <2>1, <4>1, TurnHolds DEF LInv, Leases
    <3> QED
      BY <1>5, <1>10, <3>1, HandleFields DEF HeldOrLost, LeasedTo
  <2>2. ASSUME NEW j \in Slots, scope.calls[j].pc = "settled", scope.calls[j].task = u
        PROVE  tasks[u].agent # a
    <3>1. LeasedTo(scope.store[tasks[u].agent], u)
      BY <2>2 DEF LInv, CallTasks
    <3> QED
      BY <1>5, <1>10, <3>1 DEF LeasedTo
  <2>3. u \in mine.index \/ \E j \in Slots : scope.calls[j].pc = "settled" /\ scope.calls[j].task = u
    BY <1>4, <1>10 DEF LInv, IInv, Steps, Indexes, TaskNotOrphaned, NewTasks, CallsOf, Working
  <2> QED
    BY <2>1, <2>2, <2>3
<1>11. Distinct'
  BY <1>7, <1>10 DEF LInv, Distinct, Working
<1>12. CallFits(k, X, scope.store)
  <2>1. Working(t)'
    BY <1>7 DEF Working
  <2>2. Alive(t)'
    BY <2>1 DEF Alive
  <2> QED
    BY <1>3, <1>4, <1>5, <1>7, <2>2 DEF CallFits, OwnTask
<1>13. CallKeepsTasks(k, X)
  <2>1. scope.store[a] # Absent
    BY <1>5, HandleFields DEF LeasedTo
  <2>2. a \in used
    BY <1>5, <2>1 DEF LInv, UsedIds, UsedIn
  <2>3. \A x : Viewed(x)' <=> Viewed(x)
    BY <1>1 DEF Viewed
  <2>4. \A j \in Slots : j # k /\ scope.calls[j].pc # "idle" => scope.calls[j].task \in Tasks /\ scope.calls[j].task # t
    BY <1>4 DEF LInv, UsedIds, OwnTask
  <2> QED
    BY <1>1, <1>3, <1>7, <1>8, <2>2, <2>3, <2>4 DEF CallKeepsTasks, LInv, UsedIds, Working, Alive
<1>14. CallKeepsLeases(k, X, scope.store)
  <2>1. Taking \subseteq Taking'
    BY <1>0, <1>1, <1>2, <1>3, <1>6, TakingGrows DEF Holding, t
  <2>2. UsedIn(scope.store, used')
    BY <1>1, UsedStays DEF LInv, UsedIds
  <2>3. ClaimedBy(scope.store, Living(mine.index) \cup Taking')
    BY <1>4, <2>1 DEF LInv, Claimed, ClaimedBy
  <2> QED
    BY <2>2, <2>3 DEF CallKeepsLeases
<1>15. used \subseteq used' /\ UNCHANGED <<cursor, base, mine, turn>>
  BY <1>1
<1> QED
  BY <1>3, <1>4, <1>6, <1>9, <1>11, <1>12, <1>13, <1>14, <1>15, CallMovesL

\* The task that is steered away tells the session of its end, if it was at work.
LEMMA ToldSteady ==
  ASSUME LInv, NEW t \in Tasks, tasks' = Ended(t), mail' = Told(t)
  PROVE  /\ MailOver'
         /\ \A x \in Tasks :
              /\ Working(x)' => Working(x)
              /\ tasks'[x].agent = tasks[x].agent
              /\ x # t => tasks'[x] = tasks[x]
              /\ Alive(x) => Alive(x)'
         /\ ~Working(t)'
<1> DEFINE m == [kind |-> "view", task |-> t, outcome |-> "none"]
<1>1. tasks \in TasksType /\ mail \in Seq(MailType) /\ mail' \in Seq(MailType)
  BY Types, EndedShapes DEF LInv, IInv
<1>2. m \in MailType /\ m.kind = "view" /\ m.task = t
  BY DEF MailType
<1>3. mail' = IF Working(t) THEN Append(mail, m) ELSE mail
  BY DEF Told, Working
<1>4. /\ \A x \in Tasks : x # t => tasks'[x] = tasks[x]
      /\ tasks'[t].pc = "ended"
  BY <1>1 DEF Ended, TasksType
<1> HIDE DEF m
<1>5. /\ Len(mail') \in Nat /\ Len(mail') >= Len(mail) /\ \A i \in DOMAIN mail : mail'[i] = mail[i]
      /\ \A i \in DOMAIN mail' : i \in DOMAIN mail \/ mail'[i] = m
      /\ Working(t) => \E i \in DOMAIN mail' : mail'[i] = m
  <2>1. CASE Working(t)
    BY <1>1, <1>2, <1>3, <2>1, Sent
  <2>2. CASE ~Working(t)
    BY <1>1, <1>3, <2>2
  <2> QED
    BY <2>1, <2>2
<1>6. /\ MailOver'
      /\ \A x \in Tasks : /\ Working(x)' => Working(x)
                          /\ tasks'[x].agent = tasks[x].agent
                          /\ Alive(x) => Alive(x)'
  BY <1>1, <1>2, <1>5, EndedSteady
<1>7. ~Working(t)'
  BY <1>4 DEF Working
<1> QED
  BY <1>4, <1>6, <1>7

LEMMA SteersL ==
  ASSUME LInv, IInv', NEW k \in Slots, CallSteers(k)
  PROVE  LInv'
<1>0. PICK c, R, Y : c = scope.calls[k] /\ R = releaseOwner(scope.store, c.old) /\ Y = claim(R, c.agent, c.task, 1)
  OBVIOUS
<1> DEFINE o == c.old
           t == c.task
           a == c.agent
           X == [pc |-> IF LeasedTo(Y[a], t) THEN "claimed" ELSE "failed",
                 task |-> t, agent |-> a, old |-> Nobody]
<1>1. /\ c.pc = "steering" /\ scope' = [[scope EXCEPT !.calls[k] = X] EXCEPT !.store = Y]
      /\ tasks' = Ended(o) /\ mail' = Told(o) /\ used' = used
      /\ UNCHANGED <<cursor, base, mine, turn>>
  BY <1>0 DEF CallSteers, SetCall
<1>2. IInv /\ scope.calls \in [Slots -> CallType] /\ scope.store \in Stores
  BY Types DEF LInv, IInv, ScopeType
<1>3. o \in Tasks /\ t \in Tasks /\ a \in Agents /\ o \in mine.index
  BY <1>0, <1>1 DEF LInv, CallTasks, IInv, Steps, Named, Engaged
<1>4. OwnTask(k, t) /\ scope.on
  BY <1>0, <1>1, OwnTaskStays
<1>5. R \in Stores /\ Loosens(scope.store, R, {o})
  BY <1>0, <1>2, StoreShapes, ReleasedLoosens DEF releaseOwner
<1>6. Y \in Stores /\ Takes(R, Y, a, t) /\ (Free(R[a]) => Y[a] = Handle("claimed", t, 1)) /\ (~Free(R[a]) => Y = R)
  BY <1>0, <1>3, <1>5, StoreShapes, ClaimTakes DEF Owners
<1>7. /\ X \in CallType /\ X.task = t /\ X.agent = a /\ X.pc = IF LeasedTo(Y[a], t) THEN "claimed" ELSE "failed"
  BY <1>3 DEF CallType, CallPhases
<1> HIDE DEF X, o, t, a
<1>8. scope'.on /\ scope'.calls = [scope.calls EXCEPT ![k] = X] /\ scope'.store = Y
  BY <1>1, <1>2, <1>4, <1>6, <1>7, SetCalls, SetStores
<1>9. /\ MailOver' /\ ~Working(o)'
      /\ \A x \in Tasks : /\ Working(x)' => Working(x)
                          /\ tasks'[x].agent = tasks[x].agent
                          /\ x # o => tasks'[x] = tasks[x]
                          /\ Alive(x) => Alive(x)'
  BY <1>1, <1>3, ToldSteady
<1>10. Distinct'
  BY <1>9 DEF LInv, Distinct
<1>11. t # o /\ tasks'[t].pc = "none"
  BY <1>3, <1>4, <1>9 DEF OwnTask
<1>12. \A j \in Slots : scope.calls[j].pc # "idle" => scope.calls[j].task \in Tasks /\ scope.calls[j].task # o
  BY <1>3 DEF LInv, UsedIds, CallTasks
<1>13. \A b \in Agents : ~Free(scope.store[b]) /\ scope.store[b].owner # o => Y[b] = scope.store[b]
  <2> SUFFICES ASSUME NEW b \in Agents, ~Free(scope.store[b]), scope.store[b].owner # o
               PROVE  Y[b] = scope.store[b]
    OBVIOUS
  <2>1. R[b] = scope.store[b]
    BY <1>5 DEF Loosens
  <2> QED
    BY <1>6, <2>1 DEF Takes
<1>14. UsedIn(Y, used')
  <2>1. UsedIn(R, used')
    BY <1>1, <1>5, UsedStays DEF LInv, UsedIds
  <2>2. CASE ~Free(R[a])
    BY <1>6, <2>1, <2>2
  <2>3. CASE Free(R[a])
    <3>1. R[a] # Absent
      BY <2>3, HandleFields DEF Free
    <3>2. a \in used' /\ t \in used'
      BY <1>3, <1>4, <2>1, <3>1 DEF UsedIn, OwnTask
    <3> QED
      BY <1>3, <1>6, <2>1, <3>2, UsedStays DEF Owners
  <2> QED
    BY <2>2, <2>3
<1>15. ClaimedBy(Y, Living(mine.index) \cup Taking')
  <2>1. Taking \subseteq Taking' /\ (X.pc \in Holding => t \in Taking')
    BY <1>0, <1>1, <1>2, <1>7, <1>8, TakingGrows DEF Holding
  <2>2. ClaimedBy(scope.store, Living(mine.index) \cup Taking)
    BY <1>4 DEF LInv, Claimed
  <2>3. Living(mine.index) \cup Taking \subseteq Living(mine.index) \cup Taking'
    BY <2>1
  <2>4. ClaimedBy(R, Living(mine.index) \cup Taking')
    <3>1. Loosens(scope.store, R, {o})
      BY <1>5
    <3>2. ClaimedBy(scope.store, Living(mine.index) \cup Taking')
      BY ONLY <2>2, <2>3 DEF ClaimedBy
    <3> QED
      BY ONLY <3>1, <3>2, HandleFields DEF ClaimedBy, Loosens
  <2>5. CASE ~Free(R[a])
    BY <1>6, <2>4, <2>5
  <2>6. CASE Free(R[a])
    <3>1. LeasedTo(Y[a], t)
      BY <1>6, <2>6, HandleFields DEF LeasedTo
    <3>2. t \in Living(mine.index) \cup Taking'
      BY <1>7, <2>1, <3>1 DEF Holding
    <3>3. Takes(R, Y, a, t)
      BY <1>6
    <3> QED
      BY ONLY <2>4, <3>2, <3>3, ClaimsStay
  <2> QED
    BY <2>5, <2>6
<1>16. CallFits(k, X, Y)
  <2>1. X.pc \notin {"idle", "settled", "steering"} /\ (X.pc \in Leasing => LeasedTo(Y[X.agent], X.task))
    BY <1>7 DEF Leasing
  <2> QED
    BY <1>4, <1>7, <1>11, <2>1 DEF CallFits, OwnTask
<1>17. CallKeepsTasks(k, X)
  <2>1. ~Working(t)'
    BY <1>11 DEF Working
  <2>2. \A x \in Tasks : tasks'[x].pc # "none" => x \in used'
    BY <1>1, <1>3, <1>9 DEF LInv, UsedIds
  <2>3. \A j \in Slots : j # k /\ scope.calls[j].pc # "idle" => tasks'[scope.calls[j].task] = tasks[scope.calls[j].task]
    BY <1>9, <1>12
  <2> QED
    BY <1>7, <1>9, <2>1, <2>2, <2>3 DEF CallKeepsTasks
<1>18. CallKeepsLeases(k, X, Y)
  <2>1. /\ \A j \in Slots : scope.calls[j].pc \in Leasing /\ scope.calls[j].task # o =>
             Y[scope.calls[j].agent] = scope.store[scope.calls[j].agent]
        /\ \A x \in mine.index : Working(x) /\ x # o => Y[tasks[x].agent] = scope.store[tasks[x].agent]
    BY <1>3, <1>4, <1>13, StoreSpared
  <2>2. \A j \in Slots : scope.calls[j].pc \in Leasing => scope.calls[j].task # o
    BY <1>12 DEF Leasing
  <2> QED
    BY <1>9, <1>14, <1>15, <2>1, <2>2 DEF CallKeepsLeases
<1>19. used \subseteq used' /\ UNCHANGED <<cursor, base, mine, turn>>
  BY <1>1
<1> QED
  BY <1>4, <1>7, <1>8, <1>9, <1>10, <1>16, <1>17, <1>18, <1>19, CallMovesL

LEMMA NextLInv == LInv /\ [Next]_vars => LInv'
<1> SUFFICES ASSUME LInv, [Next]_vars PROVE LInv'
  OBVIOUS
<1>1. IInv'
  BY NextIInv DEF LInv
<1>2. CASE UNCHANGED vars
  <2>1. UNCHANGED <<cursor, base, mine, turn, scope, used>> /\ tasks' = tasks /\ mail' = mail
    BY <1>2 DEF vars
  <2>2. MailOver'
    BY <2>1 DEF LInv, MailOver
  <2> QED
    BY <1>1, <2>1, <2>2, LivingSame, TasksSteady
<1>3. CASE CallNext
  BY <1>1, <1>3, StartsFreshL, ResumesL, SteersL, ThrowsL, StartedL DEF CallNext
<1>4. CASE TurnNext
  BY <1>1, <1>4, StepBeginsL, StepEndingsL, MovesOnL, RunRequestsL, RunSettlesL, RunOutcomeL DEF TurnNext
<1>5. CASE DriverNext
  BY <1>1, <1>5, TurnRunsL, RebasesL, CancelSettlesL, RoutesL DEF DriverNext
<1>6. CASE TaskNext
  BY <1>1, <1>6, TasksGoOnL DEF TaskNext
<1> QED
  BY <1>2, <1>3, <1>4, <1>5, <1>6 DEF Next

\* In every copy of the store that can become the session's, a task at work keeps its
\* lease and a claim has an owner that will give it up, whatever calls, merges,
\* cancellations and messages do (transitions.ts, tool-execution.ts, workflow-entry.ts).
THEOREM LeaseInvariant == Spec => []LInv
<1> QED
  BY InitLInv, NextLInv, PTL DEF Spec

\* Between turns a task at work has the lease on its agent, unless the agent was lost,
\* so no two tasks talk to one agent: steering, merging a turn's result and settling a
\* cancelled turn take no lease from a task that still works.
THEOREM LeaseHeld == Spec => []WorkingTaskHasLease
<1>1. LInv => WorkingTaskHasLease
  <2> SUFFICES ASSUME LInv, turn.pc = "parked", NEW t \in cursor.index, tasks[t].pc = "working"
               PROVE  LET h == cursor.handles[tasks[t].agent] IN LeasedTo(h, t) \/ h = Absent
    BY DEF WorkingTaskHasLease
  <2>1. t \in Tasks
    BY Types DEF LInv, IInv, Session
  <2> QED
    BY <2>1 DEF LInv, Leases, HeldOrLost, Working
<1> QED
  BY <1>1, LeaseInvariant, PTL

\* Between turns a claimed agent has an owner that will give it up: no agent stays busy
\* for a task that is over or a tool run that is forgotten (route-child-delivery.ts,
\* settleCancelledTurnStep).
THEOREM ClaimsEnd == Spec => []ClaimWillEnd
<1>1. LInv => ClaimWillEnd
  <2> SUFFICES ASSUME LInv, turn.pc = "parked", NEW a \in Agents, cursor.handles[a].phase = "claimed"
               PROVE  \E t \in cursor.index :
                        /\ cursor.handles[a].owner = t
                        /\ \/ tasks[t].pc = "working"
                           \/ \E i \in DOMAIN mail : mail[i].task = t /\ mail[i].kind = "view"
    BY DEF ClaimWillEnd
  <2>1. cursor.handles[a].owner \in Living(cursor.index)
    BY DEF LInv, Claimed, ClaimedBy, RunsOver
  <2> QED
    BY <2>1 DEF Living, Alive, Working, Viewed
<1> QED
  BY <1>1, LeaseInvariant, PTL
=============================================================================
