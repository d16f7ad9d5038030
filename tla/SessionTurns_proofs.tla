------------------------ MODULE SessionTurns_proofs ------------------------
(***************************************************************************)
(* Theorems about SessionTurns, for every set of commands, calls and       *)
(* bounds.  The request protocol: a turn that waits for a delivery is      *)
(* being served, however often its messages to the driver are repeated,    *)
(* and a cancellation aborts only the turn it was meant for.  Deliveries:  *)
(* each is used at most once, one copy of a task delivery is, none of a    *)
(* cancelled task begins a turn, and messages begin turns in their order.  *)
(***************************************************************************)
EXTENDS SessionTurns, SequenceLemmas, FiniteSetTheorems

-----------------------------------------------------------------------------
(* The inductive invariant.                                                *)

\* What the driver is doing, also while it forwards a cancellation.
Mode == IF d = "cancelling" THEN back ELSE d

IsSequence(s) == s \in Seq(Range(s))
Asks(m, k) == m.kind = "request" /\ m.id = k
Closes(m, k) == m.kind \in {"accepted", "cancelled"} /\ m.id = k
Terminal(m) == m.kind \in {"result", "error"}

\* Which mode of the driver goes with which mode of the turn.
Phases ==
  /\ IsSequence(control) /\ IsSequence(tInbox) /\ reqSeq \in Nat /\ pending \in Nat
  /\ t \in TurnModes /\ d \in DriverModes /\ back \in InTurn
  /\ t = "inline" <=> d = "inline"
  /\ t \in {"inline", "starting"} =>
       /\ control = <<>> /\ tInbox = <<>> /\ pending = 0 /\ reqSeq = 0
       /\ Mode \in {"inline", "await"}
  /\ d \in {"parked", "routing", "ended"} => t = "finished"
  /\ \A m \in Range(control) : Terminal(m) => t = "finished"

\* The control hook of a running turn: requests are numbered, each is closed before the
\* next one is sent, and only the last may be open.
HookInv ==
  /\ \A i \in DOMAIN control :
       control[i].kind \in {"request", "accepted", "cancelled"} /\ control[i].id \in 1..reqSeq
  /\ \A i, j \in DOMAIN control : i < j =>
       /\ control[i].id <= control[j].id
       /\ control[i].kind # "request" /\ control[j].kind = "request" => control[i].id < control[j].id
  /\ pending \in {0, reqSeq}
  /\ pending # 0 => \A m \in Range(control) : ~Closes(m, pending)
  /\ \A i \in DOMAIN control : control[i].kind = "request" /\ control[i].id # pending =>
       \E j \in DOMAIN control : i < j /\ Closes(control[j], control[i].id)

\* A delivery is forwarded for the request in service only; until then nothing
\* on the hooks answers a request.
Answers(k) ==
  \/ \E m \in Range(control) : m.kind = "accepted" /\ m.id = k
  \/ \E m \in Range(tInbox) : m.kind = "delivery" /\ m.id = k
ForwardInv ==
  /\ \A m \in Range(tInbox) : m.kind = "delivery" => m.id \in 1..reqSeq
  /\ \A m \in Range(control) : m.kind = "request" /\ ~(Mode = "forwarded" /\ request = m.id) => ~Answers(m.id)
  /\ Mode = "service" => ~Answers(request)

\* The request in service is open, or its close is on its way, ahead of every
\* later request; the open request is in service or on the hook.
ServiceInv ==
  /\ Mode \in {"service", "forwarded"} =>
       /\ request \in 1..reqSeq
       /\ \A m \in Range(control) : m.kind = "request" => m.id >= request
       /\ request # pending => \E m \in Range(control) : Closes(m, request)
  /\ pending # 0 =>
       \/ \E m \in Range(control) : Asks(m, pending)
       \/ request = pending /\ Mode \in {"service", "forwarded"}

\* The cancellations on their way to the turn are those read during it.
Aims(c) == c # NotAborted => c.from = turn /\ c.guard \in {0, turn}
CancelInv ==
  /\ d = "cancelling" => fwd.from = turn
  /\ IsSequence(cancelQ) /\ \A c \in Range(cancelQ) : c.from = turn
  /\ Aims(initial) /\ Aims(aborted)

ProtocolInv == Running => HookInv /\ ForwardInv /\ ServiceInv
IInv == Phases /\ CancelInv /\ ProtocolInv

-----------------------------------------------------------------------------
(* Sequences whose elements are read at one end and added at the other.    *)

LEMMA SequenceOfItsElements ==
  ASSUME NEW S, NEW s \in Seq(S)
  PROVE  IsSequence(s)
<1>1. DOMAIN s = 1..Len(s) /\ Len(s) \in Nat /\ s \in [1..Len(s) -> Range(s)]
  BY Indices DEF Range
<1> QED
  BY <1>1, SeqDef DEF IsSequence

LEMMA EmptyIsSequence == IsSequence(<<>>) /\ Range(<<>>) = {} /\ DOMAIN <<>> = {}
<1>1. <<>> \in Seq({}) /\ DOMAIN <<>> = {}
  OBVIOUS
<1> QED
  BY <1>1, SequenceOfItsElements, RangeOfFew

LEMMA HeadRead ==
  ASSUME NEW s, IsSequence(s), s # <<>>
  PROVE  /\ IsSequence(Tail(s)) /\ Len(s) \in Nat \ {0}
         /\ DOMAIN s = 1..Len(s) /\ DOMAIN Tail(s) = 1..(Len(s) - 1)
         /\ Head(s) = s[1] /\ \A i \in 1..(Len(s) - 1) : Tail(s)[i] = s[i + 1]
         /\ Range(s) = {Head(s)} \cup Range(Tail(s))
<1>1. s \in Seq(Range(s))
  BY DEF IsSequence
<1>2. Tail(s) \in Seq(Range(s))
  BY <1>1, Shifted
<1> QED
  BY <1>1, <1>2, Shifted, SequenceOfItsElements, RangeOfTail

LEMMA ElementAdded ==
  ASSUME NEW s, IsSequence(s), NEW x
  PROVE  IsSequence(Append(s, x)) /\ Range(Append(s, x)) = Range(s) \cup {x}
<1>1. s \in Seq(Range(s) \cup {x})
  <2>1. DOMAIN s = 1..Len(s) /\ Len(s) \in Nat /\ \A i \in 1..Len(s) : s[i] \in Range(s)
    BY Indices DEF IsSequence
  <2> QED
    BY <2>1, SeqDef DEF IsSequence
<1>2. Append(s, x) \in Seq(Range(s) \cup {x}) /\ Range(Append(s, x)) = Range(s) \cup {x}
  BY <1>1, RangeOfAppend, Appended
<1> QED
  BY <1>2, SequenceOfItsElements

\* u is s with one or more m behind it.
Extends(u, s, m) ==
  /\ IsSequence(u) /\ Range(u) = Range(s) \cup {m}
  /\ \E n \in Nat :
       /\ Len(s) \in Nat /\ n > Len(s) /\ DOMAIN s = 1..Len(s) /\ DOMAIN u = 1..n
       /\ \A i \in 1..Len(s) : u[i] = s[i]
       /\ \A i \in (Len(s) + 1)..n : u[i] = m

\* A message is sent once or, by a step that is retried, twice.
LEMMA MessageSent ==
  ASSUME NEW s, IsSequence(s), NEW m, NEW again \in BOOLEAN
  PROVE  Extends(s \o Copies(m, again), s, m)
<1> DEFINE T == Range(s) \cup {m}
           u == s \o Copies(m, again)
           k == IF again THEN 2 ELSE 1
<1>1. s \in Seq(T) /\ DOMAIN s = 1..Len(s) /\ Len(s) \in Nat
  <2>1. s \in Seq(Range(s)) /\ DOMAIN s = 1..Len(s) /\ Len(s) \in Nat /\ \A i \in 1..Len(s) : s[i] \in T
    BY Indices DEF IsSequence
  <2> QED
    BY <2>1, SeqDef
<1>2. Copies(m, again) \in Seq(T) /\ Len(Copies(m, again)) = k /\ \A i \in 1..k : Copies(m, again)[i] = m
  <2>1. CASE again
    BY <2>1 DEF Copies
  <2>2. CASE ~again
    BY <2>2 DEF Copies
  <2> QED
    BY <2>1, <2>2
<1>0. k \in 1..2
  OBVIOUS
<1> HIDE DEF k
<1>3. u \in Seq(T) /\ Len(u) = Len(s) + k /\ \A i \in 1..(Len(s) + k) : u[i] = IF i <= Len(s) THEN s[i] ELSE m
  <2>1. u \in Seq(T) /\ Len(u) = Len(s) + k
    BY <1>1, <1>2
  <2>2. ASSUME NEW i \in 1..(Len(s) + k) PROVE u[i] = IF i <= Len(s) THEN s[i] ELSE m
    <3>1. u[i] = IF i <= Len(s) THEN s[i] ELSE Copies(m, again)[i - Len(s)]
      BY <1>1, <1>2, <1>0, ConcatProperties
    <3>2. i > Len(s) => i - Len(s) \in 1..k
      BY <1>1, <1>0
    <3> QED
      BY <3>1, <3>2, <1>1, <1>2
  <2> QED
    BY <2>1, <2>2
<1>4. Len(s) + k \in Nat /\ Len(s) + k > Len(s)
  BY <1>1, <1>0
<1>5. DOMAIN u = 1..(Len(s) + k) /\ IsSequence(u)
  BY <1>3, Indices, SequenceOfItsElements
<1>6. \A i \in 1..Len(s) : i \in 1..(Len(s) + k) /\ u[i] = s[i]
  BY <1>1, <1>3
<1>7. \A i \in (Len(s) + 1)..(Len(s) + k) : i \in 1..(Len(s) + k) /\ u[i] = m
  BY <1>1, <1>3
<1> HIDE DEF u
<1>8. Range(u) = T
  <2>1. Len(s) + k \in 1..(Len(s) + k) /\ u[Len(s) + k] = m
    <3>1. Len(s) + k \in (Len(s) + 1)..(Len(s) + k)
      BY <1>1, <1>0
    <3> QED
      BY <3>1, <1>7
  <2>2. Range(s) \subseteq Range(u)
    BY <1>1, <1>5, <1>6 DEF Range
  <2>3. m \in Range(u)
    BY <2>1, <1>5 DEF Range
  <2>4. Range(u) \subseteq T
    BY <1>3, <1>5, <1>1 DEF Range
  <2> QED
    BY <2>2, <2>3, <2>4
<1> QED
  BY <1>1, <1>4, <1>5, <1>6, <1>7, <1>8 DEF u, Extends
-----------------------------------------------------------------------------
(* The request protocol, step by step.                                     *)

\* Steps that leave the control hook and the request alone and forward nothing.
LEMMA NothingForwarded ==
  ASSUME ProtocolInv, Running' => Running, Mode' = Mode,
         UNCHANGED <<control, pending, reqSeq, request>>,
         \A m \in Range(tInbox') : m \in Range(tInbox) \/ m.kind # "delivery"
  PROVE  ProtocolInv'
<1> SUFFICES ASSUME Running' PROVE HookInv' /\ ForwardInv' /\ ServiceInv'
  BY DEF ProtocolInv
<1>1. HookInv /\ ForwardInv /\ ServiceInv
  BY DEF ProtocolInv
<1>2. HookInv'
  BY <1>1 DEF HookInv
<1>3. ASSUME NEW k, ~Answers(k) PROVE ~Answers(k)'
  BY <1>3 DEF Answers
<1>4. ForwardInv'
  <2>1. \A m \in Range(tInbox)' : m.kind = "delivery" => m.id \in 1..reqSeq'
    BY <1>1 DEF ForwardInv
  <2>2. \A m \in Range(control)' : m.kind = "request" /\ ~(Mode' = "forwarded" /\ request' = m.id) => ~Answers(m.id)'
    BY <1>1, <1>3 DEF ForwardInv
  <2>3. Mode' = "service" => ~Answers(request)'
    <3>1. Mode' = "service" => \A k : k = request' => ~Answers(k)'
      BY <1>1, <1>3 DEF ForwardInv
    <3> QED
      BY <3>1 DEF Answers
  <2> QED
    BY <2>1, <2>2, <2>3 DEF ForwardInv
<1>5. ServiceInv'
  BY <1>1 DEF ServiceInv
<1> QED
  BY <1>2, <1>4, <1>5

\* A turn that has just started has asked for nothing.
LEMMA NothingAsked ==
  ASSUME control' = <<>>, tInbox' = <<>>, pending' = 0, reqSeq' = 0, Mode' \notin {"service", "forwarded"}
  PROVE  ProtocolInv'
<1>1. Range(control') = {} /\ Range(tInbox') = {} /\ DOMAIN control' = {}
  BY EmptyIsSequence
<1>2. HookInv'
  BY <1>1 DEF HookInv
<1>3. ForwardInv'
  BY <1>1 DEF ForwardInv
<1>4. ServiceInv'
  BY <1>1 DEF ServiceInv
<1> QED
  BY <1>2, <1>3, <1>4 DEF ProtocolInv

\* The driver reads the control hook.
LEMMA HookRead ==
  ASSUME HookInv, IsSequence(control), control # <<>>, control' = Tail(control), UNCHANGED <<pending, reqSeq>>
  PROVE  HookInv'
<1>1. /\ DOMAIN control' = 1..(Len(control) - 1) /\ DOMAIN control = 1..Len(control) /\ Len(control) \in Nat \ {0}
      /\ \A i \in DOMAIN control' : i + 1 \in DOMAIN control /\ control'[i] = control[i + 1]
      /\ Range(control') \subseteq Range(control)
  BY HeadRead
<1>2. \A i, j \in DOMAIN control' : i < j => i + 1 < j + 1
  BY <1>1
<1>3. \A i, j \in DOMAIN control' : i < j =>
       /\ control'[i].id <= control'[j].id
       /\ control'[i].kind # "request" /\ control'[j].kind = "request" => control'[i].id < control'[j].id
  BY <1>1, <1>2 DEF HookInv
<1>4. ASSUME NEW i \in DOMAIN control', control'[i].kind = "request", control'[i].id # pending
      PROVE  \E j \in DOMAIN control' : i < j /\ Closes(control'[j], control'[i].id)
  <2>1. PICK j \in DOMAIN control : i + 1 < j /\ Closes(control[j], control[i + 1].id)
    BY <1>1, <1>4 DEF HookInv
  <2>2. j - 1 \in DOMAIN control' /\ i < j - 1 /\ (j - 1) + 1 = j
    BY <1>1, <2>1
  <2>3. control'[j - 1] = control[j]
    BY <1>1, <2>2
  <2> QED
    BY <1>1, <2>1, <2>2, <2>3
<1>5. \A i \in DOMAIN control' :
        control'[i].kind \in {"request", "accepted", "cancelled"} /\ control'[i].id \in 1..reqSeq
  BY <1>1 DEF HookInv
<1>6. pending \in {0, reqSeq} /\ (pending # 0 => \A m \in Range(control') : ~Closes(m, pending))
  BY <1>1 DEF HookInv
<1> QED
  BY <1>3, <1>4, <1>5, <1>6 DEF HookInv, Closes

\* What the first message of the hook says about the others.
LEMMA FirstMessage ==
  ASSUME HookInv, reqSeq \in Nat, IsSequence(control), control # <<>>
  PROVE  LET m == Head(control)
         IN /\ m.kind \in {"request", "accepted", "cancelled"} /\ m.id \in 1..reqSeq
            /\ \A x \in Range(Tail(control)) : x.id \in 1..reqSeq /\ m.id <= x.id
            /\ m.kind # "request" => \A x \in Range(Tail(control)) : x.kind = "request" => m.id < x.id
            /\ m.kind = "request" /\ m.id # pending => \E x \in Range(Tail(control)) : Closes(x, m.id)
            /\ pending # 0 => ~Closes(m, pending)
<1>1. /\ DOMAIN control = 1..Len(control) /\ Len(control) \in Nat \ {0} /\ Head(control) = control[1]
      /\ DOMAIN Tail(control) = 1..(Len(control) - 1)
      /\ \A i \in 1..(Len(control) - 1) : Tail(control)[i] = control[i + 1]
      /\ Head(control) \in Range(control)
  BY HeadRead
<1>2. 1 \in DOMAIN control
  BY <1>1
<1>3. \A x \in Range(Tail(control)) : \E j \in DOMAIN control : 1 < j /\ x = control[j]
  <2>1. \A i \in 1..(Len(control) - 1) : i + 1 \in 1..Len(control) /\ 1 < i + 1
    BY <1>1
  <2> QED
    BY <1>1, <2>1 DEF Range
<1>4. \A j \in DOMAIN control : 1 < j => control[j] \in Range(Tail(control))
  <2>1. \A j \in 1..Len(control) : 1 < j => j - 1 \in 1..(Len(control) - 1) /\ (j - 1) + 1 = j
    BY <1>1
  <2> QED
    BY <1>1, <2>1 DEF Range
<1>5. Head(control).kind \in {"request", "accepted", "cancelled"} /\ Head(control).id \in 1..reqSeq
  BY <1>1, <1>2 DEF HookInv
<1>6. \A x \in Range(Tail(control)) : x.id \in 1..reqSeq /\ Head(control).id <= x.id
  BY <1>1, <1>2, <1>3 DEF HookInv
<1>7. Head(control).kind # "request" => \A x \in Range(Tail(control)) : x.kind = "request" => Head(control).id < x.id
  BY <1>1, <1>2, <1>3 DEF HookInv
<1>8. Head(control).kind = "request" /\ Head(control).id # pending => \E x \in Range(Tail(control)) : Closes(x, Head(control).id)
  BY <1>1, <1>2, <1>4 DEF HookInv
<1>9. pending # 0 => ~Closes(Head(control), pending)
  BY <1>1 DEF HookInv
<1> QED
  BY <1>5, <1>6, <1>7, <1>8, <1>9
\* A delivery is forwarded to the turn, once or twice, or the turn is gone.
LEMMA Relayed ==
  ASSUME NEW k, NEW c, IsSequence(tInbox), Relay(k, c)
  PROVE  /\ IsSequence(tInbox')
         /\ \A x \in Range(tInbox') :
              x \in Range(tInbox) \/ (x.kind = "delivery" /\ x.id = k /\ x.what = c)
<1> DEFINE m == [kind |-> "delivery", id |-> k, what |-> c]
<1>1. CASE t = "finished"
  BY <1>1 DEF Relay
<1>2. CASE t # "finished"
  <2>1. PICK again \in Resends : tInbox' = tInbox \o Copies(m, again)
    BY <1>2 DEF Relay
  <2>2. again \in BOOLEAN
    BY TurnConstants
  <2>3. IsSequence(tInbox') /\ Range(tInbox') = Range(tInbox) \cup {m}
    <3>1. Extends(tInbox', tInbox, m)
      BY <2>1, <2>2, MessageSent
    <3> QED
      BY <3>1 DEF Extends
  <2>4. m.kind = "delivery" /\ m.id = k /\ m.what = c
    OBVIOUS
  <2> HIDE DEF m
  <2> QED
    BY <2>3, <2>4
<1> QED
  BY <1>1, <1>2

\* A request that is read is serviced: a delivery for it is forwarded at once
\* or later.
LEMMA RequestRead ==
  ASSUME HookInv, ForwardInv, ServiceInv, reqSeq \in Nat, pending \in Nat,
         IsSequence(control), control # <<>>, control' = Tail(control), UNCHANGED <<pending, reqSeq>>,
         Head(control).kind = "request", Mode = "await", request' = Head(control).id,
         Mode' \in {"service", "forwarded"},
         \A x \in Range(tInbox') : x \in Range(tInbox) \/ (x.kind = "delivery" /\ x.id = request'),
         Mode' = "service" => tInbox' = tInbox
  PROVE  ForwardInv' /\ ServiceInv'
<1> DEFINE m == Head(control)
<1>1. /\ m.id \in 1..reqSeq
      /\ \A x \in Range(control') : m.id <= x.id
      /\ m.id # pending => \E x \in Range(control') : Closes(x, m.id)
  BY FirstMessage
<1>2. Range(control) = {m} \cup Range(control')
  BY HeadRead
<1>3. ~Answers(m.id)
  BY <1>2 DEF ForwardInv
<1> HIDE DEF m
<1>4. request' = m.id
  BY DEF m
<1>5. ServiceInv'
  <2>1. \A x \in Range(control') : x.kind = "request" => x.id >= request'
    BY <1>1, <1>4
  <2>2. pending # 0 => (\E x \in Range(control') : Asks(x, pending)) \/ request' = pending
    BY <1>2, <1>4 DEF ServiceInv, Asks
  <2> QED
    BY <1>1, <1>4, <2>1, <2>2 DEF ServiceInv, Closes, Asks
<1>6. ASSUME NEW k, k # m.id \/ tInbox' = tInbox, ~Answers(k) PROVE ~Answers(k)'
  BY <1>2, <1>4, <1>6 DEF Answers
<1>7. ForwardInv'
  <2>1. \A x \in Range(tInbox)' : x.kind = "delivery" => x.id \in 1..reqSeq'
    BY <1>1, <1>4 DEF ForwardInv
  <2>2. ASSUME NEW x \in Range(control)', x.kind = "request", ~(Mode' = "forwarded" /\ request' = x.id)
        PROVE  ~Answers(x.id)'
    <3>1. ~Answers(x.id)
      BY <1>2, <2>2 DEF ForwardInv
    <3> QED
      BY <1>4, <1>6, <2>2, <3>1
  <2>3. Mode' = "service" => ~Answers(request)'
    <3>1. Mode' = "service" => \A k : k = m.id => ~Answers(k)'
      BY <1>3, <1>6
    <3> QED
      BY <1>4, <3>1 DEF Answers
  <2> QED
    BY <2>1, <2>2, <2>3 DEF ForwardInv
<1> QED
  BY <1>5, <1>7

\* A message that does not concern the request in service is passed over.
LEMMA MessagePassed ==
  ASSUME HookInv, ForwardInv, ServiceInv, reqSeq \in Nat, pending \in Nat,
         IsSequence(control), control # <<>>, control' = Tail(control),
         UNCHANGED <<pending, reqSeq, request, tInbox>>, Mode' = Mode, Mode \in InTurn,
         Mode = "await" => Head(control).kind # "request",
         Mode = "service" => ~(Head(control).kind = "cancelled" /\ Head(control).id = request),
         Mode = "forwarded" => ~Closes(Head(control), request)
  PROVE  ForwardInv' /\ ServiceInv'
<1> DEFINE m == Head(control)
<1>1. /\ m.id \in 1..reqSeq /\ m.kind \in {"request", "accepted", "cancelled"}
      /\ \A x \in Range(control') : x.id \in 1..reqSeq /\ m.id <= x.id
      /\ pending # 0 => ~Closes(m, pending)
  BY FirstMessage
<1>2. Range(control) = {m} \cup Range(control')
  BY HeadRead
<1>3. Mode \in {"service", "forwarded"} => ~Closes(m, request)
  <2>1. Mode = "service" => ~(m.kind = "accepted" /\ m.id = request)
    BY <1>2 DEF ForwardInv, Answers
  <2> QED
    BY <2>1 DEF Closes
<1>4. Mode = "await" => m.kind # "request"
  OBVIOUS
<1> HIDE DEF m
<1>5. ServiceInv'
  <2>1. Mode \in {"service", "forwarded"} =>
         /\ request \in 1..reqSeq
         /\ \A x \in Range(control') : x.kind = "request" => x.id >= request
         /\ request # pending => \E x \in Range(control') : Closes(x, request)
    BY <1>2, <1>3 DEF ServiceInv
  <2>2. ASSUME pending # 0
        PROVE  \/ \E x \in Range(control') : Asks(x, pending)
               \/ request = pending /\ Mode \in {"service", "forwarded"}
    <3>1. CASE Asks(m, pending) /\ request # pending
      <4>1. Mode \in {"service", "forwarded"}
        BY <1>4, <3>1 DEF Asks, InTurn
      <4>2. request \in 1..reqSeq /\ m.id >= request
        BY <1>2, <3>1, <4>1 DEF ServiceInv, Asks
      <4>3. PICK x \in Range(control') : Closes(x, request)
        BY <2>1, <3>1, <4>1
      <4>4. m.id <= request
        BY <1>1, <4>3 DEF Closes
      <4> QED
        BY <1>1, <3>1, <4>2, <4>4 DEF Asks
    <3>2. CASE ~Asks(m, pending)
      BY <1>2, <2>2, <3>2 DEF ServiceInv
    <3>3. CASE request = pending
      BY <1>2, <1>4, <2>2, <3>3 DEF ServiceInv, InTurn, Asks
    <3> QED
      BY <3>1, <3>2, <3>3
  <2> QED
    BY <2>1, <2>2 DEF ServiceInv, Closes, Asks
<1>6. ASSUME NEW k, ~Answers(k) PROVE ~Answers(k)'
  BY <1>2, <1>6 DEF Answers
<1>7. ForwardInv'
  <2>1. \A x \in Range(control)' : x.kind = "request" /\ ~(Mode' = "forwarded" /\ request' = x.id) => ~Answers(x.id)'
    BY <1>2, <1>6 DEF ForwardInv
  <2>2. Mode' = "service" => ~Answers(request)'
    <3>1. Mode = "service" => ~Answers(request)
      BY DEF ForwardInv
    <3> QED
      BY <1>2, <3>1 DEF Answers
  <2> QED
    BY <2>1, <2>2 DEF ForwardInv
<1> QED
  BY <1>5, <1>7

\* The close of the request in service is read.
LEMMA CloseRead ==
  ASSUME HookInv, ForwardInv, ServiceInv, reqSeq \in Nat, pending \in Nat,
         IsSequence(control), control # <<>>, control' = Tail(control),
         UNCHANGED <<pending, reqSeq, tInbox>>, Mode' = "await",
         Mode \in {"service", "forwarded"}, Closes(Head(control), request)
  PROVE  ForwardInv' /\ ServiceInv'
<1> DEFINE m == Head(control)
<1>1. /\ m.id \in 1..reqSeq
      /\ m.kind # "request" => \A x \in Range(control') : x.kind = "request" => m.id < x.id
      /\ \A x \in Range(control') : x.id \in 1..reqSeq
      /\ pending # 0 => ~Closes(m, pending)
  BY FirstMessage
<1>2. Range(control) = {m} \cup Range(control')
  BY HeadRead
<1>3. Closes(m, request)
  OBVIOUS
<1> HIDE DEF m
<1>4. ServiceInv'
  <2>1. ASSUME pending # 0 PROVE \E x \in Range(control') : Asks(x, pending)
    BY <1>1, <1>2, <1>3, <2>1 DEF ServiceInv, Asks, Closes
  <2> QED
    BY <2>1 DEF ServiceInv, Asks
<1>5. ASSUME NEW k, ~Answers(k) PROVE ~Answers(k)'
  BY <1>2, <1>5 DEF Answers
<1>6. ForwardInv'
  <2>1. ASSUME NEW x \in Range(control)', x.kind = "request" PROVE ~Answers(x.id)'
    <3>1. x.id # request
      BY <1>1, <1>3, <2>1 DEF Closes
    <3>2. ~Answers(x.id)
      BY <1>2, <2>1, <3>1 DEF ForwardInv
    <3> QED
      BY <1>5, <3>2
  <2> QED
    BY <2>1 DEF ForwardInv
<1> QED
  BY <1>4, <1>6

\* A delivery is forwarded for the request in service.
LEMMA ResponseForwarded ==
  ASSUME HookInv, ForwardInv, ServiceInv, Mode = "service", Mode' = "forwarded",
         UNCHANGED <<control, pending, reqSeq, request>>,
         \A x \in Range(tInbox') : x \in Range(tInbox) \/ (x.kind = "delivery" /\ x.id = request)
  PROVE  HookInv' /\ ForwardInv' /\ ServiceInv'
<1>1. HookInv'
  BY DEF HookInv
<1>2. ServiceInv'
  BY DEF ServiceInv
<1>3. ForwardInv'
  <2>1. \A x \in Range(tInbox)' : x.kind = "delivery" => x.id \in 1..reqSeq'
    BY DEF ForwardInv, ServiceInv
  <2>2. ASSUME NEW x \in Range(control)', x.kind = "request", request # x.id PROVE ~Answers(x.id)'
    <3>1. ~Answers(x.id)
      BY <2>2 DEF ForwardInv
    <3> QED
      BY <2>2, <3>1 DEF Answers
  <2> QED
    BY <2>1, <2>2 DEF ForwardInv
<1> QED
  BY <1>1, <1>2, <1>3

\* The turn asks for a delivery.
LEMMA RequestSent ==
  ASSUME HookInv, ForwardInv, ServiceInv, IsSequence(control), reqSeq \in Nat, pending = 0,
         pending' = reqSeq + 1, reqSeq' = reqSeq + 1, Send(Msg("request", reqSeq + 1)),
         UNCHANGED <<tInbox, request>>, Mode' = Mode
  PROVE  HookInv' /\ ForwardInv' /\ ServiceInv' /\ IsSequence(control')
<1> DEFINE m == Msg("request", reqSeq + 1)
<1>1. PICK again \in Resends : control' = control \o Copies(m, again)
  BY DEF Send
<1>2. again \in BOOLEAN
  BY TurnConstants
<1>4. m.kind = "request" /\ m.id = reqSeq + 1
  BY DEF Msg
<1> HIDE DEF m
<1>0. Extends(control', control, m)
  BY <1>1, <1>2, MessageSent
<1>3. PICK n \in Nat :
        /\ IsSequence(control') /\ Range(control') = Range(control) \cup {m}
        /\ Len(control) \in Nat /\ n > Len(control) /\ DOMAIN control = 1..Len(control) /\ DOMAIN control' = 1..n
        /\ \A i \in 1..Len(control) : control'[i] = control[i]
        /\ \A i \in (Len(control) + 1)..n : control'[i] = m
  BY <1>0 DEF Extends
<1>5. \A i \in DOMAIN control' : i \in DOMAIN control \/ i \in (Len(control) + 1)..n
  BY <1>3
<1>6. \A i, j \in DOMAIN control' : i < j /\ j \in DOMAIN control => i \in DOMAIN control
  BY <1>3
<1>7. HookInv'
  <2>1. \A i \in DOMAIN control' :
          control'[i].kind \in {"request", "accepted", "cancelled"} /\ control'[i].id \in 1..reqSeq'
    BY <1>3, <1>4, <1>5 DEF HookInv
  <2>2. ASSUME NEW i \in DOMAIN control', NEW j \in DOMAIN control', i < j
        PROVE  /\ control'[i].id <= control'[j].id
               /\ control'[i].kind # "request" /\ control'[j].kind = "request" => control'[i].id < control'[j].id
    <3>1. CASE j \in DOMAIN control
      BY <1>3, <1>6, <2>2, <3>1 DEF HookInv
    <3>2. CASE i \in DOMAIN control /\ j \notin DOMAIN control
      <4>1. control'[i].id \in 1..reqSeq /\ control'[j] = m
        BY <1>3, <1>5, <3>2 DEF HookInv
      <4> QED
        BY <1>4, <4>1
    <3>3. CASE i \notin DOMAIN control /\ j \notin DOMAIN control
      <4>1. control'[i] = m /\ control'[j] = m
        BY <1>3, <1>5, <3>3
      <4> QED
        BY <1>4, <4>1
    <3> QED
      BY <1>6, <2>2, <3>1, <3>2, <3>3
  <2>3. \A x \in Range(control') : ~Closes(x, pending')
    <3>1. \A x \in Range(control) : x.id \in 1..reqSeq
      BY DEF HookInv, Range
    <3> QED
      BY <1>3, <1>4, <3>1 DEF Closes
  <2>4. ASSUME NEW i \in DOMAIN control', control'[i].kind = "request", control'[i].id # pending'
        PROVE  \E j \in DOMAIN control' : i < j /\ Closes(control'[j], control'[i].id)
    <3>1. i \in DOMAIN control /\ control'[i] = control[i]
      BY <1>3, <1>4, <1>5, <2>4
    <3>2. control[i].id # 0
      BY <3>1 DEF HookInv
    <3>3. PICK j \in DOMAIN control : i < j /\ Closes(control[j], control[i].id)
      BY <2>4, <3>1, <3>2 DEF HookInv
    <3>4. j \in DOMAIN control' /\ control'[j] = control[j]
      BY <1>3, <3>3
    <3> QED
      BY <3>1, <3>3, <3>4
  <2>5. pending' \in {0, reqSeq'}
    OBVIOUS
  <2> QED
    BY <2>1, <2>2, <2>3, <2>4, <2>5 DEF HookInv, Closes
<1>8. ServiceInv'
  <2>1. Mode \in {"service", "forwarded"} =>
         /\ request \in 1..reqSeq'
         /\ \A x \in Range(control') : x.kind = "request" => x.id >= request
         /\ \E x \in Range(control') : Closes(x, request)
    BY <1>3, <1>4 DEF ServiceInv
  <2> QED
    BY <1>3, <1>4, <2>1 DEF ServiceInv, Asks, Closes
<1>9. ForwardInv'
  <2>1. ASSUME NEW k, ~Answers(k) PROVE ~Answers(k)'
    BY <1>3, <1>4, <2>1 DEF Answers
  <2>2. \A x \in Range(tInbox)' : x.kind = "delivery" => x.id \in 1..reqSeq'
    BY DEF ForwardInv
  <2>3. ASSUME NEW x \in Range(control)', x.kind = "request", ~(Mode' = "forwarded" /\ request' = x.id)
        PROVE  ~Answers(x.id)'
    <3>1. CASE x \in Range(control)
      BY <2>1, <2>3, <3>1 DEF ForwardInv
    <3>2. CASE x = m
      <4>1. \A y \in Range(control) : y.id \in 1..reqSeq
        BY DEF HookInv, Range
      <4>2. x.id = reqSeq + 1
        BY <1>4, <3>2
      <4>3. ~Answers(x.id)
        BY <4>1, <4>2 DEF Answers, ForwardInv
      <4> QED
        BY <2>1, <4>3
    <3> QED
      BY <1>3, <3>1, <3>2
  <2>4. Mode' = "service" => ~Answers(request)'
    <3>1. Mode' = "service" => \A k : k = request' => ~Answers(k)'
      BY <2>1 DEF ForwardInv
    <3> QED
      BY <3>1 DEF Answers
  <2> QED
    BY <2>2, <2>3, <2>4 DEF ForwardInv
<1> QED
  BY <1>3, <1>7, <1>8, <1>9

\* The turn closes the request that is out: it accepts the delivery it was
\* forwarded, or it leaves the wait.
LEMMA CloseSent ==
  ASSUME HookInv, ForwardInv, ServiceInv, IsSequence(control), reqSeq \in Nat, pending # 0,
         NEW m, Closes(m, pending), m.kind = "accepted" => Answers(pending),
         NEW again \in BOOLEAN, control' = control \o Copies(m, again),
         pending' = 0, UNCHANGED <<reqSeq, request>>, Mode' = Mode,
         \A x \in Range(tInbox') : x \in Range(tInbox)
  PROVE  HookInv' /\ ForwardInv' /\ ServiceInv' /\ IsSequence(control')
<1>0. Extends(control', control, m)
  BY MessageSent
<1>1. PICK n \in Nat :
        /\ IsSequence(control') /\ Range(control') = Range(control) \cup {m}
        /\ Len(control) \in Nat /\ n > Len(control) /\ DOMAIN control = 1..Len(control) /\ DOMAIN control' = 1..n
        /\ \A i \in 1..Len(control) : control'[i] = control[i]
        /\ \A i \in (Len(control) + 1)..n : control'[i] = m
  BY <1>0 DEF Extends
<1>2. pending = reqSeq /\ reqSeq \in 1..reqSeq /\ m.kind \in {"accepted", "cancelled"} /\ m.id = reqSeq
  BY DEF HookInv, Closes
<1>3. \A i \in DOMAIN control' : i \in DOMAIN control \/ i \in (Len(control) + 1)..n
  BY <1>1
<1>4. \A i, j \in DOMAIN control' : i < j /\ j \in DOMAIN control => i \in DOMAIN control
  BY <1>1
<1>5. HookInv'
  <2>1. \A i \in DOMAIN control' :
          control'[i].kind \in {"request", "accepted", "cancelled"} /\ control'[i].id \in 1..reqSeq'
    BY <1>1, <1>2, <1>3 DEF HookInv
  <2>2. ASSUME NEW i \in DOMAIN control', NEW j \in DOMAIN control', i < j
        PROVE  /\ control'[i].id <= control'[j].id
               /\ control'[i].kind # "request" /\ control'[j].kind = "request" => control'[i].id < control'[j].id
    <3>1. CASE j \in DOMAIN control
      BY <1>1, <1>4, <2>2, <3>1 DEF HookInv
    <3>2. CASE j \notin DOMAIN control
      <4>1. control'[i].id \in 1..reqSeq /\ control'[j] = m
        BY <1>1, <1>3, <2>1, <3>2
      <4> QED
        BY <1>2, <4>1
    <3> QED
      BY <3>1, <3>2
  <2>3. ASSUME NEW i \in DOMAIN control', control'[i].kind = "request"
        PROVE  \E j \in DOMAIN control' : i < j /\ Closes(control'[j], control'[i].id)
    <3>1. i \in DOMAIN control /\ control'[i] = control[i]
      BY <1>1, <1>2, <1>3, <2>3
    <3>2. CASE control[i].id # pending
      <4>1. PICK j \in DOMAIN control : i < j /\ Closes(control[j], control[i].id)
        BY <2>3, <3>1, <3>2 DEF HookInv
      <4>2. j \in DOMAIN control' /\ control'[j] = control[j]
        BY <1>1, <4>1
      <4> QED
        BY <3>1, <4>1, <4>2
    <3>3. CASE control[i].id = pending
      <4>1. n \in DOMAIN control' /\ i < n /\ control'[n] = m
        BY <1>1, <3>1
      <4> QED
        BY <3>1, <3>3, <4>1
    <3> QED
      BY <3>2, <3>3
  <2> QED
    BY <2>1, <2>2, <2>3 DEF HookInv, Closes
<1>6. ServiceInv'
  <2>1. Mode \in {"service", "forwarded"} =>
         /\ request \in 1..reqSeq'
         /\ \A x \in Range(control') : x.kind = "request" => x.id >= request
         /\ \E x \in Range(control') : Closes(x, request)
    BY <1>1, <1>2 DEF ServiceInv, Closes
  <2> QED
    BY <2>1 DEF ServiceInv, Closes
<1>7. ForwardInv'
  <2>1. ASSUME NEW k, ~Answers(k), k # pending \/ m.kind = "cancelled" PROVE ~Answers(k)'
    BY <1>1, <1>2, <2>1 DEF Answers
  <2>2. \A x \in Range(tInbox)' : x.kind = "delivery" => x.id \in 1..reqSeq'
    BY DEF ForwardInv
  <2>3. ASSUME NEW x \in Range(control)', x.kind = "request", ~(Mode' = "forwarded" /\ request' = x.id)
        PROVE  ~Answers(x.id)'
    <3>1. x \in Range(control)
      BY <1>1, <1>2, <2>3
    <3>2. ~Answers(x.id)
      BY <2>3, <3>1 DEF ForwardInv
    <3> QED
      BY <1>2, <2>1, <3>2
  <2>4. Mode' = "service" => ~Answers(request)'
    <3>1. Mode' = "service" => \A k : k = request => ~Answers(k)
      BY DEF ForwardInv
    <3>2. Mode' = "service" => \A k : k = request' => ~Answers(k)'
      BY <1>2, <2>1, <3>1
    <3> QED
      BY <3>2 DEF Answers
  <2> QED
    BY <2>2, <2>3, <2>4 DEF ForwardInv
<1> QED
  BY <1>1, <1>5, <1>6, <1>7

-----------------------------------------------------------------------------
(* The actions preserve the request protocol.                              *)

LEMMA AwaitKeepsProtocol ==
  ASSUME Phases, ProtocolInv, AwaitReadsControl
  PROVE  ProtocolInv'
<1> SUFFICES ASSUME Running' PROVE HookInv' /\ ForwardInv' /\ ServiceInv'
  BY DEF ProtocolInv
<1>0. Running /\ HookInv /\ ForwardInv /\ ServiceInv
  BY DEF ProtocolInv, Running, AwaitReadsControl
<1>1. /\ IsSequence(control) /\ IsSequence(tInbox) /\ reqSeq \in Nat /\ pending \in Nat
      /\ control # <<>> /\ control' = Tail(control) /\ UNCHANGED <<pending, reqSeq>> /\ Mode = "await"
  BY DEF Phases, AwaitReadsControl, Mode
<1>2. Head(control).kind \in {"request", "accepted", "cancelled"}
  BY <1>0, <1>1, FirstMessage
<1>3. HookInv'
  BY <1>0, <1>1, HookRead
<1>4. CASE Head(control).kind = "request"
  <2>1. request' = Head(control).id
    BY <1>4 DEF AwaitReadsControl
  <2>2. CASE FirstResponse = 0
    <3>1. d' = "service" /\ tInbox' = tInbox
      BY <1>4, <2>2 DEF AwaitReadsControl
    <3>2. Mode' = "service"
      BY <3>1 DEF Mode
    <3> QED
      BY <1>0, <1>1, <1>3, <1>4, <2>1, <3>1, <3>2, RequestRead
  <2>3. CASE FirstResponse # 0
    <3>1. d' = "forwarded" /\ Relay(Head(control).id, buffered[FirstResponse])
      BY <1>4, <2>3 DEF AwaitReadsControl
    <3>2. Mode' = "forwarded"
      BY <3>1 DEF Mode
    <3>3. \A x \in Range(tInbox') : x \in Range(tInbox) \/ (x.kind = "delivery" /\ x.id = Head(control).id)
      BY <1>1, <3>1, Relayed
    <3> QED
      BY <1>0, <1>1, <1>3, <1>4, <2>1, <3>2, <3>3, RequestRead
  <2> QED
    BY <2>2, <2>3
<1>5. CASE Head(control).kind \in {"accepted", "cancelled"}
  <2>1. d' = d /\ UNCHANGED <<request, tInbox, back>>
    BY <1>5 DEF AwaitReadsControl
  <2>2. Mode' = Mode /\ Mode \in InTurn
    BY <1>1, <2>1 DEF Mode, InTurn
  <2> QED
    BY <1>0, <1>1, <1>3, <1>5, <2>1, <2>2, MessagePassed
<1> QED
  BY <1>2, <1>4, <1>5

LEMMA ServiceKeepsProtocol ==
  ASSUME Phases, ProtocolInv, ServiceReadsControl
  PROVE  ProtocolInv'
<1> SUFFICES ASSUME Running' PROVE HookInv' /\ ForwardInv' /\ ServiceInv'
  BY DEF ProtocolInv
<1>0. Running /\ HookInv /\ ForwardInv /\ ServiceInv
  BY DEF ProtocolInv, Running, ServiceReadsControl
<1>1. /\ IsSequence(control) /\ reqSeq \in Nat /\ pending \in Nat
      /\ control # <<>> /\ control' = Tail(control) /\ UNCHANGED <<pending, reqSeq, tInbox, back>>
      /\ d = "service" /\ Mode = "service"
  BY DEF Phases, ServiceReadsControl, Mode
<1>2. Head(control).kind \in {"request", "accepted", "cancelled"}
  BY <1>0, <1>1, FirstMessage
<1>3. HookInv'
  BY <1>0, <1>1, HookRead
<1>4. CASE Head(control).kind = "cancelled" /\ Head(control).id = request
  <2>1. d' = "await"
    BY <1>4 DEF ServiceReadsControl
  <2>2. Mode' = "await" /\ Closes(Head(control), request)
    BY <1>4, <2>1 DEF Mode, Closes
  <2> QED
    BY <1>0, <1>1, <1>3, <2>2, CloseRead
<1>5. CASE ~(Head(control).kind = "cancelled" /\ Head(control).id = request)
  <2>1. d' = d /\ request' = request
    BY <1>2, <1>5 DEF ServiceReadsControl
  <2>2. Mode' = Mode /\ Mode \in InTurn
    BY <1>1, <2>1 DEF Mode, InTurn
  <2> QED
    BY <1>0, <1>1, <1>3, <1>5, <2>1, <2>2, MessagePassed
<1> QED
  BY <1>4, <1>5

LEMMA ForwardedKeepsProtocol ==
  ASSUME Phases, ProtocolInv, ForwardedReadsControl
  PROVE  ProtocolInv'
<1> SUFFICES ASSUME Running' PROVE HookInv' /\ ForwardInv' /\ ServiceInv'
  BY DEF ProtocolInv
<1>0. Running /\ HookInv /\ ForwardInv /\ ServiceInv
  BY DEF ProtocolInv, Running, ForwardedReadsControl
<1>1. /\ IsSequence(control) /\ reqSeq \in Nat /\ pending \in Nat
      /\ control # <<>> /\ control' = Tail(control) /\ UNCHANGED <<pending, reqSeq, tInbox, back>>
      /\ d = "forwarded" /\ Mode = "forwarded"
  BY DEF Phases, ForwardedReadsControl, Mode
<1>2. Head(control).kind \in {"request", "accepted", "cancelled"}
  BY <1>0, <1>1, FirstMessage
<1>3. HookInv'
  BY <1>0, <1>1, HookRead
<1>4. CASE Closes(Head(control), request)
  <2>1. d' = "await"
    BY <1>4 DEF ForwardedReadsControl, Closes
  <2>2. Mode' = "await"
    BY <2>1 DEF Mode
  <2> QED
    BY <1>0, <1>1, <1>3, <1>4, <2>2, CloseRead
<1>5. CASE ~Closes(Head(control), request)
  <2>1. d' = d /\ request' = request
    BY <1>2, <1>5 DEF ForwardedReadsControl, Closes
  <2>2. Mode' = Mode /\ Mode \in InTurn
    BY <1>1, <2>1 DEF Mode, InTurn
  <2> QED
    BY <1>0, <1>1, <1>3, <1>5, <2>1, <2>2, MessagePassed
<1> QED
  BY <1>4, <1>5

LEMMA ResponseKeepsProtocol ==
  ASSUME Phases, ProtocolInv, ServiceTakesResponse
  PROVE  ProtocolInv'
<1> SUFFICES ASSUME Running' PROVE HookInv' /\ ForwardInv' /\ ServiceInv'
  BY DEF ProtocolInv
<1>0. Running /\ HookInv /\ ForwardInv /\ ServiceInv
  BY DEF ProtocolInv, Running, ServiceTakesResponse
<1>1. /\ IsSequence(tInbox) /\ UNCHANGED <<control, pending, reqSeq, request>>
      /\ d = "service" /\ d' = "forwarded" /\ Relay(request, Head(inbox))
  BY DEF Phases, ServiceTakesResponse
<1>2. Mode = "service" /\ Mode' = "forwarded"
  BY <1>1 DEF Mode
<1>3. \A x \in Range(tInbox') : x \in Range(tInbox) \/ (x.kind = "delivery" /\ x.id = request)
  BY <1>1, Relayed
<1> QED
  BY <1>0, <1>1, <1>2, <1>3, ResponseForwarded

LEMMA RequestKeepsProtocol ==
  ASSUME Phases, ProtocolInv, TurnRequests
  PROVE  ProtocolInv'
<1>0. Running /\ HookInv /\ ForwardInv /\ ServiceInv
  BY DEF ProtocolInv, Running, TurnRequests
<1>1. /\ IsSequence(control) /\ reqSeq \in Nat /\ pending = 0 /\ pending' = reqSeq + 1 /\ reqSeq' = reqSeq + 1
      /\ Send(Msg("request", reqSeq + 1)) /\ UNCHANGED <<tInbox, request, d, back>>
  BY DEF Phases, TurnRequests, TurnOnly, driverVars
<1>2. Mode' = Mode
  BY <1>1 DEF Mode
<1> QED
  BY <1>0, <1>1, <1>2, RequestSent DEF ProtocolInv

LEMMA LeaveKeepsProtocol ==
  ASSUME Phases, ProtocolInv, TurnLeavesWait
  PROVE  ProtocolInv'
<1>0. Running /\ HookInv /\ ForwardInv /\ ServiceInv
  BY DEF ProtocolInv, Running, TurnLeavesWait
<1>1. /\ IsSequence(control) /\ reqSeq \in Nat /\ pending' = 0
      /\ UNCHANGED <<tInbox, request, reqSeq, d, back>>
  BY DEF Phases, TurnLeavesWait, TurnOnly, driverVars
<1>2. Mode' = Mode
  BY <1>1 DEF Mode
<1>3. CASE pending = 0
  <2>1. UNCHANGED <<control, pending>>
    BY <1>1, <1>3 DEF TurnLeavesWait
  <2> QED
    BY <1>0, <1>1, <1>2, <2>1, NothingForwarded
<1>4. CASE pending # 0
  <2> DEFINE m == Msg("cancelled", pending)
  <2>1. PICK again \in Resends : control' = control \o Copies(m, again)
    BY <1>4 DEF TurnLeavesWait, Send
  <2>2. again \in BOOLEAN
    BY TurnConstants
  <2>3. Closes(m, pending) /\ m.kind # "accepted"
    BY DEF Msg, Closes
  <2> HIDE DEF m
  <2>4. \A x \in Range(tInbox') : x \in Range(tInbox)
    BY <1>1
  <2> QED
    BY <1>0, <1>1, <1>2, <1>4, <2>1, <2>2, <2>3, <2>4, CloseSent DEF ProtocolInv
<1> QED
  BY <1>3, <1>4

LEMMA AcceptKeepsProtocol ==
  ASSUME Phases, ProtocolInv, TurnAccepts
  PROVE  ProtocolInv'
<1> DEFINE ds == <<Head(tInbox).what>>
<1>0. Running /\ HookInv /\ ForwardInv /\ ServiceInv
  BY DEF ProtocolInv, Running, TurnAccepts, Waiting
<1>1. /\ IsSequence(control) /\ IsSequence(tInbox) /\ reqSeq \in Nat /\ pending' = 0 /\ tInbox # <<>>
      /\ Head(tInbox).kind = "delivery" /\ Head(tInbox).id = pending
      /\ tInbox' = Tail(tInbox) /\ UNCHANGED <<request, reqSeq, d, back>>
  BY DEF Phases, TurnAccepts, TurnOnly, driverVars, Accepted
<1>2. Mode' = Mode
  BY <1>1 DEF Mode
<1>3. Range(tInbox) = {Head(tInbox)} \cup Range(tInbox')
  BY <1>1, HeadRead
<1>4. Answers(pending) /\ pending # 0
  BY <1>0, <1>1, <1>3 DEF Answers, ForwardInv
<1>5. CASE CancelsTurn(ds)
  <2>1. t' = "finished"
    BY <1>5 DEF TurnAccepts
  <2> QED
    BY <2>1 DEF ProtocolInv, Running
<1>6. CASE ~CancelsTurn(ds)
  <2> DEFINE m == Msg("accepted", pending)
  <2>1. PICK again \in Resends : control' = control \o Copies(m, again)
    BY <1>6 DEF TurnAccepts, Send
  <2>2. again \in BOOLEAN
    BY TurnConstants
  <2>3. Closes(m, pending)
    BY DEF Msg, Closes
  <2> HIDE DEF m
  <2> QED
    BY <1>0, <1>1, <1>2, <1>3, <1>4, <2>1, <2>2, <2>3, CloseSent DEF ProtocolInv
<1> QED
  BY <1>5, <1>6

\* What the children send to the turn's inbox is no forwarded delivery.
LEMMA InboxKeepsProtocol ==
  ASSUME Phases, ProtocolInv,
         TurnReadsChild \/ TurnIgnoresDelivery \/ \E c \in Calls : ChildAsks(c) \/ ChildSettles(c)
  PROVE  ProtocolInv'
<1>1. UNCHANGED <<t, control, pending, reqSeq, request, d, back>>
  BY DEF TurnReadsChild, TurnIgnoresDelivery, ChildAsks, ChildSettles, TurnOnly, driverVars
<1>2. Mode' = Mode /\ (Running' => Running) /\ IsSequence(tInbox)
  BY <1>1 DEF Mode, Running, Phases
<1>3. CASE TurnReadsChild \/ TurnIgnoresDelivery
  <2>1. tInbox # <<>> /\ tInbox' = Tail(tInbox)
    BY <1>3 DEF TurnReadsChild, TurnIgnoresDelivery
  <2>2. Range(tInbox') \subseteq Range(tInbox)
    BY <1>2, <2>1, HeadRead
  <2> QED
    BY <1>1, <1>2, <2>2, NothingForwarded
<1>4. CASE \E c \in Calls : ChildAsks(c) \/ ChildSettles(c)
  <2>1. PICK m : m.kind # "delivery" /\ tInbox' = Append(tInbox, m)
    <3>1. PICK c \in Calls : ChildAsks(c) \/ ChildSettles(c)
      BY <1>4
    <3>2. CASE ChildAsks(c)
      <4>1. tInbox' = Append(tInbox, [kind |-> "ask", id |-> c])
        BY <3>2 DEF ChildAsks
      <4> QED
        BY <4>1
    <3>3. CASE ChildSettles(c)
      <4>1. tInbox' = Append(tInbox, [kind |-> "result", id |-> c])
        BY <3>3 DEF ChildSettles
      <4> QED
        BY <4>1
    <3> QED
      BY <3>1, <3>2, <3>3
  <2>2. Range(tInbox') = Range(tInbox) \cup {m}
    BY <1>2, <2>1, ElementAdded
  <2> QED
    BY <1>1, <1>2, <2>1, <2>2, NothingForwarded
<1> QED
  BY <1>3, <1>4

LEMMA DriverKeepsProtocol ==
  ASSUME Phases, ProtocolInv, DriverNext
  PROVE  ProtocolInv'
<1>1. CASE ReceiverReadsCommand \/ ForwardLands \/ ForwardGivesUp
  <2>1. UNCHANGED <<t, control, tInbox, pending, reqSeq, request>>
    BY <1>1 DEF ReceiverReadsCommand, ForwardLands, ForwardGivesUp, turnVars
  <2>2. Mode' = Mode
    BY <1>1 DEF ReceiverReadsCommand, ForwardLands, ForwardGivesUp, HandleDelivery, HandleControl, HandleCancel,
                StartForward, StayHere, Mode, InTurn, Phases
  <2> QED
    BY <2>1, <2>2, NothingForwarded DEF Running
<1>2. CASE InlineContinues
  <2>1. control' = <<>> /\ tInbox' = <<>> /\ pending' = 0 /\ reqSeq' = 0 /\ d' = "await"
    BY <1>2 DEF InlineContinues, Phases
  <2> QED
    BY <2>1, NothingAsked DEF Mode
<1>3. CASE \/ InlineReadsCommand \/ InlineToChild \/ \E action \in {"done", "park"} : InlineSettles(action)
           \/ \E inline \in BOOLEAN : RoutedToTurn(inline)
  <2>1. t' \in {"inline", "starting", "finished"}
    BY <1>3 DEF InlineReadsCommand, InlineToChild, InlineSettles, RoutedToTurn, StartTurn, Phases
  <2> QED
    BY <2>1 DEF ProtocolInv, Running
<1>4. CASE \/ \E inline \in BOOLEAN : ParkedTakesControl(inline)
           \/ ParkedTakesBuffered \/ ParkedReadsCommand \/ RoutedAway
  <2>1. t = "finished" /\ t' \in {"inline", "starting", t}
    BY <1>4 DEF ParkedTakesControl, ParkedTakesBuffered, ParkedReadsCommand, RoutedAway, StartTurn, turnVars, Phases
  <2> QED
    BY <2>1 DEF ProtocolInv, Running
<1> QED
  BY <1>1, <1>2, <1>3, <1>4, AwaitKeepsProtocol, ServiceKeepsProtocol, ForwardedKeepsProtocol, ResponseKeepsProtocol
     DEF DriverNext

LEMMA TurnKeepsProtocol ==
  ASSUME Phases, ProtocolInv, TurnNext
  PROVE  ProtocolInv'
<1>1. CASE TurnClaims
  <2>1. UNCHANGED <<control, tInbox, pending, reqSeq, d, back>> /\ t = "starting"
    BY <1>1 DEF TurnClaims, TurnOnly, driverVars
  <2>2. control' = <<>> /\ tInbox' = <<>> /\ pending' = 0 /\ reqSeq' = 0 /\ Mode \in {"inline", "await"}
    BY <2>1 DEF Phases
  <2>3. Mode' = Mode
    BY <2>1 DEF Mode
  <2> QED
    BY <2>2, <2>3, NothingAsked
<1>2. CASE TurnReadsCancel \/ \E cs \in SUBSET Calls : TurnDispatches(cs)
  <2>1. UNCHANGED <<control, tInbox, pending, reqSeq, request, d, back>> /\ Running
    BY <1>2 DEF TurnReadsCancel, TurnDispatches, TurnOnly, driverVars, Running
  <2>2. Mode' = Mode
    BY <2>1 DEF Mode
  <2> QED
    BY <2>1, <2>2, NothingForwarded
<1>3. CASE TurnCancels \/ TurnFails \/ \E action \in {"done", "park"} : TurnSettles(action)
  BY <1>3 DEF TurnCancels, TurnFails, TurnSettles, Finish, ProtocolInv, Running
<1> QED
  BY <1>1, <1>2, <1>3, RequestKeepsProtocol, LeaveKeepsProtocol, AcceptKeepsProtocol, InboxKeepsProtocol DEF TurnNext

LEMMA ProtocolInductive ==
  ASSUME Phases, ProtocolInv, [Next]_vars
  PROVE  ProtocolInv'
<1>1. CASE UNCHANGED vars \/ \E c \in Commands : SendCommand(c)
  <2>1. UNCHANGED <<t, control, tInbox, pending, reqSeq, request, d, back>>
    BY <1>1 DEF vars, SendCommand, driverVars, turnVars
  <2>2. Mode' = Mode /\ Running' = Running
    BY <2>1 DEF Mode, Running
  <2> QED
    BY <2>1, <2>2, NothingForwarded
<1> QED
  BY <1>1, DriverKeepsProtocol, TurnKeepsProtocol, InboxKeepsProtocol DEF Next

-----------------------------------------------------------------------------
(* The modes of the driver and of the turn.                                *)

LEMMA ControlSent ==
  ASSUME NEW m, IsSequence(control), Send(m)
  PROVE  IsSequence(control') /\ Range(control') = Range(control) \cup {m}
<1>1. PICK again \in Resends : control' = control \o Copies(m, again)
  BY DEF Send
<1>2. again \in BOOLEAN
  BY TurnConstants
<1>3. Extends(control', control, m)
  BY <1>1, <1>2, MessageSent
<1> QED
  BY <1>3 DEF Extends

LEMMA DriverKeepsPhases ==
  ASSUME Phases, DriverNext
  PROVE  Phases'
<1> USE DEF Phases
<1>1. CASE ReceiverReadsCommand \/ ForwardLands \/ ForwardGivesUp
  <2>1. UNCHANGED <<t, control, tInbox, pending, reqSeq>>
    BY <1>1 DEF ReceiverReadsCommand, ForwardLands, ForwardGivesUp, turnVars
  <2>2. /\ d \in InTurn \cup {"cancelling"} /\ d' \in InTurn \cup {"cancelling"} /\ back' \in InTurn
        /\ Mode' = Mode
    BY <1>1 DEF ReceiverReadsCommand, ForwardLands, ForwardGivesUp, HandleDelivery, HandleControl, HandleCancel,
                StartForward, StayHere, Mode, InTurn
  <2> QED
    BY <2>1, <2>2 DEF InTurn, DriverModes
<1>2. CASE AwaitReadsControl \/ ServiceReadsControl \/ ForwardedReadsControl
  <2>1. /\ control # <<>> /\ control' = Tail(control) /\ UNCHANGED <<t, pending, reqSeq, back>>
        /\ d \in InTurn /\ d' \in InTurn \cup {"parked", "ended"}
        /\ d' \in {"parked", "ended"} => Terminal(Head(control))
    BY <1>2 DEF AwaitReadsControl, ServiceReadsControl, ForwardedReadsControl, DriverTakes, InTurn, Terminal
  <2>2. IsSequence(control') /\ Range(control) = {Head(control)} \cup Range(control')
    BY <2>1, HeadRead
  <2>3. IsSequence(tInbox')
    <3>1. CASE UNCHANGED tInbox
      BY <3>1
    <3>2. CASE tInbox' # tInbox
      <4>1. Relay(Head(control).id, buffered[FirstResponse])
        BY <1>2, <3>2 DEF AwaitReadsControl, ServiceReadsControl, ForwardedReadsControl
      <4> QED
        BY <4>1, Relayed
    <3> QED
      BY <3>1, <3>2
  <2>4. t \notin {"inline", "starting"}
    BY <2>1 DEF InTurn
  <2> QED
    BY <2>1, <2>2, <2>3, <2>4 DEF InTurn, DriverModes
<1>3. CASE ServiceTakesResponse
  <2>1. d = "service" /\ d' = "forwarded" /\ Relay(request, Head(inbox)) /\ UNCHANGED <<t, control, pending, reqSeq, back>>
    BY <1>3 DEF ServiceTakesResponse
  <2>2. IsSequence(tInbox')
    BY <2>1, Relayed
  <2>3. t \notin {"inline", "starting"}
    BY <2>1 DEF Mode
  <2> QED
    BY <2>1, <2>2, <2>3 DEF DriverModes
<1>4. CASE InlineReadsCommand \/ InlineContinues \/ InlineToChild \/ \E action \in {"done", "park"} : InlineSettles(action)
  <2>1. /\ d = "inline" /\ UNCHANGED <<control, tInbox, pending, reqSeq, back>>
        /\ <<d', t'>> \in {<<"inline", t>>, <<"await", "step">>, <<"await", "starting">>,
                          <<"parked", "finished">>, <<"ended", "finished">>}
    BY <1>4 DEF InlineReadsCommand, InlineContinues, InlineToChild, InlineSettles, DriverTakes
  <2>2. Range(control) = {} /\ t = "inline"
    BY <2>1, EmptyIsSequence
  <2> QED
    BY <2>1, <2>2 DEF Mode, DriverModes, TurnModes
<1>5. CASE \/ \E inline \in BOOLEAN : ParkedTakesControl(inline) \/ RoutedToTurn(inline)
           \/ ParkedTakesBuffered \/ ParkedReadsCommand \/ RoutedAway
  <2>1. d \in {"parked", "routing"} /\ t = "finished" /\ back' = back
    BY <1>5 DEF ParkedTakesControl, RoutedToTurn, ParkedTakesBuffered, ParkedReadsCommand, RoutedAway
  <2>2. CASE /\ control' = <<>> /\ tInbox' = <<>> /\ pending' = 0 /\ reqSeq' = 0
             /\ <<d', t'>> \in {<<"inline", "inline">>, <<"await", "starting">>}
    BY <2>1, <2>2, EmptyIsSequence DEF Mode, DriverModes, TurnModes
  <2>3. CASE UNCHANGED <<t, control, tInbox, pending, reqSeq>> /\ d' \in {"parked", "routing", "ended"}
    BY <2>1, <2>3 DEF Mode, DriverModes
  <2> QED
    BY <1>5, <2>2, <2>3 DEF ParkedTakesControl, RoutedToTurn, ParkedTakesBuffered, ParkedReadsCommand, RoutedAway,
                            StartTurn, turnVars, DiscardTask
<1> QED
  BY <1>1, <1>2, <1>3, <1>4, <1>5 DEF DriverNext

\* The turn finishes with a last message, or with the acceptance of a delivery
\* followed by it.
LEMMA TurnKeepsPhases ==
  ASSUME Phases, ProtocolInv, TurnNext
  PROVE  Phases'
<1> USE DEF Phases
<1>0. UNCHANGED <<d, back>>
  BY DEF TurnNext, TurnClaims, TurnReadsCancel, TurnSettles, TurnCancels, TurnDispatches, TurnFails, TurnRequests,
         TurnLeavesWait, TurnReadsChild, TurnIgnoresDelivery, TurnAccepts, TurnOnly, driverVars
<1>1. CASE TurnClaims \/ TurnReadsCancel \/ \E cs \in SUBSET Calls : TurnDispatches(cs)
  <2>1. UNCHANGED <<control, tInbox, pending, reqSeq>> /\ t \in {"starting", "step", "wait"} /\ t' \in {"step", "wait"}
    BY <1>1 DEF TurnClaims, TurnReadsCancel, TurnDispatches, Running
  <2> QED
    BY <1>0, <2>1 DEF TurnModes, Mode
<1>2. CASE TurnCancels \/ TurnFails \/ \E action \in {"done", "park"} : TurnSettles(action)
  <2>1. /\ t \in {"step", "wait"} /\ t' = "finished" /\ UNCHANGED <<tInbox, pending, reqSeq>>
        /\ \E m : Send(m)
    BY <1>2 DEF TurnCancels, TurnFails, TurnSettles, Finish, Running
  <2>2. IsSequence(control')
    BY <2>1, ControlSent
  <2> QED
    BY <1>0, <2>1, <2>2 DEF TurnModes, Mode
<1>3. CASE TurnRequests \/ TurnLeavesWait
  <2>1. /\ t = "wait" /\ t' \in {"step", "wait"} /\ tInbox' = tInbox /\ reqSeq' \in Nat /\ pending' \in Nat
    BY <1>3 DEF TurnRequests, TurnLeavesWait
  <2>2. \/ control' = control
        \/ \E k \in {"request", "cancelled"} : \E i : Send(Msg(k, i))
    BY <1>3 DEF TurnRequests, TurnLeavesWait
  <2>3. IsSequence(control') /\ \A x \in Range(control') : ~Terminal(x)
    <3>1. \A k \in {"request", "cancelled"} : \A i : ~Terminal(Msg(k, i))
      BY DEF Terminal, Msg
    <3> QED
      BY <2>1, <2>2, <3>1, ControlSent
  <2> QED
    BY <1>0, <2>1, <2>3 DEF TurnModes, Mode
<1>4. CASE TurnReadsChild \/ TurnIgnoresDelivery
  <2>1. tInbox # <<>> /\ tInbox' = Tail(tInbox) /\ UNCHANGED <<t, control, pending, reqSeq>> /\ t = "wait"
    BY <1>4 DEF TurnReadsChild, TurnIgnoresDelivery, Waiting
  <2>2. IsSequence(tInbox')
    BY <2>1, HeadRead
  <2> QED
    BY <1>0, <2>1, <2>2 DEF Mode
<1>5. CASE TurnAccepts
  <2> DEFINE ds == <<Head(tInbox).what>>
             m == Msg("accepted", pending)
  <2>1. tInbox # <<>> /\ tInbox' = Tail(tInbox) /\ pending' = 0 /\ reqSeq' = reqSeq /\ t = "wait"
    BY <1>5 DEF TurnAccepts, Waiting
  <2>2. IsSequence(tInbox')
    BY <2>1, HeadRead
  <2>3. CASE CancelsTurn(ds)
    <3>1. PICK first, second \in Resends : control' = control \o Copies(m, first) \o Copies(Result("cancelled"), second)
      BY <1>5, <2>3 DEF TurnAccepts
    <3>2. first \in BOOLEAN /\ second \in BOOLEAN
      BY TurnConstants
    <3>3. IsSequence(control \o Copies(m, first))
      BY <3>2, MessageSent DEF Extends
    <3>4. IsSequence(control')
      BY <3>1, <3>2, <3>3, MessageSent DEF Extends
    <3>5. t' = "finished"
      BY <1>5, <2>3 DEF TurnAccepts
    <3> QED
      BY <1>0, <2>1, <2>2, <3>4, <3>5 DEF TurnModes, Mode
  <2>4. CASE ~CancelsTurn(ds)
    <3>1. Send(m) /\ t' = t
      BY <1>5, <2>4 DEF TurnAccepts
    <3>2. ~Terminal(m)
      BY DEF Msg, Terminal
    <3> HIDE DEF m
    <3>3. IsSequence(control') /\ \A x \in Range(control') : ~Terminal(x)
      BY <2>1, <3>1, <3>2, ControlSent
    <3> QED
      BY <1>0, <2>1, <2>2, <3>1, <3>3 DEF Mode
  <2> QED
    BY <2>3, <2>4
<1> QED
  BY <1>1, <1>2, <1>3, <1>4, <1>5 DEF TurnNext

LEMMA PhasesInductive ==
  ASSUME Phases, ProtocolInv, [Next]_vars
  PROVE  Phases'
<1>1. CASE UNCHANGED vars \/ \E c \in Commands : SendCommand(c)
  <2>1. UNCHANGED <<t, control, tInbox, pending, reqSeq, d, back>>
    BY <1>1 DEF vars, SendCommand, driverVars, turnVars
  <2> QED
    BY <2>1 DEF Phases, Mode
<1>2. CASE \E c \in Calls : ChildAsks(c) \/ ChildSettles(c)
  <2>1. (\E x : tInbox' = Append(tInbox, x)) /\ UNCHANGED <<t, control, pending, reqSeq, d, back>> /\ t = "wait"
    BY <1>2 DEF ChildAsks, ChildSettles, TurnOnly, driverVars
  <2>2. IsSequence(tInbox')
    BY <2>1, ElementAdded DEF Phases
  <2> QED
    BY <2>1, <2>2 DEF Phases, Mode
<1> QED
  BY <1>1, <1>2, DriverKeepsPhases, TurnKeepsPhases DEF Next

-----------------------------------------------------------------------------
(* Cancellations.                                                          *)

\* A step that leaves the turn and its cancellations alone.
LEMMA NothingCancelled ==
  ASSUME CancelInv, UNCHANGED <<turn, cancelQ, initial, aborted>>, d' = "cancelling" => fwd'.from = turn
  PROVE  CancelInv'
BY DEF CancelInv, Aims

\* The turn that starts has been sent no cancellation.
LEMMA NewTurn ==
  ASSUME cancelQ' = <<>>, initial' = NotAborted, aborted' = NotAborted, d' # "cancelling"
  PROVE  CancelInv'
BY EmptyIsSequence DEF CancelInv, Aims, NotAborted

LEMMA DriverKeepsCancels ==
  ASSUME Phases, CancelInv, DriverNext
  PROVE  CancelInv'
<1>1. CASE ReceiverReadsCommand
  <2>1. UNCHANGED <<turn, cancelQ, initial, aborted>> /\ d \in InTurn
    BY <1>1 DEF ReceiverReadsCommand, turnVars
  <2>2. d' = "cancelling" => fwd'.from = turn
    BY <1>1, <2>1 DEF ReceiverReadsCommand, HandleDelivery, HandleControl, HandleCancel, StartForward, StayHere, Cancel,
                      InTurn
  <2> QED
    BY <2>1, <2>2, NothingCancelled
<1>2. CASE ForwardLands
  <2>1. /\ cancelQ' = Append(cancelQ, fwd) /\ UNCHANGED <<turn, initial, aborted>> /\ fwd.from = turn
        /\ d' # "cancelling" /\ IsSequence(cancelQ)
    BY <1>2 DEF ForwardLands, CancelInv, Phases, InTurn
  <2>2. IsSequence(cancelQ') /\ Range(cancelQ') = Range(cancelQ) \cup {fwd}
    BY <2>1, ElementAdded
  <2> QED
    BY <2>1, <2>2 DEF CancelInv, Aims
<1>3. CASE \/ ForwardGivesUp \/ AwaitReadsControl \/ ServiceReadsControl \/ ForwardedReadsControl \/ ServiceTakesResponse
           \/ InlineToChild \/ (\E action \in {"done", "park"} : InlineSettles(action))
           \/ ParkedTakesBuffered \/ ParkedReadsCommand \/ RoutedAway
  <2>1. UNCHANGED <<turn, cancelQ, initial, aborted>>
    BY <1>3 DEF ForwardGivesUp, AwaitReadsControl, ServiceReadsControl, ForwardedReadsControl, ServiceTakesResponse,
                InlineToChild, InlineSettles, ParkedTakesBuffered, ParkedReadsCommand, RoutedAway, turnVars
  <2>2. d' # "cancelling"
    BY <1>3 DEF ForwardGivesUp, AwaitReadsControl, ServiceReadsControl, ForwardedReadsControl, ServiceTakesResponse,
                InlineToChild, InlineSettles, ParkedTakesBuffered, ParkedReadsCommand, RoutedAway, DriverTakes,
                Phases, InTurn
  <2> QED
    BY <2>1, <2>2, NothingCancelled
<1>4. CASE InlineReadsCommand
  <2>1. UNCHANGED <<turn, cancelQ, aborted>> /\ d' # "cancelling"
    BY <1>4 DEF InlineReadsCommand
  <2>2. initial' = initial \/ \E guard \in {0, turn} : InlineAbort(guard)
    BY <1>4 DEF InlineReadsCommand
  <2>3. Aims(initial)'
    <3>1. \A guard \in {0, turn} : Cancel(guard).from = turn /\ Cancel(guard).guard \in {0, turn}
      BY DEF Cancel
    <3> QED
      BY <2>1, <2>2, <3>1 DEF InlineAbort, Aims, CancelInv, NotAborted
  <2> QED
    BY <2>1, <2>3 DEF CancelInv, Aims
<1>5. CASE InlineContinues
  <2>1. UNCHANGED <<turn, cancelQ, initial>> /\ aborted' = initial /\ d' = "await"
    BY <1>5 DEF InlineContinues
  <2> QED
    BY <2>1 DEF CancelInv, Aims, NotAborted
<1>6. CASE \E inline \in BOOLEAN : ParkedTakesControl(inline) \/ RoutedToTurn(inline)
  <2>1. CASE cancelQ' = <<>> /\ initial' = NotAborted /\ aborted' = NotAborted /\ d' # "cancelling"
    BY <2>1, NewTurn
  <2>2. CASE UNCHANGED <<turn, cancelQ, initial, aborted>> /\ d' # "cancelling"
    BY <2>2, NothingCancelled
  <2> QED
    BY <1>6, <2>1, <2>2 DEF ParkedTakesControl, RoutedToTurn, StartTurn, turnVars
<1> QED
  BY <1>1, <1>2, <1>3, <1>4, <1>5, <1>6 DEF DriverNext

LEMMA TurnKeepsCancels ==
  ASSUME CancelInv, TurnNext
  PROVE  CancelInv'
<1>0. UNCHANGED <<d, fwd, turn>>
  BY DEF TurnNext, TurnClaims, TurnReadsCancel, TurnSettles, TurnCancels, TurnDispatches, TurnFails, TurnRequests,
         TurnLeavesWait, TurnReadsChild, TurnIgnoresDelivery, TurnAccepts, TurnOnly, driverVars
<1>1. CASE TurnReadsCancel
  <2>1. /\ cancelQ # <<>> /\ cancelQ' = Tail(cancelQ) /\ initial' = initial /\ IsSequence(cancelQ)
        /\ aborted' = IF Head(cancelQ).guard \in {0, turn} THEN Head(cancelQ) ELSE NotAborted
    BY <1>1 DEF TurnReadsCancel, CancelInv, Matches
  <2>2. IsSequence(cancelQ') /\ Range(cancelQ) = {Head(cancelQ)} \cup Range(cancelQ')
    BY <2>1, HeadRead
  <2> QED
    BY <1>0, <2>1, <2>2 DEF CancelInv, Aims, NotAborted
<1>2. CASE TurnClaims
  <2>1. UNCHANGED <<cancelQ, initial>> /\ aborted' \in {initial, NotAborted}
    BY <1>2 DEF TurnClaims
  <2> QED
    BY <1>0, <2>1 DEF CancelInv, Aims, NotAborted
<1>3. CASE ~(TurnReadsCancel \/ TurnClaims)
  <2>1. UNCHANGED <<cancelQ, initial, aborted>>
    BY <1>3 DEF TurnNext, TurnSettles, TurnCancels, TurnDispatches, TurnFails, TurnRequests,
         TurnLeavesWait, TurnReadsChild, TurnIgnoresDelivery, TurnAccepts
  <2> QED
    BY <1>0, <2>1 DEF CancelInv, Aims
<1> QED
  BY <1>1, <1>2, <1>3

LEMMA CancelInductive ==
  ASSUME Phases, CancelInv, [Next]_vars
  PROVE  CancelInv'
<1>1. CASE UNCHANGED vars \/ (\E c \in Commands : SendCommand(c)) \/ \E c \in Calls : ChildAsks(c) \/ ChildSettles(c)
  <2>1. UNCHANGED <<turn, cancelQ, initial, aborted, d, fwd>>
    BY <1>1 DEF vars, SendCommand, ChildAsks, ChildSettles, TurnOnly, driverVars, turnVars
  <2> QED
    BY <2>1 DEF CancelInv, Aims
<1> QED
  BY <1>1, DriverKeepsCancels, TurnKeepsCancels DEF Next

-----------------------------------------------------------------------------
(* The theorems.                                                           *)

\* The request protocol between the driver and its turn keeps its invariant,
\* and so do the cancellations on their way to the turn.
THEOREM TurnInvariant == Spec => []IInv
<1>1. Init => IInv
  <2> SUFFICES ASSUME Init PROVE IInv
    OBVIOUS
  <2>1. Phases
    BY EmptyIsSequence DEF Init, Phases, Mode, TurnModes, DriverModes, InTurn
  <2>2. CancelInv
    BY EmptyIsSequence DEF Init, CancelInv, Aims, NotAborted
  <2>3. ProtocolInv
    BY DEF Init, ProtocolInv, Running
  <2> QED
    BY <2>1, <2>2, <2>3 DEF IInv
<1>2. IInv /\ [Next]_vars => IInv'
  BY PhasesInductive, CancelInductive, ProtocolInductive DEF IInv
<1> QED
  BY <1>1, <1>2, PTL DEF Spec

\* A turn that waits for a delivery (waitForRuntimeActionResults) is being
\* served: its request is on the control hook, or the driver is servicing
\* exactly that request (serviceDeliveryRequest, awaitForwardedDelivery), also
\* while it forwards a cancellation and however sends are repeated.
THEOREM RequestServed == Spec => []RequestIsServed
<1>1. IInv => RequestIsServed
  <2> SUFFICES ASSUME IInv, t = "wait", pending # 0
               PROVE  \/ \E i \in DOMAIN control : control[i].kind = "request" /\ control[i].id = pending
                      \/ /\ request = pending
                         /\ d \in {"service", "forwarded"} \/ (d = "cancelling" /\ back \in {"service", "forwarded"})
    BY DEF RequestIsServed
  <2>1. ServiceInv
    BY DEF IInv, ProtocolInv, Running
  <2>2. CASE \E m \in Range(control) : Asks(m, pending)
    BY <2>2 DEF Asks, Range
  <2>3. CASE request = pending /\ Mode \in {"service", "forwarded"}
    BY <2>3 DEF Mode
  <2> QED
    BY <2>1, <2>2, <2>3 DEF ServiceInv
<1> QED
  BY <1>1, TurnInvariant, PTL

\* A cancellation (forwardTurnCancellationStep, consumeMatchingCancel,
\* InlineTurnControl.abort) aborts only the turn during which its command was
\* read and, when it is guarded, only the turn it names.
THEOREM CancelsOwnTurn == Spec => []CancelHitsItsTurn
<1>1. IInv => CancelHitsItsTurn
  BY DEF IInv, CancelInv, Aims, CancelHitsItsTurn
<1> QED
  BY <1>1, TurnInvariant, PTL

-----------------------------------------------------------------------------
(* Deliveries.  First, parts of queues: filtered, cut and joined.          *)

\* The positions of a set, counted from the first, are its elements in order.
LEMMA Positions ==
  ASSUME NEW n \in Nat, NEW I \in SUBSET (1..n)
  PROVE  /\ Cardinality(I) \in Nat
         /\ \A k \in 1..Cardinality(I) : Nth(I, k) \in I
         /\ \A k, l \in 1..Cardinality(I) : k < l => Nth(I, k) < Nth(I, l)
         /\ \A i \in I : \E k \in 1..Cardinality(I) : Nth(I, k) = i
<1> DEFINE N == Cardinality(I)
           upTo(i) == {j \in I : j <= i}
           rank == [i \in I |-> Cardinality(upTo(i))]
<1>1. IsFiniteSet(I) /\ N \in Nat
  <2>1. IsFiniteSet(1..n)
    BY FS_Interval
  <2>2. IsFiniteSet(I)
    BY <2>1, FS_Subset
  <2> QED
    BY <2>2, FS_CardinalityType
<1>2. \A i \in I : IsFiniteSet(upTo(i)) /\ Cardinality(upTo(i)) \in 1..N
  <2> SUFFICES ASSUME NEW i \in I PROVE IsFiniteSet(upTo(i)) /\ Cardinality(upTo(i)) \in 1..N
    OBVIOUS
  <2>1. upTo(i) \in SUBSET I /\ i \in upTo(i)
    OBVIOUS
  <2> HIDE DEF upTo
  <2>2. IsFiniteSet(upTo(i)) /\ Cardinality(upTo(i)) <= N
    BY <1>1, <2>1, FS_Subset
  <2>3. Cardinality(upTo(i)) \in Nat /\ Cardinality(upTo(i)) # 0
    BY <2>1, <2>2, FS_CardinalityType, FS_EmptySet
  <2> QED
    BY <1>1, <2>2, <2>3
<1>3. ASSUME NEW i \in I, NEW j \in I, i < j PROVE Cardinality(upTo(i)) < Cardinality(upTo(j))
  <2>1. upTo(i) \in SUBSET upTo(j) /\ j \in upTo(j) /\ j \notin upTo(i)
    <3>1. \A k \in 1..n : k <= i => k <= j
      BY <1>3
    <3>2. ~(j <= i) /\ j <= j
      BY <1>3
    <3> QED
      BY <3>1, <3>2
  <2> HIDE DEF upTo
  <2>2. Cardinality(upTo(i)) <= Cardinality(upTo(j)) /\ Cardinality(upTo(i)) # Cardinality(upTo(j))
    BY <1>2, <2>1, FS_Subset
  <2> QED
    BY <1>2, <2>2
<1>4. \A i, j \in I : Cardinality(upTo(i)) = Cardinality(upTo(j)) => i = j
  <2> SUFFICES ASSUME NEW i \in I, NEW j \in I, Cardinality(upTo(i)) = Cardinality(upTo(j)), i # j PROVE FALSE
    OBVIOUS
  <2>1. i < j \/ j < i
    OBVIOUS
  <2> HIDE DEF upTo
  <2> QED
    BY <1>2, <1>3, <2>1
<1> HIDE DEF upTo
<1>5. rank \in Injection(I, 1..N)
  BY <1>2, <1>4 DEF Injection, IsInjective
<1>6. rank \in Surjection(I, 1..N)
  <2>1. IsFiniteSet(1..N) /\ Cardinality(1..N) = N
    BY <1>1, FS_Interval
  <2> QED
    BY <1>5, <2>1, FS_Injection
<1>7. \A k \in 1..N : \E i \in I : Cardinality(upTo(i)) = k
  BY <1>6 DEF Surjection
<1>8. ASSUME NEW k \in 1..N PROVE Nth(I, k) \in I /\ Cardinality(upTo(Nth(I, k))) = k
  <2>1. Nth(I, k) = CHOOSE i \in I : Cardinality(upTo(i)) = k
    BY DEF Nth, upTo
  <2> QED
    BY <1>7, <2>1
<1>9. ASSUME NEW k \in 1..N, NEW l \in 1..N, k < l PROVE Nth(I, k) < Nth(I, l)
  <2>1. Nth(I, k) \in I /\ Nth(I, l) \in I /\ Cardinality(upTo(Nth(I, k))) = k /\ Cardinality(upTo(Nth(I, l))) = l
    BY <1>8
  <2>2. Nth(I, k) \in 1..n /\ Nth(I, l) \in 1..n
    BY <2>1
  <2>3. Nth(I, l) # Nth(I, k)
    BY <1>9, <2>1
  <2>4. Nth(I, l) < Nth(I, k) => l < k
    BY <1>3, <2>1
  <2> QED
    BY <1>9, <2>2, <2>3, <2>4
<1>10. ASSUME NEW i \in I PROVE \E k \in 1..N : Nth(I, k) = i
  BY <1>2, <1>4, <1>8
<1> QED
  BY <1>1, <1>8, <1>9, <1>10

\* What a filter keeps: the elements at the positions, in their order.
LEMMA Filtered ==
  ASSUME NEW S, NEW q \in Seq(S), NEW I \in SUBSET DOMAIN q
  PROVE  /\ Filter(q, I) \in Seq(S)
         /\ Range(Filter(q, I)) = {q[i] : i \in I}
         /\ \A k, l \in DOMAIN Filter(q, I) : k < l =>
              \E i, j \in I : i < j /\ Filter(q, I)[k] = q[i] /\ Filter(q, I)[l] = q[j]
<1> DEFINE F == Filter(q, I)
           N == Cardinality(I)
<1>1. DOMAIN q = 1..Len(q) /\ Len(q) \in Nat /\ \A i \in DOMAIN q : q[i] \in S
  BY Indices
<1>2. /\ N \in Nat
      /\ \A k \in 1..N : Nth(I, k) \in I
      /\ \A k, l \in 1..N : k < l => Nth(I, k) < Nth(I, l)
      /\ \A i \in I : \E k \in 1..N : Nth(I, k) = i
  BY <1>1, Positions
<1>3. F = [k \in 1..N |-> q[Nth(I, k)]]
  BY DEF Filter
<1> HIDE DEF F, N
<1>4. F \in [1..N -> S]
  BY <1>1, <1>2, <1>3
<1>5. F \in Seq(S)
  BY <1>2, <1>4, SeqDef
<1>6. Range(F) = {q[i] : i \in I}
  BY <1>2, <1>3 DEF Range
<1>7. \A k, l \in DOMAIN F : k < l => \E i, j \in I : i < j /\ F[k] = q[i] /\ F[l] = q[j]
  BY <1>2, <1>3
<1> QED
  BY <1>5, <1>6, <1>7 DEF F

-----------------------------------------------------------------------------
(* Parts of a queue.                                                       *)

Distinct(s) == \A i, j \in DOMAIN s : s[i] = s[j] => i = j

\* u has some elements of s, in the order of s.
Subsequence(u, s) ==
  /\ \A k \in DOMAIN u : u[k] \in Range(s)
  /\ \A k, l \in DOMAIN u : k < l => \E i, j \in DOMAIN s : i < j /\ u[k] = s[i] /\ u[l] = s[j]

\* A part of a queue has some of its elements, once each if the queue has.
LEMMA PartOfQueue ==
  ASSUME NEW S, NEW u \in Seq(S), NEW s \in Seq(S), Subsequence(u, s)
  PROVE  Range(u) \subseteq Range(s) /\ (Distinct(s) => Distinct(u))
<1>1. Range(u) \subseteq Range(s)
  BY DEF Subsequence, Range
<1>2. ASSUME Distinct(s), NEW k \in DOMAIN u, NEW l \in DOMAIN u, u[k] = u[l], k # l PROVE FALSE
  <2>1. \A a, b \in DOMAIN u : a < b => u[a] # u[b]
    <3> SUFFICES ASSUME NEW a \in DOMAIN u, NEW b \in DOMAIN u, a < b, u[a] = u[b] PROVE FALSE
      OBVIOUS
    <3>1. PICK i, j \in DOMAIN s : i < j /\ u[a] = s[i] /\ u[b] = s[j]
      BY DEF Subsequence
    <3>2. i \in 1..Len(s) /\ Len(s) \in Nat
      BY Indices
    <3>3. s[i] = s[j]
      BY <3>1
    <3>4. i = j
      BY <1>2, <3>3 DEF Distinct
    <3> QED
      BY <3>1, <3>2, <3>4
  <2>2. k < l \/ l < k
    BY <1>2, Indices
  <2> QED
    BY <1>2, <2>1, <2>2
<1> QED
  BY <1>1, <1>2 DEF Distinct

\* What is left of a queue whose head was taken.
LEMMA TailIsPart ==
  ASSUME NEW S, NEW s \in Seq(S), s # <<>>
  PROVE  /\ Subsequence(Tail(s), s)
         /\ Distinct(s) => Head(s) \notin Range(Tail(s))
<1>1. /\ DOMAIN s = 1..Len(s) /\ DOMAIN Tail(s) = 1..(Len(s) - 1) /\ Len(s) \in Nat \ {0}
      /\ Head(s) = s[1] /\ \A i \in 1..(Len(s) - 1) : Tail(s)[i] = s[i + 1]
  BY Shifted
<1>2. \A i \in 1..(Len(s) - 1) : i + 1 \in 1..Len(s) /\ i + 1 # 1
  BY <1>1
<1>3. \A i, j \in 1..(Len(s) - 1) : i < j => i + 1 < j + 1
  BY <1>1
<1>4. 1 \in 1..Len(s)
  BY <1>1
<1>5. \A k \in DOMAIN Tail(s) : Tail(s)[k] \in Range(s)
  BY <1>1, <1>2 DEF Range
<1>6. Subsequence(Tail(s), s)
  BY <1>1, <1>2, <1>3, <1>5 DEF Subsequence
<1>7. Distinct(s) => Head(s) \notin Range(Tail(s))
  BY <1>1, <1>2, <1>4 DEF Distinct, Range
<1> QED
  BY <1>6, <1>7

\* What is left of a queue from which one element was taken.
LEMMA RestIsPart ==
  ASSUME NEW S, NEW s \in Seq(S), NEW k \in 1..Len(s)
  PROVE  /\ RemoveAt(s, k) \in Seq(S) /\ Subsequence(RemoveAt(s, k), s)
         /\ Distinct(s) => s[k] \notin Range(RemoveAt(s, k))
<1> DEFINE u == RemoveAt(s, k)
<1>1. /\ u \in Seq(S) /\ Len(u) = Len(s) - 1
      /\ \A i \in 1..(k - 1) : u[i] = s[i]
      /\ \A i \in k..(Len(s) - 1) : u[i] = s[i + 1]
  BY RemovedAt
<1> HIDE DEF u
<1>2. DOMAIN s = 1..Len(s) /\ Len(s) \in Nat /\ DOMAIN u = 1..(Len(s) - 1) /\ k \in DOMAIN s
  BY <1>1, Indices
<1> DEFINE at(i) == IF i < k THEN i ELSE i + 1
<1>3. \A i \in DOMAIN u : at(i) \in DOMAIN s /\ u[i] = s[at(i)] /\ at(i) # k
  <2> SUFFICES ASSUME NEW i \in DOMAIN u PROVE at(i) \in DOMAIN s /\ u[i] = s[at(i)] /\ at(i) # k
    OBVIOUS
  <2>1. CASE i < k
    <3>1. i \in 1..(k - 1) /\ i \in 1..Len(s) /\ i # k
      BY <1>2, <2>1
    <3> QED
      BY <1>1, <1>2, <2>1, <3>1
  <2>2. CASE ~(i < k)
    <3>1. i \in k..(Len(s) - 1) /\ i + 1 \in 1..Len(s) /\ i + 1 # k
      BY <1>2, <2>2
    <3> QED
      BY <1>1, <1>2, <2>2, <3>1
  <2> QED
    BY <2>1, <2>2
<1>4. \A i, j \in DOMAIN u : i < j => at(i) < at(j)
  BY <1>2
<1> HIDE DEF at
<1>5. \A i \in DOMAIN u : u[i] \in Range(s)
  BY <1>3 DEF Range
<1>6. Subsequence(u, s)
  BY <1>3, <1>4, <1>5 DEF Subsequence
<1>7. Distinct(s) => s[k] \notin Range(u)
  BY <1>2, <1>3 DEF Distinct, Range
<1> QED
  BY <1>1, <1>6, <1>7 DEF u

\* The two parts of a queue that is cut after its k-th element.
LEMMA CutQueue ==
  ASSUME NEW S, NEW s \in Seq(S), NEW k \in 0..Len(s)
  PROVE  LET u == SubSeq(s, 1, k)
             w == SubSeq(s, k + 1, Len(s))
         IN /\ u \in Seq(S) /\ Subsequence(u, s) /\ w \in Seq(S) /\ Subsequence(w, s)
            /\ \A i \in DOMAIN u, j \in DOMAIN w : \E a, b \in DOMAIN s : a < b /\ u[i] = s[a] /\ w[j] = s[b]
<1> DEFINE u == SubSeq(s, 1, k)
           w == SubSeq(s, k + 1, Len(s))
<1>0. DOMAIN s = 1..Len(s) /\ Len(s) \in Nat /\ k \in Nat
  BY Indices
<1>1. /\ u \in Seq(S) /\ Len(u) = k /\ \A i \in 1..k : u[i] = s[i]
  <2>1. 1 \in 1..(Len(s) + 1) /\ k \in 0..Len(s) /\ 1 <= k + 1
    BY <1>0
  <2>2. u \in Seq(S) /\ Len(u) = k - 1 + 1 /\ \A i \in 1..(k - 1 + 1) : u[i] = s[1 + i - 1]
    BY <2>1, Part
  <2>3. k - 1 + 1 = k /\ \A i \in 1..k : 1 + i - 1 = i
    BY <1>0
  <2> HIDE DEF u
  <2> QED
    BY <2>2, <2>3
<1>2. /\ w \in Seq(S) /\ Len(w) = Len(s) - k /\ \A i \in 1..(Len(s) - k) : w[i] = s[k + i]
  <2>1. k + 1 \in 1..(Len(s) + 1) /\ Len(s) \in 0..Len(s) /\ k + 1 <= Len(s) + 1
    BY <1>0
  <2>2. w \in Seq(S) /\ Len(w) = Len(s) - (k + 1) + 1 /\ \A i \in 1..(Len(s) - (k + 1) + 1) : w[i] = s[(k + 1) + i - 1]
    BY <2>1, Part
  <2>3. Len(s) - (k + 1) + 1 = Len(s) - k /\ \A i \in 1..(Len(s) - k) : (k + 1) + i - 1 = k + i
    BY <1>0
  <2> HIDE DEF w
  <2> QED
    BY <2>2, <2>3
<1> HIDE DEF u, w
<1>3. DOMAIN u = 1..k /\ DOMAIN w = 1..(Len(s) - k)
  BY <1>1, <1>2, Indices
<1>4. \A i \in 1..k : i \in DOMAIN s
  BY <1>0
<1>5. \A i \in 1..(Len(s) - k) : k + i \in DOMAIN s
  BY <1>0
<1>6. /\ \A i, j \in 1..(Len(s) - k) : i < j => k + i < k + j
      /\ \A i \in 1..k, j \in 1..(Len(s) - k) : i < k + j
  BY <1>0
<1>7. (\A i \in DOMAIN u : u[i] \in Range(s)) /\ (\A i \in DOMAIN w : w[i] \in Range(s))
  BY <1>1, <1>2, <1>3, <1>4, <1>5 DEF Range
<1>8. Subsequence(u, s)
  BY <1>1, <1>3, <1>4, <1>7 DEF Subsequence
<1>9. Subsequence(w, s)
  BY <1>2, <1>3, <1>5, <1>6, <1>7 DEF Subsequence
<1>10. \A i \in DOMAIN u, j \in DOMAIN w : \E a, b \in DOMAIN s : a < b /\ u[i] = s[a] /\ w[j] = s[b]
  <2> SUFFICES ASSUME NEW i \in 1..k, NEW j \in 1..(Len(s) - k)
               PROVE  \E a, b \in DOMAIN s : a < b /\ u[i] = s[a] /\ w[j] = s[b]
    BY <1>3
  <2>1. i \in DOMAIN s /\ k + j \in DOMAIN s /\ i < k + j
    BY <1>4, <1>5, <1>6
  <2> QED
    BY <1>1, <1>2, <2>1
<1> QED
  BY <1>1, <1>2, <1>8, <1>9, <1>10 DEF u, w

\* Nothing is lost by the cut, nor by taking one element.
LEMMA CutCovers ==
  ASSUME NEW S, NEW s \in Seq(S), NEW k \in 0..Len(s)
  PROVE  Range(s) \subseteq Range(SubSeq(s, 1, k)) \cup Range(SubSeq(s, k + 1, Len(s)))
<1> DEFINE u == SubSeq(s, 1, k)
           w == SubSeq(s, k + 1, Len(s))
<1>0. DOMAIN s = 1..Len(s) /\ Len(s) \in Nat /\ k \in Nat
  BY Indices
<1>1. /\ u \in Seq(S) /\ Len(u) = k /\ \A i \in 1..k : u[i] = s[i]
  <2>1. 1 \in 1..(Len(s) + 1) /\ k \in 0..Len(s) /\ 1 <= k + 1
    BY <1>0
  <2>2. u \in Seq(S) /\ Len(u) = k - 1 + 1 /\ \A i \in 1..(k - 1 + 1) : u[i] = s[1 + i - 1]
    BY <2>1, Part
  <2>3. k - 1 + 1 = k /\ \A i \in 1..k : 1 + i - 1 = i
    BY <1>0
  <2> HIDE DEF u
  <2> QED
    BY <2>2, <2>3
<1>2. /\ w \in Seq(S) /\ Len(w) = Len(s) - k /\ \A i \in 1..(Len(s) - k) : w[i] = s[k + i]
  <2>1. k + 1 \in 1..(Len(s) + 1) /\ Len(s) \in 0..Len(s) /\ k + 1 <= Len(s) + 1
    BY <1>0
  <2>2. w \in Seq(S) /\ Len(w) = Len(s) - (k + 1) + 1 /\ \A i \in 1..(Len(s) - (k + 1) + 1) : w[i] = s[(k + 1) + i - 1]
    BY <2>1, Part
  <2>3. Len(s) - (k + 1) + 1 = Len(s) - k /\ \A i \in 1..(Len(s) - k) : (k + 1) + i - 1 = k + i
    BY <1>0
  <2> HIDE DEF w
  <2> QED
    BY <2>2, <2>3
<1> HIDE DEF u, w
<1>3. DOMAIN u = 1..k /\ DOMAIN w = 1..(Len(s) - k)
  BY <1>1, <1>2, Indices
<1>4. ASSUME NEW i \in DOMAIN s PROVE s[i] \in Range(u) \cup Range(w)
  <2>1. CASE i <= k
    <3>1. i \in DOMAIN u /\ u[i] = s[i]
      BY <1>0, <1>1, <1>3, <2>1
    <3> QED
      BY <3>1 DEF Range
  <2>2. CASE ~(i <= k)
    <3>1. i - k \in 1..(Len(s) - k) /\ k + (i - k) = i
      BY <1>0, <2>2
    <3>2. w[i - k] = s[i]
      BY <1>2, <3>1
    <3> QED
      BY <1>3, <3>1, <3>2 DEF Range
  <2> QED
    BY <2>1, <2>2
<1> QED
  BY <1>4 DEF Range, u, w

LEMMA RestCovers ==
  ASSUME NEW S, NEW s \in Seq(S), NEW k \in 1..Len(s)
  PROVE  Range(s) \subseteq {s[k]} \cup Range(RemoveAt(s, k))
<1> DEFINE u == RemoveAt(s, k)
<1>1. /\ u \in Seq(S) /\ Len(u) = Len(s) - 1
      /\ \A i \in 1..(k - 1) : u[i] = s[i]
      /\ \A i \in k..(Len(s) - 1) : u[i] = s[i + 1]
  BY RemovedAt
<1> HIDE DEF u
<1>2. DOMAIN s = 1..Len(s) /\ Len(s) \in Nat /\ DOMAIN u = 1..(Len(s) - 1)
  BY <1>1, Indices
<1>3. ASSUME NEW i \in DOMAIN s, i # k PROVE s[i] \in Range(u)
  <2>1. CASE i < k
    <3>1. i \in 1..(k - 1) /\ i \in 1..(Len(s) - 1)
      BY <1>2, <2>1
    <3>2. u[i] = s[i]
      BY <1>1, <3>1
    <3> QED
      BY <1>2, <3>1, <3>2 DEF Range
  <2>2. CASE ~(i < k)
    <3>1. i - 1 \in k..(Len(s) - 1) /\ i - 1 \in 1..(Len(s) - 1) /\ (i - 1) + 1 = i
      BY <1>2, <1>3, <2>2
    <3>2. u[i - 1] = s[i]
      BY <1>1, <3>1
    <3> QED
      BY <1>2, <3>1, <3>2 DEF Range
  <2> QED
    BY <2>1, <2>2
<1> QED
  BY <1>3 DEF Range, u

\* A filtered queue is a part of the queue.
LEMMA FilterIsPart ==
  ASSUME NEW S, NEW q \in Seq(S), NEW I \in SUBSET DOMAIN q
  PROVE  Filter(q, I) \in Seq(S) /\ Subsequence(Filter(q, I), q) /\ Range(Filter(q, I)) = {q[i] : i \in I}
<1> DEFINE F == Filter(q, I)
<1>1. /\ F \in Seq(S) /\ Range(F) = {q[i] : i \in I}
      /\ \A k, l \in DOMAIN F : k < l => \E i, j \in I : i < j /\ F[k] = q[i] /\ F[l] = q[j]
  BY Filtered
<1> HIDE DEF F
<1>2. \A k \in DOMAIN F : F[k] \in Range(F)
  BY DEF Range
<1>3. {q[i] : i \in I} \subseteq Range(q)
  BY DEF Range
<1>4. Subsequence(F, q)
  BY <1>1, <1>2, <1>3 DEF Subsequence
<1> QED
  BY <1>1, <1>4 DEF F

\* One queue behind another.
LEMMA Joined ==
  ASSUME NEW S, NEW a \in Seq(S), NEW b \in Seq(S)
  PROVE  /\ a \o b \in Seq(S) /\ Range(a \o b) = Range(a) \cup Range(b)
         /\ DOMAIN (a \o b) = 1..(Len(a) + Len(b)) /\ Len(a) \in Nat /\ Len(b) \in Nat
         /\ DOMAIN a = 1..Len(a) /\ DOMAIN b = 1..Len(b)
         /\ \A i \in DOMAIN (a \o b) : \/ i \in DOMAIN a /\ (a \o b)[i] = a[i]
                                       \/ i - Len(a) \in DOMAIN b /\ i > Len(a) /\ (a \o b)[i] = b[i - Len(a)]
         /\ Distinct(a) /\ Distinct(b) /\ Range(a) \cap Range(b) = {} => Distinct(a \o b)
<1> DEFINE u == a \o b
<1>1. /\ u \in Seq(S) /\ Len(u) = Len(a) + Len(b)
      /\ \A i \in 1..(Len(a) + Len(b)) : u[i] = IF i <= Len(a) THEN a[i] ELSE b[i - Len(a)]
  BY ConcatProperties
<1>2. /\ DOMAIN a = 1..Len(a) /\ Len(a) \in Nat /\ DOMAIN b = 1..Len(b) /\ Len(b) \in Nat
      /\ DOMAIN u = 1..(Len(a) + Len(b))
  BY <1>1, Indices
<1> HIDE DEF u
<1>3. ASSUME NEW i \in DOMAIN u
      PROVE  \/ i \in DOMAIN a /\ u[i] = a[i]
             \/ i - Len(a) \in DOMAIN b /\ i > Len(a) /\ u[i] = b[i - Len(a)]
  <2>1. CASE i <= Len(a)
    BY <1>1, <1>2, <2>1
  <2>2. CASE ~(i <= Len(a))
    <3>1. i - Len(a) \in 1..Len(b) /\ i > Len(a)
      BY <1>2, <2>2
    <3> QED
      BY <1>1, <1>2, <2>2, <3>1
  <2> QED
    BY <2>1, <2>2
<1>4. \A i \in DOMAIN a : i \in DOMAIN u /\ u[i] = a[i]
  BY <1>1, <1>2
<1>5. \A i \in DOMAIN b : i + Len(a) \in DOMAIN u /\ u[i + Len(a)] = b[i]
  <2> SUFFICES ASSUME NEW i \in 1..Len(b) PROVE i + Len(a) \in DOMAIN u /\ u[i + Len(a)] = b[i]
    BY <1>2
  <2>1. i + Len(a) \in 1..(Len(a) + Len(b)) /\ ~(i + Len(a) <= Len(a)) /\ (i + Len(a)) - Len(a) = i
    BY <1>2
  <2> QED
    BY <1>1, <1>2, <2>1
<1>6. Range(u) = Range(a) \cup Range(b)
  <2>1. Range(u) \subseteq Range(a) \cup Range(b)
    BY <1>3 DEF Range
  <2>2. Range(a) \subseteq Range(u) /\ Range(b) \subseteq Range(u)
    BY <1>4, <1>5 DEF Range
  <2> QED
    BY <2>1, <2>2
<1>7. ASSUME Distinct(a), Distinct(b), Range(a) \cap Range(b) = {} PROVE Distinct(u)
  <2> SUFFICES ASSUME NEW i \in DOMAIN u, NEW j \in DOMAIN u, u[i] = u[j] PROVE i = j
    BY DEF Distinct
  <2>0. i \in Nat /\ j \in Nat
    BY <1>2
  <2>1. CASE i \in DOMAIN a /\ u[i] = a[i] /\ j \in DOMAIN a /\ u[j] = a[j]
    BY <1>7, <2>1 DEF Distinct
  <2>2. CASE i - Len(a) \in DOMAIN b /\ u[i] = b[i - Len(a)] /\ j - Len(a) \in DOMAIN b /\ u[j] = b[j - Len(a)]
    <3>1. b[i - Len(a)] = b[j - Len(a)]
      BY <2>2
    <3>2. i - Len(a) = j - Len(a)
      BY <1>7, <2>2, <3>1 DEF Distinct
    <3> QED
      BY <1>2, <2>0, <3>2
  <2>3. CASE \/ u[i] \in Range(a) /\ u[j] \in Range(b)
             \/ u[i] \in Range(b) /\ u[j] \in Range(a)
    BY <1>7, <2>3
  <2>4. (\A k \in DOMAIN a : a[k] \in Range(a)) /\ (\A k \in DOMAIN b : b[k] \in Range(b))
    BY DEF Range
  <2> QED
    BY <1>3, <2>1, <2>2, <2>3, <2>4
<1> QED
  BY <1>1, <1>2, <1>3, <1>6, <1>7 DEF u

\* A list of one.
LEMMA OneElement ==
  ASSUME NEW S, NEW x \in S
  PROVE  <<x>> \in Seq(S) /\ Range(<<x>>) = {x} /\ Distinct(<<x>>) /\ DOMAIN <<x>> = {1} /\ <<x>>[1] = x
<1>1. <<x>> \in Seq(S) /\ DOMAIN <<x>> = {1} /\ <<x>>[1] = x
  OBVIOUS
<1> QED
  BY <1>1, RangeOfFew DEF Distinct

\* An empty list.
LEMMA NoElement == Distinct(<<>>) /\ Range(<<>>) = {}
BY EmptyIsSequence DEF Distinct

\* A queue without repetitions with a new element at its end.
LEMMA OneMore ==
  ASSUME NEW S, NEW s \in Seq(S), NEW x \in S
  PROVE  /\ Append(s, x) \in Seq(S) /\ Range(Append(s, x)) = Range(s) \cup {x}
         /\ Distinct(s) /\ x \notin Range(s) => Distinct(Append(s, x))
<1>1. /\ DOMAIN s = 1..Len(s) /\ Len(s) \in Nat
      /\ DOMAIN Append(s, x) = 1..(Len(s) + 1) /\ Append(s, x) \in Seq(S)
      /\ (\A i \in 1..Len(s) : Append(s, x)[i] = s[i]) /\ Append(s, x)[Len(s) + 1] = x
  BY Appended
<1>2. Range(Append(s, x)) = Range(s) \cup {x}
  BY RangeOfAppend
<1>3. \A i \in 1..(Len(s) + 1) : i \in 1..Len(s) \/ i = Len(s) + 1
  BY <1>1
<1>4. \A i \in 1..Len(s) : s[i] \in Range(s)
  BY <1>1 DEF Range
<1>5. Distinct(s) /\ x \notin Range(s) => Distinct(Append(s, x))
  BY <1>1, <1>3, <1>4 DEF Distinct
<1> QED
  BY <1>1, <1>2, <1>5

\* Two names for the elements of a sequence.
LEMMA SetOfQueue == ASSUME NEW s PROVE ToSet(s) = Range(s)
BY DEF ToSet, Range

\* The greatest of some positions is one of them.
LEMMA GreatestIndex ==
  ASSUME NEW n \in Nat, NEW I \in SUBSET (1..n), I # {}
  PROVE  Max(I) \in I
<1> DEFINE J == {j \in 1..n : n + 1 - j \in I}
<1>1. \A i \in I : n + 1 - i \in J
  <2>1. \A i \in 1..n : n + 1 - i \in 1..n /\ n + 1 - (n + 1 - i) = i
    OBVIOUS
  <2> QED
    BY <2>1
<1>2. Min(J) \in J /\ \A y \in J : Min(J) <= y
  BY <1>1, LeastIndex
<1>3. \A i \in I : n + 1 - Min(J) >= i
  <2> SUFFICES ASSUME NEW i \in I PROVE n + 1 - Min(J) >= i
    OBVIOUS
  <2>1. Min(J) <= n + 1 - i /\ Min(J) \in 1..n
    BY <1>1, <1>2
  <2> QED
    BY <2>1
<1>4. n + 1 - Min(J) \in I
  BY <1>2
<1>5. \E x \in I : \A y \in I : x >= y
  BY <1>3, <1>4
<1> QED
  BY <1>5 DEF Max

-----------------------------------------------------------------------------
(* What the helpers return.                                                *)

\* What is kept when the deliveries of cancelled tasks are discarded.
LEMMA KeepIsPart ==
  ASSUME NEW S, NEW q \in Seq(S), NEW tasks
  PROVE  /\ Keep(q, tasks) \in Seq(S) /\ Subsequence(Keep(q, tasks), q)
         /\ Range(Keep(q, tasks)) = {c \in Range(q) : c.did = NoTask \/ c.task \notin tasks}
         /\ Discarded(q, tasks) \subseteq Range(q)
<1> DEFINE I == {i \in DOMAIN q : q[i].did = NoTask \/ q[i].task \notin tasks}
<1>1. Keep(q, tasks) = Filter(q, I)
  BY DEF Keep
<1>2. I \in SUBSET DOMAIN q
  OBVIOUS
<1>3. {q[i] : i \in I} = {c \in Range(q) : c.did = NoTask \/ c.task \notin tasks}
  BY DEF Range
<1> HIDE DEF I
<1>4. Discarded(q, tasks) \subseteq Range(q)
  BY SetOfQueue DEF Discarded
<1> QED
  BY <1>1, <1>2, <1>3, <1>4, FilterIsPart

\* What routeDeliverToChildren leaves for the parent, in its order.
LEMMA RemainderIsPart ==
  ASSUME NEW S, NEW ds \in Seq(S)
  PROVE  /\ Remainder(ds) \in Seq(S) /\ Subsequence(Remainder(ds), ds)
         /\ Range(Remainder(ds)) = {c \in Range(ds) : ~c.prompt /\ c \notin ToChild(ds)}
         /\ ToChild(ds) \subseteq Range(ds)
<1> DEFINE I == {i \in Ordinary(ds) : ds[i] \notin ToChild(ds)}
<1>1. Remainder(ds) = Filter(ds, I)
  BY DEF Remainder
<1>2. I \in SUBSET DOMAIN ds
  BY DEF Ordinary
<1>3. {ds[i] : i \in I} = {c \in Range(ds) : ~c.prompt /\ c \notin ToChild(ds)}
  BY DEF Ordinary, Range
<1> HIDE DEF I
<1>4. ToChild(ds) \subseteq Range(ds)
  BY SetOfQueue DEF ToChild
<1> QED
  BY <1>1, <1>2, <1>3, <1>4, FilterIsPart

\* takeInputResponseDelivery finds a delivery without a message.
LEMMA ResponseFound ==
  ASSUME NEW S, buffered \in Seq(S), FirstResponse # 0
  PROVE  FirstResponse \in 1..Len(buffered) /\ ~buffered[FirstResponse].msg
<1> DEFINE I == {i \in 1..Len(buffered) : ~buffered[i].msg}
<1>1. FirstResponse = IF I # {} THEN Min(I) ELSE 0
  BY DEF FirstResponse, SelectInSeq
<1>2. I # {} /\ FirstResponse = Min(I)
  BY <1>1
<1>3. Len(buffered) \in Nat /\ I \in SUBSET (1..Len(buffered))
  BY Indices
<1>4. Min(I) \in I
  BY <1>2, <1>3, LeastIndex
<1> QED
  BY <1>2, <1>4

\* takeBufferedTurnDelivery takes at least the head.
LEMMA MergeTakes ==
  ASSUME NEW S, NEW q \in Seq(S), q # <<>>
  PROVE  MergeLen(q) \in 1..Len(q)
<1> DEFINE I == {k \in 1..Len(q) : \A j \in 1..k : Mergeable(q, j)}
<1>1. Len(q) \in Nat \ {0}
  BY Shifted
<1>2. Mergeable(q, 1)
  BY DEF Mergeable
<1>3. 1 \in I
  <2>1. \A j \in 1..1 : j = 1
    OBVIOUS
  <2> QED
    BY <1>1, <1>2, <2>1
<1>4. Max(I) \in I
  BY <1>1, <1>3, GreatestIndex
<1>5. MergeLen(q) = Max(I)
  BY DEF MergeLen
<1> QED
  BY <1>4, <1>5

\* Deliveries are commands.
LEMMA DeliveriesAreCommands ==
  /\ Deliveries \subseteq Commands
  /\ \A c \in Commands : IsDelivery(c) => c \in Deliveries
BY DEF Deliveries

-----------------------------------------------------------------------------
(* Types.                                                                  *)

\* What the hooks carry, beyond TypeOK.
Contents ==
  /\ \A m \in Range(control) : m.id \in Nat /\ m.kind \in ControlKinds /\ m.rem \in Seq(Deliveries)
  /\ \A m \in Range(tInbox) : m.kind \in {"delivery", "ask", "result"}
  /\ \A m \in Range(tInbox) : m.kind = "delivery" => m.what \in Deliveries
Queues ==
  /\ sent \in Seq(Commands) /\ inbox \in Seq(Commands)
  /\ buffered \in Seq(Deliveries) /\ outstanding \in Seq(Deliveries) /\ Len(outstanding) <= 1
  /\ routing \in Seq(Deliveries) /\ tBuffered \in Seq(Deliveries)
  /\ started \in Seq(Deliveries) /\ dropped \subseteq Deliveries
  /\ uses \in [Deliveries -> Nat]
Scalars ==
  /\ fwd \in Payload /\ turn \in Nat /\ request \in Nat
  /\ controls \in Seq({"clear", "expired", "reset"})
  /\ prompts \subseteq Prompts /\ shown \subseteq Prompts
  /\ cancelLive \in BOOLEAN /\ cancelQ \in Seq(Payload)
  /\ aborted \in Payload /\ initial \in Payload
  /\ calls \subseteq Calls /\ asking \subseteq Calls
  /\ waits \in 0..MaxWaits /\ asks \in 0..MaxAsks
  /\ gaveUp \in BOOLEAN
TInv == Phases /\ Contents /\ Queues /\ Scalars

\* A use of some deliveries is counted.
LEMMA UseCounted ==
  ASSUME NEW cs, uses \in [Deliveries -> Nat], Use(cs)
  PROVE  uses' \in [Deliveries -> Nat]
BY DEF Use

\* A place for one delivery holds at most one.
LEMMA ShortSequences ==
  ASSUME NEW s
  PROVE  (s = <<>> => Len(s) <= 1) /\ \A x : s = <<x>> => Len(s) <= 1
<1>1. s = <<>> => Len(s) <= 1
  <2>1. Len(<<>>) <= 1
    OBVIOUS
  <2> QED
    BY <2>1, Zenon
<1>2. ASSUME NEW x, s = <<x>> PROVE Len(s) <= 1
  <2>1. Len(<<x>>) <= 1
    OBVIOUS
  <2> QED
    BY <1>2, <2>1, Zenon
<1> QED
  BY <1>1, <1>2

LEMMA DriverKeepsQueues ==
  ASSUME Contents, Queues, Phases, DriverNext
  PROVE  Queues'
<1> DEFINE c == Head(inbox)
<1>0. /\ inbox # <<>> => c \in Commands /\ Tail(inbox) \in Seq(Commands)
      /\ c \in Commands /\ IsDelivery(c) => c \in Deliveries /\ <<c>> \in Seq(Deliveries)
                                            /\ Append(buffered, c) \in Seq(Deliveries)
      /\ <<>> \in Seq(Deliveries)
  BY QueueClosed, DeliveriesAreCommands, OneElement DEF Queues
<1>01. /\ \A q \in Seq(Deliveries) : \A tasks : Keep(q, tasks) \in Seq(Deliveries) /\ Discarded(q, tasks) \subseteq Deliveries
       /\ \A q, r \in Seq(Deliveries) : q \o r \in Seq(Deliveries)
  BY KeepIsPart, RangeOfQueue, Joined
<1> HIDE DEF c
<1> USE DEF Queues
<1>1. CASE ReceiverReadsCommand
  <2>1. /\ inbox # <<>> /\ inbox' = Tail(inbox)
        /\ UNCHANGED <<sent, outstanding, routing, tBuffered, started, uses>>
    BY <1>1 DEF ReceiverReadsCommand, turnVars
  <2>2. buffered' \in Seq(Deliveries) /\ dropped' \subseteq Deliveries
    BY <1>0, <1>01, <1>1, <2>1 DEF ReceiverReadsCommand, HandleDelivery, HandleControl, HandleCancel, DiscardTask,
                                   BufferDelivery, c
  <2> QED
    BY <1>0, <2>1, <2>2
<1>2. CASE InlineReadsCommand
  <2>1. /\ inbox # <<>> /\ inbox' = Tail(inbox)
        /\ UNCHANGED <<sent, outstanding, routing, tBuffered, started, uses>>
    BY <1>2 DEF InlineReadsCommand
  <2>2. buffered' \in Seq(Deliveries) /\ dropped' \subseteq Deliveries
    BY <1>0, <1>01, <1>2, <2>1 DEF InlineReadsCommand, DiscardTask, BufferDelivery, c
  <2> QED
    BY <1>0, <2>1, <2>2
<1>3. CASE ParkedReadsCommand
  <2>1. /\ inbox # <<>> /\ inbox' = Tail(inbox)
        /\ UNCHANGED <<sent, outstanding, tBuffered, started, uses>>
    BY <1>3 DEF ParkedReadsCommand, turnVars
  <2>2. buffered' \in Seq(Deliveries) /\ dropped' \subseteq Deliveries /\ routing' \in Seq(Deliveries)
    BY <1>0, <1>01, <1>3, <2>1 DEF ParkedReadsCommand, DiscardTask, c
  <2> QED
    BY <1>0, <2>1, <2>2
<1>4. CASE ServiceTakesResponse
  <2>1. /\ inbox # <<>> /\ inbox' = Tail(inbox) /\ outstanding' = <<c>> /\ IsDelivery(c)
        /\ UNCHANGED <<sent, buffered, routing, tBuffered, started, dropped, uses>>
    BY <1>4 DEF ServiceTakesResponse, TakesForRequest, histVars, c
  <2> QED
    BY <1>0, <2>1
<1>5. CASE AwaitReadsControl \/ ServiceReadsControl \/ ForwardedReadsControl
  <2>1. UNCHANGED <<sent, inbox, routing, tBuffered, started, uses>>
    BY <1>5 DEF AwaitReadsControl, ServiceReadsControl, ForwardedReadsControl
  <2>2. Head(control).rem \in Seq(Deliveries)
    <3>1. control # <<>>
      BY <1>5 DEF AwaitReadsControl, ServiceReadsControl, ForwardedReadsControl
    <3>2. Head(control) \in Range(control)
      BY <3>1, HeadRead DEF Phases
    <3> QED
      BY <3>2 DEF Contents
  <2>3. FirstResponse # 0 => /\ <<buffered[FirstResponse]>> \in Seq(Deliveries)
                             /\ RemoveAt(buffered, FirstResponse) \in Seq(Deliveries)
    BY ResponseFound, RestIsPart, OneElement
  <2> DEFINE kept == Keep(Head(control).rem, cancelled)
             gone == Discarded(Head(control).rem, cancelled)
             back1 == Keep(outstanding, cancelled)
             lost == Discarded(outstanding, cancelled)
  <2>5. kept \in Seq(Deliveries) /\ back1 \in Seq(Deliveries) /\ gone \subseteq Deliveries /\ lost \subseteq Deliveries
    BY <1>01, <2>2
  <2>6. /\ kept \o buffered \in Seq(Deliveries) /\ back1 \o buffered \in Seq(Deliveries)
        /\ kept \o back1 \o buffered \in Seq(Deliveries)
    BY <1>01, <2>5
  <2>4. buffered' \in Seq(Deliveries) /\ dropped' \subseteq Deliveries /\ outstanding' \in Seq(Deliveries) /\ Len(outstanding') <= 1
    <3>1. CASE AwaitReadsControl
      <4>1. \/ /\ buffered' = RemoveAt(buffered, FirstResponse) /\ FirstResponse # 0
               /\ outstanding' = <<buffered[FirstResponse]>> /\ dropped' = dropped
            \/ buffered' = kept \o buffered /\ outstanding' = <<>>
               /\ dropped' = dropped \cup gone
            \/ UNCHANGED <<buffered, outstanding, dropped>>
        BY <3>1 DEF AwaitReadsControl, DriverTakes
      <4> HIDE DEF kept, gone, back1, lost
      <4>3. buffered' \in Seq(Deliveries) /\ dropped' \subseteq Deliveries
        BY <2>3, <2>5, <2>6, <4>1
      <4>4. outstanding' \in Seq(Deliveries) /\ Len(outstanding') <= 1
        BY <1>0, <2>3, <4>1, ShortSequences
      <4> QED
        BY <4>3, <4>4
    <3>2. CASE ServiceReadsControl
      <4>1. \/ buffered' = kept \o buffered /\ outstanding' = <<>>
               /\ dropped' = dropped \cup gone
            \/ UNCHANGED <<buffered, outstanding, dropped>>
        BY <3>2 DEF ServiceReadsControl, DriverTakes
      <4> HIDE DEF kept, gone, back1, lost
      <4>3. buffered' \in Seq(Deliveries) /\ dropped' \subseteq Deliveries
        BY <2>3, <2>5, <2>6, <4>1
      <4>4. outstanding' \in Seq(Deliveries) /\ Len(outstanding') <= 1
        BY <1>0, <2>3, <4>1, ShortSequences
      <4> QED
        BY <4>3, <4>4
    <3>3. CASE ForwardedReadsControl
      <4>1. \/ UNCHANGED <<buffered, dropped>> /\ outstanding' \in {outstanding, <<>>}
            \/ buffered' = back1 \o buffered /\ outstanding' = <<>> /\ dropped' = dropped \cup lost
            \/ buffered' = kept \o back1 \o buffered /\ outstanding' = <<>>
               /\ dropped' = dropped \cup lost \cup gone
        BY <3>3 DEF ForwardedReadsControl, DriverTakes, Returned
      <4> HIDE DEF kept, gone, back1, lost
      <4>3. buffered' \in Seq(Deliveries) /\ dropped' \subseteq Deliveries
        BY <2>3, <2>5, <2>6, <4>1
      <4>4. outstanding' \in Seq(Deliveries) /\ Len(outstanding') <= 1
        BY <1>0, <2>3, <4>1, ShortSequences
      <4> QED
        BY <4>3, <4>4
    <3> QED
      BY <1>5, <3>1, <3>2, <3>3
  <2> QED
    BY <2>1, <2>4
<1>6. CASE \/ ForwardLands \/ ForwardGivesUp \/ InlineContinues \/ InlineToChild
           \/ \E action \in {"done", "park"} : InlineSettles(action)
  <2>1. UNCHANGED <<sent, inbox, buffered, routing, tBuffered, started, dropped, uses>> /\ outstanding' \in {outstanding, <<>>}
    BY <1>6 DEF ForwardLands, ForwardGivesUp, InlineContinues, InlineToChild, InlineSettles, DriverTakes, histVars, turnVars
  <2>2. outstanding' \in Seq(Deliveries) /\ Len(outstanding') <= 1
    BY <1>0, <2>1, ShortSequences
  <2> QED
    BY <2>1, <2>2
<1>7. CASE \E inline \in BOOLEAN : ParkedTakesControl(inline)
  <2>0. \A e : e = <<>> => started \o e = started
    BY ConcatEmptySeq
  <2>1. /\ UNCHANGED <<sent, inbox, buffered, outstanding, routing, dropped>>
        /\ tBuffered' \in {tBuffered, <<>>} /\ started' \in {started, started \o <<>>}
        /\ uses' = uses \/ Use({})
    BY <1>7 DEF ParkedTakesControl, StartTurn, turnVars
  <2>2. uses' \in [Deliveries -> Nat]
    BY <2>1, UseCounted
  <2> QED
    BY <1>0, <1>01, <2>1, <2>2
<1>8. CASE ParkedTakesBuffered
  <2>1. buffered # <<>> /\ UNCHANGED <<sent, inbox, outstanding, tBuffered, started, uses>>
    BY <1>8 DEF ParkedTakesBuffered, turnVars
  <2>2. Head(buffered) \in Deliveries /\ Tail(buffered) \in Seq(Deliveries) /\ MergeLen(buffered) \in 0..Len(buffered)
    BY <2>1, QueueClosed, MergeTakes
  <2>3. /\ SubSeq(buffered, 1, MergeLen(buffered)) \in Seq(Deliveries)
        /\ SubSeq(buffered, MergeLen(buffered) + 1, Len(buffered)) \in Seq(Deliveries)
    BY <2>2, CutQueue
  <2> QED
    BY <1>8, <2>1, <2>2, <2>3 DEF ParkedTakesBuffered
<1>9. CASE \E inline \in BOOLEAN : RoutedToTurn(inline)
  <2>1. Remainder(routing) \in Seq(Deliveries)
    BY RemainderIsPart
  <2>2. /\ UNCHANGED <<sent, inbox, buffered, outstanding, dropped>> /\ routing' = <<>> /\ tBuffered' = <<>>
        /\ started' = started \o Remainder(routing) /\ Use(ToSet(routing))
    BY <1>9 DEF RoutedToTurn, StartTurn
  <2> QED
    BY <1>0, <1>01, <2>1, <2>2, UseCounted
<1>10. CASE RoutedAway
  <2>1. /\ UNCHANGED <<sent, inbox, buffered, outstanding, dropped, tBuffered, started>> /\ routing' = <<>>
        /\ Use(ToChild(routing) \cup {x \in ToSet(routing) : x.prompt})
    BY <1>10 DEF RoutedAway, turnVars
  <2> QED
    BY <1>0, <2>1, UseCounted
<1> QED
  BY <1>1, <1>2, <1>3, <1>4, <1>5, <1>6, <1>7, <1>8, <1>9, <1>10 DEF DriverNext

LEMMA TurnKeepsQueues ==
  ASSUME Contents, Queues, Phases, TurnNext
  PROVE  Queues'
<1> USE DEF Queues
<1>1. UNCHANGED <<sent, inbox, buffered, outstanding, routing>>
  BY DEF TurnNext, TurnClaims, TurnReadsCancel, TurnSettles, TurnCancels, TurnDispatches, TurnFails, TurnRequests,
         TurnLeavesWait, TurnReadsChild, TurnIgnoresDelivery, TurnAccepts, TurnOnly, driverVars
<1>2. CASE TurnAccepts
  <2> DEFINE ds == <<Head(tInbox).what>>
  <2>1. ds \in Seq(Deliveries)
    <3>1. Head(tInbox) \in Range(tInbox) /\ Head(tInbox).kind = "delivery"
      BY <1>2, HeadRead DEF TurnAccepts, Accepted, Phases
    <3> QED
      BY <3>1, OneElement DEF Contents
  <2>2. Remainder(ds) \in Seq(Deliveries) /\ \A q, r \in Seq(Deliveries) : q \o r \in Seq(Deliveries)
    BY <2>1, RemainderIsPart, Joined
  <2>3. /\ UNCHANGED <<started, dropped>> /\ tBuffered' \in {tBuffered, tBuffered \o Remainder(ds)}
        /\ Use(ToChild(ds) \cup {x \in ToSet(ds) : x.prompt})
    BY <1>2 DEF TurnAccepts
  <2> HIDE DEF ds
  <2> QED
    BY <1>1, <2>2, <2>3, UseCounted
<1>3. CASE ~TurnAccepts
  <2>1. UNCHANGED <<tBuffered, started, dropped, uses>>
    BY <1>3 DEF TurnNext, TurnClaims, TurnReadsCancel, TurnSettles, TurnCancels, TurnDispatches, TurnFails, TurnRequests,
         TurnLeavesWait, TurnReadsChild, TurnIgnoresDelivery, histVars
  <2> QED
    BY <1>1, <2>1
<1> QED
  BY <1>2, <1>3

LEMMA QueuesInductive ==
  ASSUME Contents, Queues, Phases, [Next]_vars
  PROVE  Queues'
<1>1. CASE \E c \in Commands : SendCommand(c)
  <2>1. PICK c \in Commands : sent' = Append(sent, c) /\ inbox' = Append(inbox, c)
    BY <1>1 DEF SendCommand
  <2>2. UNCHANGED <<buffered, outstanding, routing, tBuffered, started, dropped, uses>>
    BY <1>1 DEF SendCommand, driverVars, turnVars, histVars
  <2> QED
    BY <2>1, <2>2, QueueClosed DEF Queues
<1>2. CASE UNCHANGED vars \/ \E c \in Calls : ChildAsks(c) \/ ChildSettles(c)
  <2>1. UNCHANGED <<sent, inbox, buffered, outstanding, routing, tBuffered, started, dropped, uses>>
    BY <1>2 DEF vars, ChildAsks, ChildSettles, TurnOnly, driverVars, turnVars, histVars
  <2> QED
    BY <2>1 DEF Queues
<1> QED
  BY <1>1, <1>2, DriverKeepsQueues, TurnKeepsQueues DEF Next

LEMMA ContentsInductive ==
  ASSUME Contents, Queues, Phases, [Next]_vars, pending' \in Nat
  PROVE  Contents'
<1> DEFINE Fit(m) == m.id \in Nat /\ m.kind \in ControlKinds /\ m.rem \in Seq(Deliveries)
           Held1(m) == m.kind \in {"delivery", "ask", "result"} /\ (m.kind = "delivery" => m.what \in Deliveries)
<1>0. /\ \A m \in Range(control) : Fit(m)
      /\ \A m \in Range(tInbox) : Held1(m)
      /\ IsSequence(control) /\ IsSequence(tInbox) /\ reqSeq \in Nat /\ pending \in Nat
  BY DEF Contents, Phases
<1>1. ASSUME \A m \in Range(control') : Fit(m), \A m \in Range(tInbox') : Held1(m) PROVE Contents'
  BY <1>1 DEF Contents
<1>2. (control' = <<>> => \A m \in Range(control') : Fit(m)) /\ (tInbox' = <<>> => \A m \in Range(tInbox') : Held1(m))
  BY EmptyIsSequence
<1>3. ASSUME control # <<>>, control' = Tail(control) PROVE \A m \in Range(control') : Fit(m)
  BY <1>0, <1>3, HeadRead
<1>4. ASSUME tInbox # <<>>, tInbox' = Tail(tInbox) PROVE \A m \in Range(tInbox') : Held1(m)
  BY <1>0, <1>4, HeadRead
<1>5. ASSUME NEW m, Fit(m), Send(m) PROVE \A x \in Range(control') : Fit(x)
  BY <1>0, <1>5, ControlSent
<1>6. ASSUME NEW k, NEW c \in Deliveries, Relay(k, c) PROVE \A m \in Range(tInbox') : Held1(m)
  BY <1>0, <1>6, Relayed
<1>7. /\ \A i \in Nat : Fit(Msg("request", i)) /\ Fit(Msg("accepted", i)) /\ Fit(Msg("cancelled", i)) /\ Fit(Msg("error", i))
      /\ \A a : Fit(Result(a))
  <2>1. <<>> \in Seq(Deliveries)
    OBVIOUS
  <2>2. \A i \in Nat, k \in ControlKinds : Fit(Msg(k, i))
    BY <2>1 DEF Msg
  <2>3. \A a : Fit(Result(a))
    BY DEF Result, Queues, ControlKinds
  <2> QED
    BY <2>2, <2>3 DEF ControlKinds
<1> HIDE DEF Fit, Held1
<1>8. CASE UNCHANGED <<control, tInbox>>
  BY <1>0, <1>1, <1>8
<1>9. CASE AwaitReadsControl \/ ServiceReadsControl \/ ForwardedReadsControl
  <2>1. control # <<>> /\ control' = Tail(control)
    BY <1>9 DEF AwaitReadsControl, ServiceReadsControl, ForwardedReadsControl
  <2>2. \/ tInbox' = tInbox
        \/ FirstResponse # 0 /\ Relay(Head(control).id, buffered[FirstResponse])
    BY <1>9 DEF AwaitReadsControl, ServiceReadsControl, ForwardedReadsControl
  <2>3. FirstResponse # 0 => buffered[FirstResponse] \in Deliveries
    BY ResponseFound, Indices DEF Queues
  <2> QED
    BY <1>0, <1>1, <1>3, <1>6, <2>1, <2>2, <2>3
<1>10. CASE ServiceTakesResponse
  <2>1. control' = control /\ Relay(request, Head(inbox)) /\ IsDelivery(Head(inbox)) /\ inbox # <<>>
    BY <1>10 DEF ServiceTakesResponse, TakesForRequest
  <2>2. Head(inbox) \in Deliveries
    BY <2>1, QueueClosed, DeliveriesAreCommands DEF Queues
  <2> QED
    BY <1>0, <1>1, <1>6, <2>1, <2>2
<1>11. CASE \E inline \in BOOLEAN : ParkedTakesControl(inline) \/ RoutedToTurn(inline)
  <2>1. (control' = <<>> /\ tInbox' = <<>>) \/ UNCHANGED <<control, tInbox>>
    BY <1>11 DEF ParkedTakesControl, RoutedToTurn, StartTurn, turnVars
  <2> QED
    BY <1>1, <1>2, <1>8, <2>1
<1>12. CASE TurnCancels \/ TurnFails \/ TurnRequests \/ TurnLeavesWait \/ \E action \in {"done", "park"} : TurnSettles(action)
  <2>1. tInbox' = tInbox
    BY <1>12 DEF TurnCancels, TurnFails, TurnRequests, TurnLeavesWait, TurnSettles
  <2>2. \/ control' = control
        \/ \E i \in Nat : Send(Msg("request", i)) \/ Send(Msg("cancelled", i)) \/ Send(Msg("error", i))
        \/ \E a : Send(Result(a))
    BY <1>0, <1>12 DEF TurnCancels, TurnFails, TurnRequests, TurnLeavesWait, TurnSettles, Finish
  <2> QED
    BY <1>0, <1>1, <1>5, <1>7, <2>1, <2>2
<1>13. CASE TurnReadsChild \/ TurnIgnoresDelivery
  <2>1. control' = control /\ tInbox # <<>> /\ tInbox' = Tail(tInbox)
    BY <1>13 DEF TurnReadsChild, TurnIgnoresDelivery
  <2> QED
    BY <1>0, <1>1, <1>4, <2>1
<1>14. CASE TurnAccepts
  <2> DEFINE ds == <<Head(tInbox).what>>
             m == Msg("accepted", pending)
             r == Result("cancelled")
  <2>1. tInbox # <<>> /\ tInbox' = Tail(tInbox)
    BY <1>14 DEF TurnAccepts
  <2>2. Fit(m) /\ Fit(r)
    BY <1>0, <1>7
  <2>3. CASE CancelsTurn(ds)
    <3>1. PICK first, second \in Resends : control' = control \o Copies(m, first) \o Copies(r, second)
      BY <1>14, <2>3 DEF TurnAccepts
    <3>2. first \in BOOLEAN /\ second \in BOOLEAN
      BY TurnConstants
    <3> HIDE DEF m, r
    <3> DEFINE u == control \o Copies(m, first)
    <3>3. IsSequence(u) /\ Range(u) = Range(control) \cup {m}
      <4>1. Extends(u, control, m)
        BY <1>0, <3>2, MessageSent
      <4> QED
        BY <4>1 DEF Extends
    <3> HIDE DEF u
    <3>4. Range(control') = Range(control) \cup {m} \cup {r}
      <4>1. Extends(u \o Copies(r, second), u, r)
        BY <3>2, <3>3, MessageSent
      <4> QED
        BY <3>1, <3>3, <4>1 DEF Extends, u
    <3> QED
      BY <1>0, <1>1, <1>4, <2>1, <2>2, <3>4
  <2>4. CASE ~CancelsTurn(ds)
    <3>1. Send(m)
      BY <1>14, <2>4 DEF TurnAccepts
    <3> QED
      BY <1>1, <1>4, <1>5, <2>1, <2>2, <3>1
  <2> QED
    BY <2>3, <2>4
<1>15. CASE \E c \in Calls : ChildAsks(c) \/ ChildSettles(c)
  <2>1. PICK x : x.kind \in {"ask", "result"} /\ tInbox' = Append(tInbox, x) /\ control' = control
    <3>1. PICK c \in Calls : ChildAsks(c) \/ ChildSettles(c)
      BY <1>15
    <3>2. CASE ChildAsks(c)
      <4>1. tInbox' = Append(tInbox, [kind |-> "ask", id |-> c]) /\ control' = control
        BY <3>2 DEF ChildAsks
      <4> QED
        BY <4>1
    <3>3. CASE ChildSettles(c)
      <4>1. tInbox' = Append(tInbox, [kind |-> "result", id |-> c]) /\ control' = control
        BY <3>3 DEF ChildSettles
      <4> QED
        BY <4>1
    <3> QED
      BY <3>1, <3>2, <3>3
  <2>2. Held1(x)
    BY <2>1 DEF Held1
  <2> QED
    BY <1>0, <1>1, <2>1, <2>2, ElementAdded
<1>16. CASE \/ UNCHANGED vars \/ (\E c \in Commands : SendCommand(c)) \/ ReceiverReadsCommand \/ ForwardLands \/ ForwardGivesUp
            \/ InlineReadsCommand \/ InlineContinues \/ InlineToChild \/ (\E action \in {"done", "park"} : InlineSettles(action))
            \/ ParkedTakesBuffered \/ ParkedReadsCommand \/ RoutedAway
            \/ TurnClaims \/ TurnReadsCancel \/ \E cs \in SUBSET Calls : TurnDispatches(cs)
  BY <1>8, <1>16 DEF vars, SendCommand, ReceiverReadsCommand, ForwardLands, ForwardGivesUp, InlineReadsCommand,
         InlineContinues, InlineToChild, InlineSettles, ParkedTakesBuffered, ParkedReadsCommand, RoutedAway,
         TurnClaims, TurnReadsCancel, TurnDispatches, turnVars
<1> QED
  BY <1>9, <1>10, <1>11, <1>12, <1>13, <1>14, <1>15, <1>16 DEF Next, DriverNext, TurnNext

LEMMA DriverKeepsScalars ==
  ASSUME Contents, Queues, Phases, Scalars, DriverNext
  PROVE  Scalars'
<1> USE DEF Scalars
<1>1. controls' \in Seq({"clear", "expired", "reset"})
  <2>1. \A c \in Commands : c.kind \in {"clear", "timeout", "reset"} =>
           Append(controls, ControlOf(c)) \in Seq({"clear", "expired", "reset"})
           /\ <<ControlOf(c)>> \in Seq({"clear", "expired", "reset"})
    <3>1. \A c \in Commands : c.kind \in {"clear", "timeout", "reset"} => ControlOf(c) \in {"clear", "expired", "reset"}
      BY DEF ControlOf
    <3> HIDE DEF ControlOf
    <3> QED
      BY <3>1, QueueClosed
  <2>2. controls # <<>> => Tail(controls) \in Seq({"clear", "expired", "reset"})
    BY QueueClosed
  <2>3. inbox # <<>> => Head(inbox) \in Commands
    BY QueueClosed DEF Queues
  <2>4. CASE ReceiverReadsCommand \/ InlineReadsCommand \/ ParkedReadsCommand
    BY <2>1, <2>3, <2>4 DEF ReceiverReadsCommand, HandleDelivery, HandleControl, HandleCancel, InlineReadsCommand, ParkedReadsCommand
  <2>5. CASE ~(ReceiverReadsCommand \/ InlineReadsCommand \/ ParkedReadsCommand)
    BY <2>2, <2>5 DEF DriverNext, ForwardLands, ForwardGivesUp, AwaitReadsControl, ServiceReadsControl, ServiceTakesResponse,
         ForwardedReadsControl, InlineSettles, InlineContinues, InlineToChild, ParkedTakesControl, ParkedTakesBuffered,
         RoutedToTurn, RoutedAway
  <2> QED
    BY <2>4, <2>5
<1>2. /\ fwd' \in Payload /\ turn' \in Nat /\ cancelQ' \in Seq(Payload) /\ aborted' \in Payload /\ initial' \in Payload
  <2>1. NotAborted \in Payload /\ Cancel(0) \in Payload /\ <<>> \in Seq(Payload) /\ Append(cancelQ, fwd) \in Seq(Payload)
    BY QueueClosed DEF NotAborted, Cancel, Payload
  <2>2. inbox # <<>> /\ Head(inbox).kind = "cancel" => Cancel(Guard(Head(inbox))) \in Payload
    <3>1. inbox # <<>> => Head(inbox) \in Commands
      BY QueueClosed DEF Queues
    <3>2. inbox # <<>> /\ Head(inbox).kind = "cancel" => Guard(Head(inbox)) \in Nat
      BY <3>1, TurnConstants DEF Guard
    <3> QED
      BY <3>2 DEF Cancel, Payload
  <2> HIDE DEF Payload, Cancel, Guard, NotAborted
  <2>3. CASE ReceiverReadsCommand \/ InlineReadsCommand
    BY <2>1, <2>2, <2>3 DEF ReceiverReadsCommand, HandleDelivery, HandleControl, HandleCancel, StartForward, StayHere,
         InlineReadsCommand, InlineAbort, turnVars
  <2>4. CASE \E inline \in BOOLEAN : ParkedTakesControl(inline) \/ RoutedToTurn(inline)
    <3>1. /\ turn' \in {turn, turn + 1} /\ fwd' = fwd
          /\ \/ UNCHANGED <<cancelQ, aborted, initial>>
             \/ cancelQ' = <<>> /\ aborted' = NotAborted /\ initial' = NotAborted
      BY <2>4 DEF ParkedTakesControl, RoutedToTurn, StartTurn, turnVars
    <3>2. turn' \in Nat
      BY <3>1
    <3>3. cancelQ' \in Seq(Payload) /\ aborted' \in Payload /\ initial' \in Payload /\ fwd' \in Payload
      BY <2>1, <3>1, Zenon
    <3> QED
      BY <3>2, <3>3
  <2>5. CASE ~(ReceiverReadsCommand \/ InlineReadsCommand \/ \E inline \in BOOLEAN : ParkedTakesControl(inline) \/ RoutedToTurn(inline))
    BY <2>1, <2>5 DEF DriverNext, ForwardLands, ForwardGivesUp, AwaitReadsControl, ServiceReadsControl, ServiceTakesResponse,
         ForwardedReadsControl, InlineSettles, InlineContinues, InlineToChild, ParkedTakesBuffered, ParkedReadsCommand,
         RoutedAway, turnVars
  <2> QED
    BY <2>3, <2>4, <2>5
<1>3. prompts' \subseteq Prompts /\ shown' \subseteq Prompts
  <2>1. \A ds : RoutedPrompts(ds) \subseteq Prompts
    BY DEF RoutedPrompts, Prompts
  <2>2. \/ UNCHANGED <<prompts, shown>>
        \/ prompts' = {} /\ shown' = shown
        \/ prompts' \subseteq RoutedPrompts(routing) /\ shown' = shown \cup RoutedPrompts(routing)
    BY DEF DriverNext, ReceiverReadsCommand, InlineReadsCommand, ParkedReadsCommand, ForwardLands, ForwardGivesUp,
         AwaitReadsControl, ServiceReadsControl, ServiceTakesResponse,
         ForwardedReadsControl, InlineSettles, InlineContinues, InlineToChild, ParkedTakesControl, ParkedTakesBuffered,
         RoutedToTurn, RoutedAway, DriverTakes
  <2> QED
    BY <2>1, <2>2
<1>4. /\ cancelLive' \in BOOLEAN /\ calls' \subseteq Calls /\ asking' \subseteq Calls
      /\ waits' \in 0..MaxWaits /\ asks' \in 0..MaxAsks
  <2>1. \/ UNCHANGED <<cancelLive, calls, asking, waits, asks>>
        \/ cancelLive' = TRUE /\ UNCHANGED <<calls, asking, waits, asks>>
        \/ cancelLive' = FALSE /\ calls' = {} /\ asking' = {} /\ waits' = 0 /\ asks' = 0
    BY DEF DriverNext, ReceiverReadsCommand, InlineReadsCommand, ParkedReadsCommand, ForwardLands, ForwardGivesUp,
         AwaitReadsControl, ServiceReadsControl, ServiceTakesResponse,
         ForwardedReadsControl, InlineSettles, InlineContinues, InlineToChild, ParkedTakesControl, ParkedTakesBuffered,
         RoutedToTurn, RoutedAway, StartTurn, turnVars
  <2>2. 0 \in 0..MaxWaits /\ 0 \in 0..MaxAsks
    BY TurnConstants
  <2> QED
    BY <2>1, <2>2
<1>5. gaveUp' \in BOOLEAN
  BY DEF DriverNext, ReceiverReadsCommand, InlineReadsCommand, ParkedReadsCommand, ForwardLands, ForwardGivesUp,
         AwaitReadsControl, ServiceReadsControl, ServiceTakesResponse,
         ForwardedReadsControl, InlineSettles, InlineContinues, InlineToChild, ParkedTakesControl, ParkedTakesBuffered,
         RoutedToTurn, RoutedAway, histVars
<1>6. request' \in Nat
  <2>1. control # <<>> => Head(control).id \in Nat
    BY HeadRead DEF Phases, Contents
  <2>2. request' \in {request, 0} \/ (control # <<>> /\ request' = Head(control).id)
    BY DEF DriverNext, ReceiverReadsCommand, InlineReadsCommand, ParkedReadsCommand, ForwardLands, ForwardGivesUp,
         AwaitReadsControl, ServiceReadsControl, ServiceTakesResponse,
         ForwardedReadsControl, InlineSettles, InlineContinues, InlineToChild, ParkedTakesControl, ParkedTakesBuffered,
         RoutedToTurn, RoutedAway, DriverTakes
  <2> QED
    BY <2>1, <2>2
<1> QED
  BY <1>1, <1>2, <1>3, <1>4, <1>5, <1>6

LEMMA TurnKeepsScalars ==
  ASSUME Contents, Queues, Scalars, TurnNext \/ \E c \in Calls : ChildAsks(c) \/ ChildSettles(c)
  PROVE  Scalars'
<1> USE DEF Scalars
<1>1. UNCHANGED <<fwd, turn, request, controls>> /\ shown' = shown \cup prompts'
  BY DEF TurnNext, TurnClaims, TurnReadsCancel, TurnSettles, TurnCancels, TurnDispatches, TurnFails, TurnRequests,
         TurnLeavesWait, TurnReadsChild, TurnIgnoresDelivery, TurnAccepts, ChildAsks, ChildSettles, TurnOnly, driverVars
<1>2. cancelQ' \in Seq(Payload) /\ aborted' \in Payload /\ initial' \in Payload
  <2>1. NotAborted \in Payload /\ (cancelQ # <<>> => Tail(cancelQ) \in Seq(Payload) /\ Head(cancelQ) \in Payload)
    BY QueueClosed DEF NotAborted, Payload
  <2> HIDE DEF NotAborted, Payload
  <2>2. \/ UNCHANGED <<cancelQ, aborted, initial>>
        \/ UNCHANGED <<cancelQ, initial>> /\ aborted' \in {initial, NotAborted}
        \/ initial' = initial /\ cancelQ # <<>> /\ cancelQ' = Tail(cancelQ) /\ aborted' \in {Head(cancelQ), NotAborted}
    BY DEF TurnNext, TurnClaims, TurnReadsCancel, TurnSettles, TurnCancels, TurnDispatches, TurnFails, TurnRequests,
         TurnLeavesWait, TurnReadsChild, TurnIgnoresDelivery, TurnAccepts, ChildAsks, ChildSettles
  <2> QED
    BY <2>1, <2>2
<1>3. prompts' \subseteq Prompts
  <2>1. \A ds : RoutedPrompts(ds) \subseteq Prompts
    BY DEF RoutedPrompts, Prompts
  <2>2. \/ prompts' = prompts \/ \E ds : prompts' \subseteq RoutedPrompts(ds)
        \/ \E c \in calls : prompts' = prompts \cup {c}
    BY DEF TurnNext, TurnClaims, TurnReadsCancel, TurnSettles, TurnCancels, TurnDispatches, TurnFails, TurnRequests,
         TurnLeavesWait, TurnReadsChild, TurnIgnoresDelivery, TurnAccepts, ChildAsks, ChildSettles
  <2> QED
    BY <2>1, <2>2 DEF Prompts
<1>4. cancelLive' \in BOOLEAN /\ calls' \subseteq Calls /\ asking' \subseteq Calls
  BY DEF TurnNext, TurnClaims, TurnReadsCancel, TurnSettles, TurnCancels, TurnDispatches, TurnFails, TurnRequests,
         TurnLeavesWait, TurnReadsChild, TurnIgnoresDelivery, TurnAccepts, ChildAsks, ChildSettles, Finish
<1>5. waits' \in 0..MaxWaits /\ asks' \in 0..MaxAsks
  <2>1. \/ UNCHANGED <<waits, asks>>
        \/ waits' = waits + 1 /\ waits < MaxWaits /\ asks' = asks
        \/ asks' = asks + 1 /\ asks < MaxAsks /\ waits' = waits
    BY DEF TurnNext, TurnClaims, TurnReadsCancel, TurnSettles, TurnCancels, TurnDispatches, TurnFails, TurnRequests,
         TurnLeavesWait, TurnReadsChild, TurnIgnoresDelivery, TurnAccepts, ChildAsks, ChildSettles
  <2> QED
    BY <2>1, TurnConstants
<1>6. gaveUp' \in BOOLEAN
  BY DEF TurnNext, TurnClaims, TurnReadsCancel, TurnSettles, TurnCancels, TurnDispatches, TurnFails, TurnRequests,
         TurnLeavesWait, TurnReadsChild, TurnIgnoresDelivery, TurnAccepts, ChildAsks, ChildSettles, histVars
<1> QED
  BY <1>1, <1>2, <1>3, <1>4, <1>5, <1>6

LEMMA ScalarsInductive ==
  ASSUME Contents, Queues, Phases, Scalars, [Next]_vars
  PROVE  Scalars'
<1>1. CASE UNCHANGED vars \/ \E c \in Commands : SendCommand(c)
  BY <1>1 DEF vars, SendCommand, driverVars, turnVars, histVars, Scalars
<1> QED
  BY <1>1, DriverKeepsScalars, TurnKeepsScalars DEF Next

LEMMA TypesInductive ==
  ASSUME TInv, ProtocolInv, [Next]_vars
  PROVE  TInv'
<1>1. Phases'
  BY PhasesInductive DEF TInv
<1>2. pending' \in Nat
  BY <1>1 DEF Phases
<1> QED
  BY <1>1, <1>2, QueuesInductive, ContentsInductive, ScalarsInductive DEF TInv

LEMMA TypesInitially == Init => TInv
<1> SUFFICES ASSUME Init PROVE TInv
  OBVIOUS
<1>1. Phases
  BY EmptyIsSequence DEF Init, Phases, Mode, TurnModes, DriverModes, InTurn
<1>2. Contents
  BY EmptyIsSequence DEF Init, Contents
<1>3. Queues
  <2>1. <<>> \in Seq(Commands) /\ <<>> \in Seq(Deliveries) /\ Len(<<>>) <= 1
    OBVIOUS
  <2> QED
    BY <2>1 DEF Init, Queues
<1>4. Scalars
  <2>1. <<>> \in Seq({"clear", "expired", "reset"}) /\ <<>> \in Seq(Payload) /\ NotAborted \in Payload
    BY QueueClosed DEF Payload, NotAborted
  <2>2. 0 \in 0..MaxWaits /\ 0 \in 0..MaxAsks
    BY TurnConstants
  <2> HIDE DEF Payload, NotAborted
  <2> QED
    BY <2>1, <2>2 DEF Init, Scalars
<1> QED
  BY <1>1, <1>2, <1>3, <1>4 DEF TInv

\* The inductive form implies the type invariant that the runs check.
LEMMA TypesSuffice == TInv => TypeOK
<1>1. TInv => /\ \A i \in DOMAIN control : control[i].kind \in ControlKinds /\ control[i].rem \in Seq(Deliveries)
              /\ \A i \in DOMAIN tInbox : tInbox[i].kind \in {"delivery", "ask", "result"}
  BY DEF TInv, Contents, Range
<1> QED
  BY <1>1 DEF TInv, Phases, Queues, Scalars, TypeOK

-----------------------------------------------------------------------------
(* The hooks of a turn, also when it has finished and the driver has not   *)
(* read everything yet.                                                    *)

\* The turn has accepted the delivery forwarded for the request in service.
Acknowledged == \E m \in Range(control) : m.kind = "accepted" /\ m.id = request

\* The result comes last, and a request is sent after the earlier ones are closed.
InOrder(q) ==
  \A i, j \in DOMAIN q : i < j =>
    /\ Terminal(q[i]) => Terminal(q[j])
    /\ q[i].kind \in {"accepted", "cancelled"} /\ q[j].kind = "request" => q[i].id < q[j].id
\* A request is closed one way, and the result has what the turn kept.
ClosedOneWay ==
  /\ \A x, y \in Range(control) : x.kind = "accepted" /\ y.kind = "cancelled" => x.id # y.id
  /\ \A x \in Range(control) : x.kind = "result" => x.rem = tBuffered
\* No request is accepted before its delivery is forwarded.
NotYetAccepted ==
  /\ \A x, y \in Range(control) :
       x.kind = "request" /\ ~(Mode = "forwarded" /\ request = x.id) /\ Mode # "ended" =>
         ~(y.kind = "accepted" /\ y.id = x.id)
  /\ Mode = "service" => ~Acknowledged
\* The delivery on its way to the turn is the one outstanding.
ForwardedIsOutstanding ==
  Running /\ Mode = "forwarded" =>
    \A x \in Range(tInbox) : x.kind = "delivery" /\ x.id = request => outstanding = <<x.what>>
LateInv ==
  /\ InOrder(control) /\ ClosedOneWay /\ NotYetAccepted /\ ForwardedIsOutstanding
  /\ d = "inline" => tBuffered = <<>>

\* Reading a hook keeps its messages in order.
LEMMA OrderRead ==
  ASSUME NEW q, IsSequence(q), q # <<>>, InOrder(q)
  PROVE  /\ InOrder(Tail(q))
         /\ \A x \in Range(Tail(q)) :
              /\ Terminal(Head(q)) => Terminal(x)
              /\ Head(q).kind \in {"accepted", "cancelled"} /\ x.kind = "request" => Head(q).id < x.id
<1>1. /\ DOMAIN q = 1..Len(q) /\ Len(q) \in Nat \ {0} /\ Head(q) = q[1]
      /\ DOMAIN Tail(q) = 1..(Len(q) - 1) /\ \A i \in 1..(Len(q) - 1) : Tail(q)[i] = q[i + 1]
  BY HeadRead
<1>2. \A i \in DOMAIN Tail(q) : i + 1 \in DOMAIN q /\ 1 \in DOMAIN q /\ 1 < i + 1 /\ Tail(q)[i] = q[i + 1]
  BY <1>1
<1>3. \A i, j \in DOMAIN Tail(q) : i < j => i + 1 < j + 1
  BY <1>1
<1>4. InOrder(Tail(q))
  BY <1>2, <1>3 DEF InOrder
<1>5. \A i \in DOMAIN Tail(q) :
        /\ Terminal(q[1]) => Terminal(Tail(q)[i])
        /\ q[1].kind \in {"accepted", "cancelled"} /\ Tail(q)[i].kind = "request" => q[1].id < Tail(q)[i].id
  BY <1>2 DEF InOrder
<1> QED
  BY <1>1, <1>4, <1>5 DEF Range

\* So does sending, when the result has not been sent.
LEMMA OrderSent ==
  ASSUME NEW q, NEW u, NEW m, Extends(u, q, m), InOrder(q),
         ~Terminal(m) => \A x \in Range(q) : ~Terminal(x),
         m.kind = "request" => \A x \in Range(q) : x.kind \in {"accepted", "cancelled"} => x.id < m.id
  PROVE  InOrder(u)
<1>1. PICK n \in Nat :
       /\ Len(q) \in Nat /\ n > Len(q) /\ DOMAIN q = 1..Len(q) /\ DOMAIN u = 1..n
       /\ \A i \in 1..Len(q) : u[i] = q[i]
       /\ \A i \in (Len(q) + 1)..n : u[i] = m
  BY DEF Extends
<1> SUFFICES ASSUME NEW i \in 1..n, NEW j \in 1..n, i < j
             PROVE  /\ Terminal(u[i]) => Terminal(u[j])
                    /\ u[i].kind \in {"accepted", "cancelled"} /\ u[j].kind = "request" => u[i].id < u[j].id
  BY <1>1 DEF InOrder
<1>2. CASE j <= Len(q)
  <2>1. i \in DOMAIN q /\ j \in DOMAIN q /\ u[i] = q[i] /\ u[j] = q[j]
    BY <1>1, <1>2
  <2> QED
    BY <2>1 DEF InOrder
<1>3. CASE j > Len(q) /\ i <= Len(q)
  <2>1. i \in DOMAIN q /\ u[i] = q[i] /\ u[j] = m
    BY <1>1, <1>3
  <2>2. q[i] \in Range(q)
    BY <2>1 DEF Range
  <2> QED
    BY <2>1, <2>2
<1>4. CASE i > Len(q)
  <2>1. u[i] = m /\ u[j] = m
    BY <1>1, <1>4
  <2> QED
    BY <2>1
<1> QED
  BY <1>1, <1>2, <1>3, <1>4

\* Steps that leave the control hook alone.
LEMMA LateSame ==
  ASSUME LateInv, Phases, UNCHANGED <<control, tBuffered, request, outstanding>>, Mode' = Mode,
         Running' /\ Mode = "forwarded" => Running, d' = "inline" => d = "inline",
         \A m \in Range(tInbox') : m \in Range(tInbox) \/ m.kind # "delivery"
  PROVE  LateInv'
<1>1. Acknowledged' <=> Acknowledged
  BY DEF Acknowledged
<1>2. NotYetAccepted'
  BY <1>1 DEF LateInv, NotYetAccepted
<1>3. ForwardedIsOutstanding'
  BY DEF LateInv, ForwardedIsOutstanding
<1>4. ClosedOneWay'
  BY DEF LateInv, ClosedOneWay
<1> QED
  BY <1>2, <1>3, <1>4 DEF LateInv

\* Steps that change what the driver does and not the hook.
LEMMA LateElsewhere ==
  ASSUME LateInv, UNCHANGED <<control, tBuffered>>, Mode' \notin {"service", "forwarded"},
         Mode \notin {"forwarded", "ended"}, d' # "inline"
  PROVE  LateInv'
<1>2. NotYetAccepted'
  BY DEF LateInv, NotYetAccepted
<1>3. ForwardedIsOutstanding'
  BY DEF LateInv, ForwardedIsOutstanding
<1>4. ClosedOneWay'
  BY DEF LateInv, ClosedOneWay
<1> QED
  BY <1>2, <1>3, <1>4 DEF LateInv

\* A new turn has empty hooks.
LEMMA LateFresh ==
  ASSUME control' = <<>>, tInbox' = <<>>, tBuffered' = <<>>
  PROVE  LateInv'
<1>1. Range(control') = {} /\ Range(tInbox') = {} /\ DOMAIN control' = {}
  BY EmptyIsSequence
<1>2. ClosedOneWay' /\ NotYetAccepted' /\ ForwardedIsOutstanding'
  BY <1>1 DEF ClosedOneWay, NotYetAccepted, ForwardedIsOutstanding, Acknowledged
<1> QED
  BY <1>1, <1>2 DEF LateInv, InOrder

\* The driver reads the control hook.
LEMMA LateRead ==
  ASSUME LateInv, Phases, Contents, ProtocolInv, control # <<>>, control' = Tail(control), UNCHANGED <<tBuffered, t>>,
         Mode \in InTurn, d' # "inline",
         LET m == Head(control)
         IN \/ Mode' = Mode /\ UNCHANGED <<request, outstanding, tInbox>>
            \/ /\ Mode = "await" /\ m.kind = "request" /\ request' = m.id
               /\ \/ Mode' = "service"
                  \/ Mode' = "forwarded" /\ \E c : Relay(m.id, c) /\ outstanding' = <<c>>
            \/ Mode \in {"service", "forwarded"} /\ Mode' = "await" /\ m.kind \in {"accepted", "cancelled"} /\ m.id = request
            \/ Terminal(m) /\ Mode' \in {"parked", "ended"}
  PROVE  LateInv'
<1> DEFINE m == Head(control)
<1>1. /\ InOrder(control') /\ Range(control) = {m} \cup Range(control') /\ IsSequence(tInbox)
      /\ \A x \in Range(control') :
           /\ Terminal(m) => Terminal(x)
           /\ m.kind \in {"accepted", "cancelled"} /\ x.kind = "request" => m.id < x.id
  BY OrderRead, HeadRead DEF LateInv, Phases
<1>2. m.id \in Nat /\ \A x \in Range(control') : x.id \in Nat
  BY <1>1 DEF Contents
<1> HIDE DEF m
<1>3. ClosedOneWay'
  BY <1>1 DEF LateInv, ClosedOneWay
<1>4. CASE Mode' = Mode /\ UNCHANGED <<request, outstanding, tInbox>>
  <2>1. Acknowledged' => Acknowledged
    BY <1>1, <1>4 DEF Acknowledged
  <2>2. NotYetAccepted'
    BY <1>1, <1>4, <2>1 DEF LateInv, NotYetAccepted
  <2>3. ForwardedIsOutstanding'
    BY <1>4 DEF LateInv, ForwardedIsOutstanding, Running
  <2> QED
    BY <1>1, <1>3, <2>2, <2>3 DEF LateInv
<1>5. CASE /\ Mode = "await" /\ m.kind = "request" /\ request' = m.id
           /\ \/ Mode' = "service"
              \/ Mode' = "forwarded" /\ \E c : Relay(m.id, c) /\ outstanding' = <<c>>
  <2>1. \A y \in Range(control) : ~(y.kind = "accepted" /\ y.id = m.id)
    BY <1>1, <1>5 DEF LateInv, NotYetAccepted
  <2>2. ~Acknowledged'
    BY <1>1, <1>5, <2>1 DEF Acknowledged
  <2>3. NotYetAccepted'
    BY <1>1, <1>5, <2>2 DEF LateInv, NotYetAccepted
  <2>4. ForwardedIsOutstanding'
    <3> SUFFICES ASSUME Running', Mode' = "forwarded", NEW x \in Range(tInbox'), x.kind = "delivery", x.id = request'
                 PROVE  outstanding' = <<x.what>>
      BY DEF ForwardedIsOutstanding
    <3>1. PICK c : Relay(m.id, c) /\ outstanding' = <<c>>
      BY <1>5
    <3>2. ForwardInv
      BY DEF Running, ProtocolInv
    <3>3. ~Answers(m.id)
      BY <1>1, <1>5, <3>2 DEF ForwardInv
    <3>4. x \in Range(tInbox) \/ x.what = c
      BY <1>1, <3>1, Relayed
    <3>5. x \notin Range(tInbox)
      BY <1>5, <3>3 DEF Answers
    <3> QED
      BY <3>1, <3>4, <3>5
  <2> QED
    BY <1>1, <1>3, <2>3, <2>4 DEF LateInv
<1>6. CASE Mode \in {"service", "forwarded"} /\ Mode' = "await" /\ m.kind \in {"accepted", "cancelled"} /\ m.id = request
  <2>1. \A x \in Range(control') : x.kind = "request" => x.id # request
    BY <1>1, <1>2, <1>6
  <2>2. NotYetAccepted'
    BY <1>1, <1>6, <2>1 DEF LateInv, NotYetAccepted
  <2>3. ForwardedIsOutstanding'
    BY <1>6 DEF ForwardedIsOutstanding
  <2> QED
    BY <1>1, <1>3, <2>2, <2>3 DEF LateInv
<1>7. CASE Terminal(m) /\ Mode' \in {"parked", "ended"}
  <2>1. \A x \in Range(control') : x.kind # "request"
    BY <1>1, <1>7 DEF Terminal
  <2>2. NotYetAccepted'
    BY <1>7, <2>1 DEF NotYetAccepted
  <2>3. ForwardedIsOutstanding'
    BY <1>7 DEF ForwardedIsOutstanding
  <2> QED
    BY <1>1, <1>3, <2>2, <2>3 DEF LateInv
<1> QED
  BY <1>4, <1>5, <1>6, <1>7 DEF m

\* The delivery for the request in service is forwarded.
LEMMA LateForwarded ==
  ASSUME LateInv, Phases, ProtocolInv, ServiceTakesResponse
  PROVE  LateInv'
<1>1. /\ Mode = "service" /\ Mode' = "forwarded" /\ d' # "inline"
      /\ UNCHANGED <<control, tBuffered, request, t>>
      /\ outstanding' = <<Head(inbox)>> /\ Relay(request, Head(inbox))
  BY DEF ServiceTakesResponse, Mode
<1>2. ClosedOneWay'
  BY <1>1 DEF LateInv, ClosedOneWay
<1>3. NotYetAccepted'
  BY <1>1 DEF LateInv, NotYetAccepted
<1>4. ForwardedIsOutstanding'
  <2> SUFFICES ASSUME Running, NEW x \in Range(tInbox'), x.kind = "delivery", x.id = request
               PROVE  outstanding' = <<x.what>>
    BY <1>1 DEF ForwardedIsOutstanding, Running
  <2>1. ~Answers(request)
    BY <1>1 DEF ProtocolInv, ForwardInv
  <2>2. x \in Range(tInbox) \/ x.what = Head(inbox)
    BY <1>1, Relayed DEF Phases
  <2>3. x \notin Range(tInbox)
    BY <2>1 DEF Answers
  <2> QED
    BY <1>1, <2>2, <2>3
<1> QED
  BY <1>1, <1>2, <1>3, <1>4 DEF LateInv

\* The turn sends something that is not an acceptance.
LEMMA LateSent ==
  ASSUME LateInv, Phases, Contents, ProtocolInv, Running, NEW m, Send(m), m.kind # "accepted",
         m.kind = "request" => m.id = reqSeq + 1, m.kind = "cancelled" => m.id = pending /\ pending # 0,
         m.kind = "result" => m.rem = tBuffered,
         UNCHANGED <<tBuffered, request, outstanding, tInbox, d, back>>
  PROVE  LateInv'
<1>1. HookInv
  BY DEF ProtocolInv
<1>2. PICK again \in BOOLEAN : control' = control \o Copies(m, again)
  BY TurnConstants DEF Send
<1>3. Extends(control', control, m) /\ Range(control') = Range(control) \cup {m} /\ Mode' = Mode
  <2>1. Extends(control', control, m)
    BY <1>2, MessageSent DEF Phases
  <2> QED
    BY <2>1 DEF Extends, Mode
<1>4. \A x \in Range(control) : ~Terminal(x) /\ x.id \in 1..reqSeq
  BY <1>1 DEF HookInv, Terminal, Range
<1>5. reqSeq \in Nat
  BY DEF Phases
<1>6. InOrder(control')
  <2>1. m.kind = "request" => \A x \in Range(control) : x.kind \in {"accepted", "cancelled"} => x.id < m.id
    BY <1>4, <1>5
  <2> QED
    BY <1>3, <1>4, <2>1, OrderSent DEF LateInv
<1>7. ClosedOneWay'
  <2>1. m.kind = "cancelled" => \A x \in Range(control) : x.kind = "accepted" => x.id # m.id
    BY <1>1 DEF HookInv, Closes
  <2> QED
    BY <1>3, <2>1 DEF LateInv, ClosedOneWay
<1>8. NotYetAccepted'
  <2>1. Acknowledged' => Acknowledged
    BY <1>3 DEF Acknowledged
  <2>2. m.kind = "request" => \A x \in Range(control) : x.id # m.id
    BY <1>4, <1>5
  <2> QED
    BY <1>3, <2>1, <2>2 DEF LateInv, NotYetAccepted
<1>9. ForwardedIsOutstanding'
  BY <1>3 DEF LateInv, ForwardedIsOutstanding
<1> QED
  BY <1>6, <1>7, <1>8, <1>9 DEF LateInv

\* The delivery that a turn accepts is the one outstanding.
LEMMA AcceptsOutstanding ==
  ASSUME LateInv, Phases, ProtocolInv, TurnAccepts
  PROVE  /\ Mode = "forwarded" /\ request = pending /\ pending # 0 /\ ~Acknowledged
         /\ tInbox # <<>> /\ tInbox' = Tail(tInbox) /\ Head(tInbox) \in Range(tInbox)
         /\ Head(tInbox).kind = "delivery" /\ outstanding = <<Head(tInbox).what>>
<1> DEFINE x == Head(tInbox)
<1>1. Running /\ tInbox # <<>> /\ tInbox' = Tail(tInbox) /\ x.kind = "delivery" /\ x.id = pending
  BY DEF TurnAccepts, Waiting, Running, Accepted
<1>2. HookInv /\ ForwardInv /\ ServiceInv /\ IsSequence(tInbox) /\ reqSeq \in Nat
  BY <1>1 DEF ProtocolInv, Phases
<1>3. x \in Range(tInbox)
  BY <1>1, <1>2, HeadRead
<1> HIDE DEF x
<1>4. pending # 0 /\ Answers(pending)
  <2>1. pending \in 1..reqSeq
    BY <1>1, <1>2, <1>3 DEF ForwardInv
  <2> QED
    BY <1>1, <1>2, <1>3, <2>1 DEF Answers
<1>5. Mode = "forwarded" /\ request = pending
  <2>1. CASE \E m \in Range(control) : Asks(m, pending)
    BY <1>2, <1>4, <2>1 DEF ForwardInv, Asks
  <2>2. CASE request = pending /\ Mode \in {"service", "forwarded"}
    BY <1>2, <1>4, <2>2 DEF ForwardInv
  <2> QED
    BY <1>2, <1>4, <2>1, <2>2 DEF ServiceInv
<1>6. ~Acknowledged
  BY <1>2, <1>4, <1>5 DEF HookInv, Closes, Acknowledged
<1>7. outstanding = <<x.what>>
  BY <1>1, <1>3, <1>5 DEF LateInv, ForwardedIsOutstanding
<1> QED
  BY <1>1, <1>3, <1>4, <1>5, <1>6, <1>7 DEF x

\* The turn accepts the delivery forwarded to it.
LEMMA LateAccepted ==
  ASSUME LateInv, Phases, ProtocolInv, TurnAccepts
  PROVE  LateInv' /\ Acknowledged' /\ Mode' = Mode
<1> DEFINE ds == <<Head(tInbox).what>>
           m == Msg("accepted", pending)
           r == Result("cancelled")
<1>1. /\ Mode = "forwarded" /\ request = pending /\ pending # 0 /\ ~Acknowledged
      /\ tInbox # <<>> /\ tInbox' = Tail(tInbox)
  BY AcceptsOutstanding
<1>2. Running /\ HookInv /\ IsSequence(control) /\ IsSequence(tInbox)
  BY DEF TurnAccepts, Waiting, Running, ProtocolInv, Phases
<1>3. UNCHANGED <<d, back, request, outstanding>> /\ Mode' = Mode
  BY DEF TurnAccepts, TurnOnly, driverVars, Mode
<1>4. m.kind = "accepted" /\ m.id = pending /\ r.kind = "result" /\ r.rem = tBuffered
  BY DEF Msg, Result
<1>5. \A x \in Range(control) : ~Terminal(x) /\ ~Closes(x, pending)
  BY <1>1, <1>2 DEF HookInv, Terminal, Range
<1>6. /\ InOrder(control') /\ m \in Range(control') /\ Range(control) \subseteq Range(control')
      /\ \A x \in Range(control') : x \in Range(control) \/ x = m \/ (x = r /\ tBuffered' = tBuffered)
  <2>1. CASE CancelsTurn(ds)
    <3>1. tBuffered' = tBuffered /\ \E first, second \in Resends : control' = control \o Copies(m, first) \o Copies(r, second)
      BY <2>1 DEF TurnAccepts
    <3>2. PICK first, second \in BOOLEAN : control' = control \o Copies(m, first) \o Copies(r, second)
      BY <3>1, TurnConstants
    <3> DEFINE u == control \o Copies(m, first)
    <3> HIDE DEF m, r
    <3>3. Extends(u, control, m) /\ IsSequence(u) /\ Range(u) = Range(control) \cup {m}
      <4>1. Extends(u, control, m)
        BY <1>2, MessageSent
      <4> QED
        BY <4>1 DEF Extends
    <3> HIDE DEF u
    <3>4. Extends(control', u, r) /\ Range(control') = Range(u) \cup {r}
      <4>1. Extends(u \o Copies(r, second), u, r)
        BY <3>3, MessageSent
      <4> QED
        BY <3>2, <4>1 DEF Extends, u
    <3>5. InOrder(u)
      BY <1>4, <1>5, <3>3, OrderSent DEF LateInv
    <3>6. InOrder(control')
      BY <1>4, <3>4, <3>5, OrderSent DEF Terminal
    <3> QED
      BY <3>1, <3>3, <3>4, <3>6
  <2>2. CASE ~CancelsTurn(ds)
    <3>1. \E again \in Resends : control' = control \o Copies(m, again)
      BY <2>2 DEF TurnAccepts, Send
    <3>2. PICK again \in BOOLEAN : control' = control \o Copies(m, again)
      BY <3>1, TurnConstants
    <3> HIDE DEF m, r
    <3>3. Extends(control', control, m) /\ Range(control') = Range(control) \cup {m}
      <4>1. Extends(control', control, m)
        BY <1>2, <3>2, MessageSent
      <4> QED
        BY <4>1 DEF Extends
    <3>4. InOrder(control')
      BY <1>4, <1>5, <3>3, OrderSent DEF LateInv
    <3> QED
      BY <3>3, <3>4
  <2> QED
    BY <2>1, <2>2
<1> HIDE DEF m, r, ds
<1>7. ClosedOneWay'
  <2>1. \A x, y \in Range(control') : x.kind = "accepted" /\ y.kind = "cancelled" => x.id # y.id
    BY <1>4, <1>5, <1>6 DEF LateInv, ClosedOneWay, Closes
  <2>2. \A x \in Range(control') : x.kind = "result" => x.rem = tBuffered'
    BY <1>4, <1>5, <1>6 DEF Terminal
  <2> QED
    BY <2>1, <2>2 DEF ClosedOneWay
<1>8. NotYetAccepted'
  <2>1. \A x \in Range(control') : x.kind = "request" => x \in Range(control)
    BY <1>4, <1>6
  <2>2. \A x \in Range(control') : x.kind = "accepted" => x \in Range(control) \/ x.id = request
    BY <1>1, <1>4, <1>6
  <2> QED
    BY <1>1, <1>3, <2>1, <2>2 DEF LateInv, NotYetAccepted
<1>9. ForwardedIsOutstanding'
  <2>1. Range(tInbox') \subseteq Range(tInbox)
    BY <1>1, <1>2, HeadRead
  <2> QED
    BY <1>2, <1>3, <2>1 DEF LateInv, ForwardedIsOutstanding
<1>10. d' # "inline"
  BY <1>1, <1>3 DEF Mode
<1>11. Acknowledged'
  BY <1>1, <1>3, <1>4, <1>6 DEF Acknowledged
<1> QED
  BY <1>3, <1>6, <1>7, <1>8, <1>9, <1>10, <1>11 DEF LateInv

LEMMA DriverKeepsLate ==
  ASSUME LateInv, Phases, Contents, ProtocolInv, DriverNext
  PROVE  LateInv'
<1>1. CASE ReceiverReadsCommand \/ ForwardLands \/ ForwardGivesUp \/ InlineReadsCommand
  <2>1. UNCHANGED <<control, tBuffered, request, outstanding, t, tInbox>>
    BY <1>1 DEF ReceiverReadsCommand, ForwardLands, ForwardGivesUp, InlineReadsCommand, turnVars
  <2>2. Mode' = Mode /\ (d' = "inline" => d = "inline")
    BY <1>1 DEF ReceiverReadsCommand, ForwardLands, ForwardGivesUp, InlineReadsCommand, HandleDelivery, HandleControl,
         HandleCancel, StartForward, StayHere, Mode, Phases, InTurn
  <2> QED
    BY <2>1, <2>2, LateSame DEF Running
<1>2. CASE AwaitReadsControl
  <2>1. control # <<>> /\ control' = Tail(control) /\ UNCHANGED <<tBuffered, t, back>> /\ d = "await"
    BY <1>2 DEF AwaitReadsControl
  <2> DEFINE m == Head(control)
  <2>2. \/ d' = d /\ UNCHANGED <<request, outstanding, tInbox>>
        \/ /\ m.kind = "request" /\ request' = m.id
           /\ d' = "service" \/ (d' = "forwarded" /\ \E c : Relay(m.id, c) /\ outstanding' = <<c>>)
        \/ Terminal(m) /\ d' \in {"parked", "ended"}
    BY <1>2 DEF AwaitReadsControl, DriverTakes, Terminal
  <2>3. Mode = "await" /\ Mode' = d' /\ d' # "inline" /\ Mode \in InTurn
    BY <2>1, <2>2 DEF Mode, InTurn
  <2> QED
    BY <2>1, <2>2, <2>3, LateRead
<1>3. CASE ServiceReadsControl \/ ForwardedReadsControl
  <2>1. /\ control # <<>> /\ control' = Tail(control) /\ UNCHANGED <<tBuffered, t, back, tInbox>>
        /\ d \in {"service", "forwarded"}
    BY <1>3 DEF ServiceReadsControl, ForwardedReadsControl
  <2> DEFINE m == Head(control)
  <2>2. \/ d' = d /\ UNCHANGED <<request, outstanding>>
        \/ d' = "await" /\ m.kind \in {"accepted", "cancelled"} /\ m.id = request
        \/ Terminal(m) /\ d' \in {"parked", "ended"}
    BY <1>3 DEF ServiceReadsControl, ForwardedReadsControl, DriverTakes, Terminal
  <2>3. Mode = d /\ Mode' = d' /\ d' # "inline" /\ Mode \in InTurn
    BY <2>1, <2>2 DEF Mode, InTurn
  <2> QED
    BY <2>1, <2>2, <2>3, LateRead
<1>4. CASE ServiceTakesResponse
  BY <1>4, LateForwarded
<1>5. CASE \/ InlineContinues \/ InlineToChild \/ (\E action \in {"done", "park"} : InlineSettles(action))
           \/ ParkedTakesBuffered \/ ParkedReadsCommand \/ RoutedAway
  <2>1. UNCHANGED <<control, tBuffered, back>> /\ d \in {"inline", "parked", "routing"} /\ d' \in {"await", "parked", "ended", "routing"}
    BY <1>5 DEF InlineContinues, InlineToChild, InlineSettles, ParkedTakesBuffered, ParkedReadsCommand, RoutedAway,
         DriverTakes, turnVars
  <2>2. Mode = d /\ Mode' = d'
    BY <2>1 DEF Mode
  <2> QED
    BY <2>1, <2>2, LateElsewhere
<1>6. CASE \E inline \in BOOLEAN : ParkedTakesControl(inline) \/ RoutedToTurn(inline)
  <2>1. \/ control' = <<>> /\ tInbox' = <<>> /\ tBuffered' = <<>>
        \/ UNCHANGED <<control, tBuffered>> /\ d = "parked" /\ d' = "ended"
    BY <1>6 DEF ParkedTakesControl, RoutedToTurn, StartTurn, turnVars
  <2>2. d = "parked" /\ d' = "ended" => Mode = "parked" /\ Mode' = "ended"
    BY DEF Mode
  <2> QED
    BY <2>1, <2>2, LateElsewhere, LateFresh
<1> QED
  BY <1>1, <1>2, <1>3, <1>4, <1>5, <1>6 DEF DriverNext

LEMMA TurnKeepsLate ==
  ASSUME LateInv, Phases, Contents, ProtocolInv, TurnNext \/ \E c \in Calls : ChildAsks(c) \/ ChildSettles(c)
  PROVE  LateInv'
<1>0. UNCHANGED <<request, outstanding, d, back>> /\ Mode' = Mode
  BY DEF TurnNext, TurnClaims, TurnReadsCancel, TurnSettles, TurnCancels, TurnDispatches, TurnFails, TurnRequests,
         TurnLeavesWait, TurnReadsChild, TurnIgnoresDelivery, TurnAccepts, ChildAsks, ChildSettles, TurnOnly, driverVars, Mode
<1>1. CASE TurnAccepts
  BY <1>1, LateAccepted
<1>2. CASE TurnClaims \/ TurnReadsCancel \/ \E cs \in SUBSET Calls : TurnDispatches(cs)
  <2>1. UNCHANGED <<control, tBuffered, tInbox>> /\ (t = "starting" \/ Running)
    BY <1>2 DEF TurnClaims, TurnReadsCancel, TurnDispatches, Running
  <2>2. t = "starting" => Mode # "forwarded"
    BY DEF Phases
  <2> QED
    BY <1>0, <2>1, <2>2, LateSame
<1>3. CASE TurnReadsChild \/ TurnIgnoresDelivery
  <2>1. UNCHANGED <<control, tBuffered, t>> /\ tInbox # <<>> /\ tInbox' = Tail(tInbox)
    BY <1>3 DEF TurnReadsChild, TurnIgnoresDelivery
  <2>2. Range(tInbox') \subseteq Range(tInbox)
    BY <2>1, HeadRead DEF Phases
  <2> QED
    BY <1>0, <2>1, <2>2, LateSame DEF Running
<1>4. CASE \E c \in Calls : ChildAsks(c) \/ ChildSettles(c)
  <2>1. PICK x : x.kind \in {"ask", "result"} /\ tInbox' = Append(tInbox, x) /\ UNCHANGED <<control, tBuffered, t>>
    <3>1. PICK c \in Calls : ChildAsks(c) \/ ChildSettles(c)
      BY <1>4
    <3>2. CASE ChildAsks(c)
      <4>1. tInbox' = Append(tInbox, [kind |-> "ask", id |-> c]) /\ UNCHANGED <<control, tBuffered, t>>
        BY <3>2 DEF ChildAsks
      <4> QED
        BY <4>1
    <3>3. CASE ChildSettles(c)
      <4>1. tInbox' = Append(tInbox, [kind |-> "result", id |-> c]) /\ UNCHANGED <<control, tBuffered, t>>
        BY <3>3 DEF ChildSettles
      <4> QED
        BY <4>1
    <3> QED
      BY <3>1, <3>2, <3>3
  <2>2. Range(tInbox') = Range(tInbox) \cup {x}
    BY <2>1, ElementAdded DEF Phases
  <2> QED
    BY <1>0, <2>1, <2>2, LateSame DEF Running
<1>5. CASE TurnCancels \/ TurnFails \/ \E action \in {"done", "park"} : TurnSettles(action)
  <2>1. Running /\ UNCHANGED <<tBuffered, tInbox>>
    BY <1>5 DEF TurnCancels, TurnFails, TurnSettles, Running
  <2>2. Send(Msg("error", 0)) \/ \E a : Send(Result(a))
    BY <1>5 DEF TurnCancels, TurnFails, TurnSettles, Finish
  <2>3. PICK m : Send(m) /\ m.kind \in {"error", "result"} /\ (m.kind = "result" => m.rem = tBuffered)
    <3>1. Msg("error", 0).kind = "error" /\ \A a : Result(a).kind = "result" /\ Result(a).rem = tBuffered
      BY DEF Msg, Result
    <3> QED
      BY <2>2, <3>1
  <2> QED
    BY <1>0, <2>1, <2>3, LateSent
<1>6. CASE TurnRequests \/ (TurnLeavesWait /\ pending # 0)
  <2>1. Running /\ UNCHANGED <<tBuffered, tInbox>>
    BY <1>6 DEF TurnRequests, TurnLeavesWait, Running
  <2>2. Send(Msg("request", reqSeq + 1)) \/ (pending # 0 /\ Send(Msg("cancelled", pending)))
    BY <1>6 DEF TurnRequests, TurnLeavesWait
  <2>3. /\ Msg("request", reqSeq + 1).kind = "request" /\ Msg("request", reqSeq + 1).id = reqSeq + 1
        /\ Msg("cancelled", pending).kind = "cancelled" /\ Msg("cancelled", pending).id = pending
    BY DEF Msg
  <2>4. CASE Send(Msg("request", reqSeq + 1))
    BY <1>0, <2>1, <2>3, <2>4, LateSent
  <2>5. CASE pending # 0 /\ Send(Msg("cancelled", pending))
    BY <1>0, <2>1, <2>3, <2>5, LateSent
  <2> QED
    BY <2>2, <2>4, <2>5
<1>7. CASE TurnLeavesWait /\ pending = 0
  <2>1. UNCHANGED <<control, tBuffered, tInbox>> /\ Running
    BY <1>7 DEF TurnLeavesWait, Running
  <2> QED
    BY <1>0, <2>1, LateSame
<1> QED
  BY <1>1, <1>2, <1>3, <1>4, <1>5, <1>6, <1>7 DEF TurnNext

LEMMA LateInductive ==
  ASSUME LateInv, Phases, Contents, ProtocolInv, [Next]_vars
  PROVE  LateInv'
<1>1. CASE UNCHANGED vars \/ \E c \in Commands : SendCommand(c)
  <2>1. UNCHANGED <<control, tBuffered, request, outstanding, t, tInbox, d, back>>
    BY <1>1 DEF vars, SendCommand, driverVars, turnVars
  <2> QED
    BY <2>1, LateSame DEF Running, Mode
<1> QED
  BY <1>1, DriverKeepsLate, TurnKeepsLate DEF Next

-----------------------------------------------------------------------------
(* Where a delivery can be while the session lives, and how it moves: the  *)
(* inbox, the driver's buffer, on its way to a parent turn (Mid), forwarded *)
(* and not accepted (Out), or kept by the turn that accepted it (Kept).     *)

Out == IF Mode = "forwarded" /\ ~Acknowledged THEN outstanding ELSE <<>>
Mid == IF Mode = "routing" THEN routing ELSE <<>>
Kept == IF Mode \in InTurn THEN tBuffered ELSE <<>>
Same == UNCHANGED <<sent, inbox, buffered, Mid, Out, Kept, started, uses, seen, cancelled, dropped>>

MoveSend ==
  \E c \in Commands :
    /\ c \notin Range(sent)
    /\ sent' = Append(sent, c) /\ inbox' = Append(inbox, c)
    /\ UNCHANGED <<buffered, Mid, Out, Kept, started, uses, seen, cancelled, dropped>>

\* A command is read: a delivery is buffered, forwarded or routed; or it is
\* dropped or is no delivery; or it cancels a task.
MoveRead ==
  /\ inbox # <<>> /\ inbox' = Tail(inbox)
  /\ UNCHANGED <<sent, Kept, started, uses>>
  /\ LET c == Head(inbox)
     IN \/ /\ IsDelivery(c) /\ Accepts(c) /\ seen' = Seen(c) /\ UNCHANGED <<cancelled, dropped>>
           /\ \/ buffered' = Append(buffered, c) /\ UNCHANGED <<Mid, Out>>
              \/ ~c.msg /\ Out = <<>> /\ Out' = <<c>> /\ UNCHANGED <<buffered, Mid>>
              \/ Mid = <<>> /\ Mid' = <<c>> /\ buffered = <<>> /\ UNCHANGED <<buffered, Out>>
        \/ /\ UNCHANGED <<buffered, Mid, Out, seen, cancelled>>
           /\ dropped' = dropped \cup {x \in {c} : IsDelivery(x)}
        \/ /\ cancelled \subseteq cancelled' /\ buffered' = Keep(buffered, cancelled')
           /\ ~IsDelivery(c) /\ dropped' = dropped \cup Discarded(buffered, cancelled')
           /\ Mid = <<>> /\ UNCHANGED <<Mid, Out, seen>>

\* A buffered response is forwarded to the turn.
MoveOffer ==
  /\ Out = <<>>
  /\ \E i \in 1..Len(buffered) :
       ~buffered[i].msg /\ Out' = <<buffered[i]>> /\ buffered' = RemoveAt(buffered, i)
  /\ UNCHANGED <<sent, inbox, Mid, Kept, started, uses, seen, cancelled, dropped>>

\* A released delivery, and what a turn kept, go back in front of the buffer.
MoveReturn ==
  /\ \/ buffered' = Keep(Out, cancelled) \o buffered /\ Kept' = Kept
     \/ /\ buffered' = Keep(Kept, cancelled) \o Keep(Out, cancelled) \o buffered /\ Kept' = <<>>
        /\ Discarded(Kept, cancelled) \subseteq dropped'
     \/ /\ buffered' = Keep(Kept, cancelled) \o buffered /\ Kept' = <<>>
        /\ Out = <<>> /\ Discarded(Kept, cancelled) \subseteq dropped'
  /\ dropped \cup Discarded(Out, cancelled) \subseteq dropped'
  /\ Out' = <<>>
  /\ UNCHANGED <<sent, inbox, Mid, started, uses, seen, cancelled>>

\* The turn accepts a delivery: its children get it, or the turn keeps it.
MoveAccept ==
  /\ Use(ToChild(Out) \cup {c \in ToSet(Out) : c.prompt})
  /\ (Kept' = Kept /\ CancelsTurn(Out)) \/ Kept' = Kept \o Remainder(Out)
  /\ Out' = <<>>
  /\ UNCHANGED <<sent, inbox, buffered, Mid, started, seen, cancelled, dropped>>

MovePark ==
  /\ Mid = <<>>
  /\ \/ /\ \E k \in 0..Len(buffered) : /\ Mid' = SubSeq(buffered, 1, k)
                                       /\ buffered' = SubSeq(buffered, k + 1, Len(buffered))
        /\ dropped' = dropped
     \/ /\ Mid' = Mid /\ buffered # <<>> /\ buffered' = Tail(buffered)
        /\ dropped' = dropped \cup {Head(buffered)}
  /\ UNCHANGED <<sent, inbox, Out, Kept, started, uses, seen, cancelled>>

MoveRoute ==
  /\ \/ /\ started' = started /\ Use(ToChild(Mid) \cup {c \in ToSet(Mid) : c.prompt})
        /\ CancelsTurn(Mid) \/ Remainder(Mid) = <<>>
     \/ started' = started \o Remainder(Mid) /\ Use(ToSet(Mid))
  /\ Mid' = <<>>
  /\ UNCHANGED <<sent, inbox, buffered, Out, Kept, seen, cancelled, dropped>>

MoveEnd == d' = "ended" /\ UNCHANGED <<sent, started, uses>>

Moves ==
  \/ MoveSend \/ MoveRead \/ MoveOffer \/ MoveReturn \/ MoveAccept \/ MovePark \/ MoveRoute
  \/ Same \/ MoveEnd

\* Steps that leave the places alone.
LEMMA PlacesSame ==
  ASSUME UNCHANGED <<routing, outstanding, tBuffered>>, Mode' = Mode, Acknowledged' <=> Acknowledged
  PROVE  UNCHANGED <<Mid, Out, Kept>>
BY DEF Mid, Out, Kept

\* The session is read by a driver that runs a turn or is parked.
LEMMA ReadsMove ==
  ASSUME Phases, ReceiverReadsCommand \/ InlineReadsCommand \/ ParkedReadsCommand
  PROVE  MoveRead
<1> DEFINE c == Head(inbox)
<1>1. CASE ReceiverReadsCommand
  <2>1. /\ inbox # <<>> /\ inbox' = Tail(inbox) /\ d \in InTurn
        /\ UNCHANGED <<sent, turn, request, outstanding, routing, turnVars, uses, started>>
        /\ HandleDelivery(c) \/ HandleControl(c) \/ HandleCancel(c)
    BY <1>1 DEF ReceiverReadsCommand
  <2>2. Mode' = Mode /\ Mode = d /\ (Acknowledged' <=> Acknowledged)
    BY <2>1 DEF HandleDelivery, HandleControl, HandleCancel, StartForward, StayHere, Mode, InTurn, Acknowledged, turnVars
  <2>3. UNCHANGED <<Mid, Out, Kept>> /\ Mid = <<>>
    BY <2>1, <2>2, PlacesSame DEF turnVars, Mid, InTurn
  <2>4. \/ /\ IsDelivery(c) /\ Accepts(c) /\ seen' = Seen(c) /\ buffered' = Append(buffered, c)
           /\ UNCHANGED <<cancelled, dropped>>
        \/ UNCHANGED <<buffered, seen, cancelled>> /\ dropped' = dropped \cup {x \in {c} : IsDelivery(x)}
        \/ /\ cancelled \subseteq cancelled' /\ buffered' = Keep(buffered, cancelled') /\ seen' = seen
           /\ ~IsDelivery(c) /\ dropped' = dropped \cup Discarded(buffered, cancelled')
    BY <2>1 DEF HandleDelivery, HandleControl, HandleCancel, DiscardTask, BufferDelivery, IsDelivery
  <2> QED
    BY <2>1, <2>3, <2>4 DEF MoveRead
<1>2. CASE InlineReadsCommand
  <2>1. /\ inbox # <<>> /\ inbox' = Tail(inbox) /\ d = "inline"
        /\ UNCHANGED <<sent, d, back, request, outstanding, routing, control, tBuffered, uses, started>>
    BY <1>2 DEF InlineReadsCommand
  <2>2. Mode' = Mode /\ Mode = d /\ (Acknowledged' <=> Acknowledged)
    BY <2>1 DEF Mode, Acknowledged
  <2>3. UNCHANGED <<Mid, Out, Kept>> /\ Mid = <<>>
    BY <2>1, <2>2, PlacesSame DEF Mid
  <2>4. \/ /\ IsDelivery(c) /\ Accepts(c) /\ seen' = Seen(c) /\ buffered' = Append(buffered, c)
           /\ UNCHANGED <<cancelled, dropped>>
        \/ UNCHANGED <<buffered, seen, cancelled>> /\ dropped' = dropped \cup {x \in {c} : IsDelivery(x)}
        \/ /\ cancelled \subseteq cancelled' /\ buffered' = Keep(buffered, cancelled') /\ seen' = seen
           /\ ~IsDelivery(c) /\ dropped' = dropped \cup Discarded(buffered, cancelled')
    BY <1>2 DEF InlineReadsCommand, DiscardTask, BufferDelivery, IsDelivery
  <2> QED
    BY <2>1, <2>3, <2>4 DEF MoveRead
<1>3. CASE ParkedReadsCommand
  <2>1. /\ inbox # <<>> /\ inbox' = Tail(inbox) /\ d = "parked" /\ buffered = <<>>
        /\ UNCHANGED <<sent, uses, started>>
        /\ \/ d' = "routing" /\ routing' = <<c>> /\ buffered' = buffered
              /\ IsDelivery(c) /\ Accepts(c) /\ seen' = Seen(c) /\ UNCHANGED <<cancelled, dropped>>
           \/ /\ d' = d /\ UNCHANGED <<buffered, seen, cancelled>>
              /\ dropped' = dropped \cup {x \in {c} : IsDelivery(x)}
           \/ /\ d' = d /\ cancelled \subseteq cancelled' /\ buffered' = Keep(buffered, cancelled') /\ seen' = seen
              /\ ~IsDelivery(c) /\ dropped' = dropped \cup Discarded(buffered, cancelled')
    BY <1>3 DEF ParkedReadsCommand, DiscardTask, IsDelivery
  <2>2. /\ UNCHANGED <<Out, Kept>> /\ Mid = <<>>
        /\ d' = d => Mid' = <<>>
        /\ d' = "routing" => Mid' = routing'
    BY <2>1 DEF Mid, Out, Kept, Mode, InTurn
  <2> QED
    BY <2>1, <2>2 DEF MoveRead
<1> QED
  BY <1>1, <1>2, <1>3

\* The driver reads the control hook.
LEMMA ControlMoves ==
  ASSUME LateInv, Phases, Contents, Queues, AwaitReadsControl \/ ServiceReadsControl \/ ForwardedReadsControl
  PROVE  Same \/ MoveOffer \/ MoveReturn \/ MoveEnd
<1> DEFINE m == Head(control)
<1>1. /\ control # <<>> /\ control' = Tail(control) /\ d \in InTurn /\ UNCHANGED <<back, tBuffered, routing>>
      /\ UNCHANGED <<sent, inbox, started, uses, seen, cancelled>>
  BY DEF AwaitReadsControl, ServiceReadsControl, ForwardedReadsControl, InTurn
<1>2. /\ Range(control) = {m} \cup Range(control')
      /\ \A x \in Range(control') : Terminal(m) => Terminal(x)
  BY <1>1, OrderRead, HeadRead DEF LateInv, Phases
<1>3. Mode = d /\ (d' # "cancelling" => Mode' = d') /\ Kept = tBuffered /\ Mid = <<>>
  BY <1>1 DEF Mode, Kept, Mid, InTurn
<1>4. m.kind = "result" => m.rem = Kept
  BY <1>2, <1>3 DEF LateInv, ClosedOneWay
<1>5. /\ m.kind # "result" /\ (d # "forwarded" \/ m.kind # "cancelled" \/ m.id # request) => dropped' = dropped
      /\ m.kind = "result" => dropped \cup Discarded(m.rem, cancelled) \subseteq dropped'
      /\ d = "forwarded" /\ (m.kind = "result" \/ (m.kind = "cancelled" /\ m.id = request)) =>
           dropped \cup Discarded(outstanding, cancelled) \subseteq dropped'
  BY DEF AwaitReadsControl, ServiceReadsControl, ForwardedReadsControl, m
<1> HIDE DEF m
<1>6. Discarded(<<>>, cancelled) = {}
  BY SetOfQueue, RangeOfFew DEF Discarded
<1>7. CASE d' = "ended"
  BY <1>1, <1>7 DEF MoveEnd
<1>8. ASSUME d' \in InTurn PROVE Kept' = Kept /\ Mid' = Mid /\ Mode' = d'
  BY <1>1, <1>3, <1>8 DEF Kept, Mid, InTurn
<1>9. ASSUME d' = "parked" PROVE Kept' = <<>> /\ Mid' = Mid /\ Out' = <<>>
  BY <1>1, <1>3, <1>9 DEF Kept, Mid, Out, InTurn
<1>10. CASE AwaitReadsControl /\ d' # "ended"
  <2>1. \/ m.kind = "request" /\ request' = m.id /\ d' = "service" /\ buffered' = buffered
        \/ /\ m.kind = "request" /\ request' = m.id /\ d' = "forwarded" /\ FirstResponse # 0
           /\ outstanding' = <<buffered[FirstResponse]>> /\ buffered' = RemoveAt(buffered, FirstResponse)
        \/ m.kind = "result" /\ d' = "parked" /\ buffered' = Keep(m.rem, cancelled) \o buffered
        \/ m.kind # "result" /\ d' = "await" /\ buffered' = buffered
    BY <1>10 DEF AwaitReadsControl, DriverTakes, m
  <2>2. d = "await" /\ Out = <<>>
    BY <1>3, <1>10 DEF AwaitReadsControl, Out
  <2>3. CASE m.kind # "result" /\ d' \in {"service", "await"} /\ buffered' = buffered
    <3>1. Out' = <<>>
      BY <1>8, <2>3 DEF Out, InTurn
    <3> QED
      BY <1>1, <1>8, <1>5, <2>2, <2>3, <3>1 DEF Same, InTurn
  <2>4. CASE /\ m.kind = "request" /\ request' = m.id /\ d' = "forwarded" /\ FirstResponse # 0
             /\ outstanding' = <<buffered[FirstResponse]>> /\ buffered' = RemoveAt(buffered, FirstResponse)
    <3>1. ~Acknowledged'
      BY <1>2, <1>3, <2>2, <2>4 DEF LateInv, NotYetAccepted, Acknowledged
    <3>2. Out' = <<buffered[FirstResponse]>>
      BY <1>8, <2>4, <3>1 DEF Out, InTurn
    <3>3. FirstResponse \in 1..Len(buffered) /\ ~buffered[FirstResponse].msg
      BY <2>4, ResponseFound DEF Queues
    <3> QED
      BY <1>1, <1>8, <1>5, <2>2, <2>4, <3>2, <3>3 DEF MoveOffer, InTurn
  <2>5. CASE m.kind = "result" /\ d' = "parked" /\ buffered' = Keep(m.rem, cancelled) \o buffered
    BY <1>1, <1>4, <1>9, <1>5, <1>6, <2>2, <2>5 DEF MoveReturn
  <2> QED
    BY <2>1, <2>3, <2>4, <2>5
<1>11. CASE ServiceReadsControl /\ d' # "ended"
  <2>1. \/ m.kind = "result" /\ d' = "parked" /\ buffered' = Keep(m.rem, cancelled) \o buffered
        \/ m.kind # "result" /\ d' \in {"service", "await"} /\ buffered' = buffered
    BY <1>11 DEF ServiceReadsControl, DriverTakes, m
  <2>2. d = "service" /\ Out = <<>>
    BY <1>3, <1>11 DEF ServiceReadsControl, Out
  <2>3. CASE m.kind # "result" /\ d' \in {"service", "await"} /\ buffered' = buffered
    <3>1. Out' = <<>>
      BY <1>8, <2>3 DEF Out, InTurn
    <3> QED
      BY <1>1, <1>8, <1>5, <2>2, <2>3, <3>1 DEF Same, InTurn
  <2>4. CASE m.kind = "result" /\ d' = "parked" /\ buffered' = Keep(m.rem, cancelled) \o buffered
    BY <1>1, <1>4, <1>9, <1>5, <1>6, <2>2, <2>4 DEF MoveReturn
  <2> QED
    BY <2>1, <2>3, <2>4
<1>12. CASE ForwardedReadsControl /\ d' # "ended"
  <2>1. \/ m.kind = "accepted" /\ m.id = request /\ d' = "await" /\ buffered' = buffered
        \/ m.kind = "cancelled" /\ m.id = request /\ d' = "await" /\ buffered' = Keep(outstanding, cancelled) \o buffered
        \/ m.kind = "result" /\ d' = "parked" /\ buffered' = Keep(m.rem, cancelled) \o Keep(outstanding, cancelled) \o buffered
        \/ /\ d' = "forwarded" /\ UNCHANGED <<buffered, request, outstanding>>
           /\ m.kind # "result" /\ (m.kind \in {"accepted", "cancelled"} => m.id # request)
    BY <1>12 DEF ForwardedReadsControl, DriverTakes, Returned, m
  <2>2. Mode = "forwarded"
    BY <1>3, <1>12 DEF ForwardedReadsControl
  <2>3. CASE m.kind = "accepted" /\ m.id = request /\ d' = "await" /\ buffered' = buffered
    <3>1. Acknowledged
      BY <1>2, <2>3 DEF Acknowledged
    <3>2. Out = <<>> /\ Out' = <<>>
      BY <1>8, <2>3, <3>1 DEF Out, InTurn
    <3> QED
      BY <1>1, <1>8, <1>5, <2>3, <3>2 DEF Same, InTurn
  <2>4. CASE m.kind = "cancelled" /\ m.id = request /\ d' = "await" /\ buffered' = Keep(outstanding, cancelled) \o buffered
    <3>1. ~Acknowledged
      BY <1>2, <2>4 DEF Acknowledged, LateInv, ClosedOneWay
    <3>2. Out = outstanding /\ Out' = <<>>
      BY <1>8, <2>2, <2>4, <3>1 DEF Out, InTurn
    <3> QED
      BY <1>1, <1>3, <1>8, <1>5, <2>2, <2>4, <3>2 DEF MoveReturn, InTurn
  <2>5. CASE m.kind = "result" /\ d' = "parked" /\ buffered' = Keep(m.rem, cancelled) \o Keep(outstanding, cancelled) \o buffered
    <3>1. ~Acknowledged
      BY <1>2, <2>5 DEF Acknowledged, Terminal
    <3>2. Out = outstanding
      BY <2>2, <3>1 DEF Out
    <3> QED
      BY <1>1, <1>3, <1>4, <1>9, <1>5, <2>2, <2>5, <3>2 DEF MoveReturn
  <2>6. CASE d' = "forwarded" /\ UNCHANGED <<buffered, request, outstanding>> /\ m.kind # "result"
                /\ (m.kind \in {"accepted", "cancelled"} => m.id # request)
    <3>1. Acknowledged' <=> Acknowledged
      BY <1>2, <2>6 DEF Acknowledged
    <3>2. Out' = Out
      BY <1>8, <2>2, <2>6, <3>1 DEF Out, InTurn
    <3> QED
      BY <1>1, <1>8, <1>5, <2>6, <3>2 DEF Same, InTurn
  <2> QED
    BY <2>1, <2>3, <2>4, <2>5, <2>6
<1> QED
  BY <1>7, <1>10, <1>11, <1>12

\* The driver forwards, parks, routes and starts turns.
LEMMA DriverMoves ==
  ASSUME LateInv, Phases, Contents, Queues, DriverNext
  PROVE  Moves
<1>1. CASE ReceiverReadsCommand \/ InlineReadsCommand \/ ParkedReadsCommand
  BY <1>1, ReadsMove DEF Moves
<1>2. CASE AwaitReadsControl \/ ServiceReadsControl \/ ForwardedReadsControl
  BY <1>2, ControlMoves DEF Moves
<1>3. CASE ServiceTakesResponse
  <2> DEFINE c == Head(inbox)
  <2>1. /\ inbox # <<>> /\ inbox' = Tail(inbox) /\ d = "service" /\ d' = "forwarded"
        /\ IsDelivery(c) /\ ~c.msg /\ Accepts(c) /\ seen' = Seen(c) /\ outstanding' = <<c>>
        /\ UNCHANGED <<sent, buffered, cancelled, started, uses, dropped, control, request, tBuffered, routing>>
    BY <1>3 DEF ServiceTakesResponse, TakesForRequest, histVars
  <2>2. Mode = "service" /\ Mode' = "forwarded"
    BY <2>1 DEF Mode
  <2>3. ~Acknowledged'
    BY <2>1, <2>2 DEF LateInv, NotYetAccepted, Acknowledged
  <2>4. Out = <<>> /\ Out' = <<c>> /\ Kept' = Kept /\ Mid' = Mid
    BY <2>1, <2>2, <2>3 DEF Out, Kept, Mid, InTurn
  <2> QED
    BY <2>1, <2>4 DEF MoveRead, Moves
<1>4. CASE ForwardLands \/ ForwardGivesUp
  <2>1. /\ UNCHANGED <<sent, inbox, buffered, started, uses, seen, cancelled, dropped>>
        /\ UNCHANGED <<routing, outstanding, tBuffered, control, request>>
    BY <1>4 DEF ForwardLands, ForwardGivesUp, histVars, turnVars
  <2>2. Mode' = Mode /\ (Acknowledged' <=> Acknowledged)
    BY <1>4, <2>1 DEF ForwardLands, ForwardGivesUp, Mode, Phases, InTurn, Acknowledged
  <2> QED
    BY <2>1, <2>2, PlacesSame DEF Same, Moves
<1>5. CASE InlineContinues \/ InlineToChild \/ \E action \in {"done", "park"} : InlineSettles(action)
  <2>1. /\ UNCHANGED <<sent, inbox, buffered, started, uses, seen, cancelled, dropped, tBuffered>>
        /\ d = "inline" /\ d' \in {"await", "parked", "ended"}
    BY <1>5 DEF InlineContinues, InlineToChild, InlineSettles, DriverTakes, histVars
  <2>2. tBuffered = <<>>
    BY <2>1 DEF LateInv
  <2>3. UNCHANGED <<Mid, Out, Kept>>
    BY <2>1, <2>2 DEF Mid, Out, Kept, Mode, InTurn
  <2> QED
    BY <2>1, <2>3 DEF Same, Moves
<1>6. CASE \E inline \in BOOLEAN : ParkedTakesControl(inline)
  <2>1. /\ UNCHANGED <<sent, inbox, buffered, seen, cancelled, dropped>> /\ d = "parked"
        /\ \/ /\ d' \in {"inline", "await"} /\ tBuffered' = <<>> /\ Use({})
              /\ started' = started \o <<>>
           \/ d' = "ended" /\ UNCHANGED <<uses, started>>
    BY <1>6 DEF ParkedTakesControl, StartTurn
  <2>2. started \o <<>> = started
    BY ConcatEmptySeq DEF Queues
  <2>3. Use({}) => uses' = uses
    BY DEF Use, Queues
  <2>4. CASE d' = "ended"
    BY <2>1, <2>2, <2>3, <2>4 DEF MoveEnd, Moves
  <2>5. CASE d' \in {"inline", "await"}
    <3>1. UNCHANGED <<Mid, Out, Kept>>
      BY <2>1, <2>5 DEF Mid, Out, Kept, Mode, InTurn
    <3>2. UNCHANGED <<started, uses>>
      BY <2>1, <2>2, <2>3
    <3> QED
      BY <2>1, <3>1, <3>2 DEF Same, Moves
  <2> QED
    BY <2>1, <2>4, <2>5
<1>7. CASE ParkedTakesBuffered
  <2>1. /\ UNCHANGED <<sent, inbox, seen, cancelled, started, uses>> /\ d = "parked" /\ buffered # <<>>
        /\ \/ d' = d /\ buffered' = Tail(buffered) /\ dropped' = dropped \cup {Head(buffered)}
           \/ /\ d' = "routing" /\ dropped' = dropped /\ routing' = SubSeq(buffered, 1, MergeLen(buffered))
              /\ buffered' = SubSeq(buffered, MergeLen(buffered) + 1, Len(buffered))
    BY <1>7 DEF ParkedTakesBuffered
  <2>2. MergeLen(buffered) \in 0..Len(buffered)
    BY <2>1, MergeTakes DEF Queues
  <2>3. UNCHANGED <<Out, Kept>> /\ Mid = <<>> /\ (d' = d => Mid' = Mid) /\ (d' = "routing" => Mid' = routing')
    BY <2>1 DEF Mid, Out, Kept, Mode, InTurn
  <2> HIDE DEF MergeLen
  <2> QED
    BY <2>1, <2>2, <2>3 DEF MovePark, Moves
<1>8. CASE RoutedAway \/ \E inline \in BOOLEAN : RoutedToTurn(inline)
  <2>1. /\ UNCHANGED <<sent, inbox, buffered, seen, cancelled, dropped>> /\ d = "routing"
        /\ \/ /\ d' = "parked" /\ started' = started
              /\ Use(ToChild(routing) \cup {x \in ToSet(routing) : x.prompt})
              /\ CancelsTurn(routing) \/ Remainder(routing) = <<>>
           \/ /\ d' \in {"inline", "await"} /\ tBuffered' = <<>>
              /\ started' = started \o Remainder(routing) /\ Use(ToSet(routing))
    BY <1>8 DEF RoutedAway, RoutedToTurn, StartTurn
  <2>2. UNCHANGED <<Out, Kept>> /\ Mid = routing /\ Mid' = <<>>
    BY <2>1 DEF Mid, Out, Kept, Mode, InTurn
  <2> QED
    BY <2>1, <2>2 DEF MoveRoute, Moves
<1> QED
  BY <1>1, <1>2, <1>3, <1>4, <1>5, <1>6, <1>7, <1>8 DEF DriverNext

\* The turn and its children.
LEMMA TurnMoves ==
  ASSUME LateInv, Phases, ProtocolInv, TurnNext \/ \E c \in Calls : ChildAsks(c) \/ ChildSettles(c)
  PROVE  Moves
<1>1. /\ UNCHANGED <<sent, inbox, buffered, seen, cancelled, dropped, routing, request, outstanding, d, back, started>>
      /\ Mode' = Mode
  BY DEF TurnNext, TurnClaims, TurnReadsCancel, TurnSettles, TurnCancels, TurnDispatches, TurnFails, TurnRequests,
         TurnLeavesWait, TurnReadsChild, TurnIgnoresDelivery, TurnAccepts, ChildAsks, ChildSettles, TurnOnly, driverVars,
         histVars, Mode
<1>2. CASE TurnAccepts
  <2> DEFINE ds == <<Head(tInbox).what>>
  <2>1. Mode = "forwarded" /\ ~Acknowledged /\ outstanding = ds
    BY <1>2, AcceptsOutstanding
  <2>2. Acknowledged'
    BY <1>2, LateAccepted
  <2>3. /\ Use(ToChild(ds) \cup {c \in ToSet(ds) : c.prompt})
        /\ (tBuffered' = tBuffered /\ CancelsTurn(ds)) \/ tBuffered' = tBuffered \o Remainder(ds)
    BY <1>2 DEF TurnAccepts
  <2> HIDE DEF ds
  <2>4. Out = ds /\ Out' = <<>> /\ Kept = tBuffered /\ Kept' = tBuffered' /\ Mid' = Mid
    BY <1>1, <2>1, <2>2 DEF Out, Kept, Mid, InTurn
  <2> QED
    BY <1>1, <2>3, <2>4 DEF MoveAccept, Moves
<1>3. CASE ~TurnAccepts
  <2>1. UNCHANGED <<tBuffered, uses>>
    BY <1>3 DEF TurnNext, TurnClaims, TurnReadsCancel, TurnSettles, TurnCancels, TurnDispatches, TurnFails, TurnRequests,
         TurnLeavesWait, TurnReadsChild, TurnIgnoresDelivery, ChildAsks, ChildSettles, histVars
  <2>2. control' = control \/ \E m : Send(m) /\ m.kind # "accepted"
    <3>1. \/ control' = control
          \/ \E i : Send(Msg("request", i)) \/ Send(Msg("cancelled", i)) \/ Send(Msg("error", i))
          \/ \E a : Send(Result(a))
      BY <1>3 DEF TurnNext, TurnClaims, TurnReadsCancel, TurnSettles, TurnCancels, TurnDispatches, TurnFails, TurnRequests,
         TurnLeavesWait, TurnReadsChild, TurnIgnoresDelivery, ChildAsks, ChildSettles, Finish
    <3>2. /\ \A i : Msg("request", i).kind # "accepted" /\ Msg("cancelled", i).kind # "accepted" /\ Msg("error", i).kind # "accepted"
          /\ \A a : Result(a).kind # "accepted"
      BY DEF Msg, Result
    <3> QED
      BY <3>1, <3>2
  <2>3. Acknowledged' <=> Acknowledged
    <3>1. CASE control' = control
      BY <1>1, <3>1 DEF Acknowledged
    <3>2. CASE \E m : Send(m) /\ m.kind # "accepted"
      <4>1. PICK m : Send(m) /\ m.kind # "accepted"
        BY <3>2
      <4>2. Range(control') = Range(control) \cup {m}
        BY <4>1, ControlSent DEF Phases
      <4> QED
        BY <1>1, <4>1, <4>2 DEF Acknowledged
    <3> QED
      BY <2>2, <3>1, <3>2
  <2> QED
    BY <1>1, <2>1, <2>3, PlacesSame DEF Same, Moves
<1> QED
  BY <1>2, <1>3

\* Every step moves deliveries in one of these ways.
LEMMA StepMoves ==
  ASSUME LateInv, Phases, ProtocolInv, Contents, Queues, [Next]_vars
  PROVE  Moves
<1>1. CASE UNCHANGED vars \/ \E c \in Commands : SendCommand(c)
  <2>1. /\ UNCHANGED <<buffered, seen, cancelled, routing, request, outstanding, d, back, started, uses, dropped>>
        /\ UNCHANGED <<control, tBuffered>>
    BY <1>1 DEF vars, SendCommand, driverVars, turnVars, histVars
  <2>2. UNCHANGED <<Mid, Out, Kept>>
    BY <2>1, PlacesSame DEF Mode, Acknowledged
  <2>3. CASE UNCHANGED vars
    BY <2>1, <2>2, <2>3 DEF vars, Same, Moves
  <2>4. CASE \E c \in Commands : SendCommand(c)
    <3>1. PICK c \in Commands : c \notin ToSet(sent) /\ sent' = Append(sent, c) /\ inbox' = Append(inbox, c)
      BY <2>4 DEF SendCommand
    <3>2. c \notin Range(sent)
      BY <3>1, SetOfQueue
    <3> QED
      BY <2>1, <2>2, <3>1, <3>2 DEF MoveSend, Moves
  <2> QED
    BY <1>1, <2>3, <2>4
<1> QED
  BY <1>1, DriverMoves, TurnMoves DEF Next

\* A session that has ended stays ended and moves nothing.
LEMMA EndedStays ==
  ASSUME Phases, d = "ended", [Next]_vars
  PROVE  UNCHANGED vars
<1>1. t = "finished"
  BY DEF Phases
<1>2. ~DriverNext
  BY DEF DriverNext, ReceiverReadsCommand, InlineReadsCommand, ParkedReadsCommand, ForwardLands, ForwardGivesUp,
         AwaitReadsControl, ServiceReadsControl, ServiceTakesResponse,
         ForwardedReadsControl, InlineSettles, InlineContinues, InlineToChild, ParkedTakesControl, ParkedTakesBuffered,
         RoutedToTurn, RoutedAway, InTurn
<1>3. ~TurnNext /\ ~ \E c \in Calls : ChildAsks(c) \/ ChildSettles(c)
  BY <1>1 DEF TurnNext, TurnClaims, TurnReadsCancel, TurnSettles, TurnCancels, TurnDispatches, TurnFails, TurnRequests,
         TurnLeavesWait, TurnReadsChild, TurnIgnoresDelivery, TurnAccepts, ChildAsks, ChildSettles, Running, Waiting
<1>4. ~ \E c \in Commands : SendCommand(c)
  BY DEF SendCommand
<1> QED
  BY <1>2, <1>3, <1>4 DEF Next

\* The places hold deliveries.
LEMMA PlacesTyped ==
  ASSUME Queues
  PROVE  /\ Mid \in Seq(Deliveries) /\ Out \in Seq(Deliveries) /\ Kept \in Seq(Deliveries)
         /\ Len(Out) <= 1 /\ Distinct(Out)
<1>1. <<>> \in Seq(Deliveries)
  OBVIOUS
<1>2. Mid \in Seq(Deliveries) /\ Out \in Seq(Deliveries) /\ Kept \in Seq(Deliveries)
  BY <1>1 DEF Mid, Out, Kept, Queues
<1>3. Len(Out) <= 1
  <2>1. Out = <<>> \/ Out = outstanding
    BY DEF Out
  <2> QED
    BY <2>1, ShortSequences DEF Queues
<1>4. Distinct(Out)
  <2>1. DOMAIN Out = 1..Len(Out) /\ Len(Out) \in Nat
    BY <1>2, Indices
  <2>2. \A i, j \in 1..Len(Out) : i = j
    BY <1>3, <2>1
  <2> QED
    BY <2>1, <2>2 DEF Distinct
<1> QED
  BY <1>2, <1>3, <1>4

-----------------------------------------------------------------------------
(* No delivery is in two places, and one that was used is in none.         *)

Used == {c \in Deliveries : uses[c] > 0}
Apart(A, B) == \A x \in A : x \notin B
AllApart(S, I, B, M, O, K, U) ==
  /\ Apart(U, I \cup B \cup M \cup O \cup K) /\ Apart(I, B \cup M \cup O \cup K)
  /\ Apart(B, M \cup O \cup K) /\ Apart(M, O \cup K) /\ Apart(O, K)
  /\ I \cup B \cup M \cup O \cup K \subseteq S
LiveInv ==
  d # "ended" =>
    /\ Distinct(inbox) /\ Distinct(buffered) /\ Distinct(Kept)
    /\ AllApart(Range(sent), Range(inbox), Range(buffered), Range(Mid), Range(Out), Range(Kept), Used)
UseInv ==
  /\ \A c \in Deliveries : uses[c] <= 1
  /\ Used \subseteq Range(sent)

\* What is counted as used has been used, and nothing else.
LEMMA UsesMarked ==
  ASSUME NEW U \in SUBSET Deliveries, uses \in [Deliveries -> Nat], Use(U)
  PROVE  /\ Used' = Used \cup U
         /\ UseInv /\ Apart(Used, U) => \A c \in Deliveries : uses'[c] <= 1
<1>1. \A c \in Deliveries : uses[c] \in Nat /\ uses'[c] = uses[c] + (IF c \in U THEN 1 ELSE 0)
  BY DEF Use
<1>2. \A c \in Deliveries : uses'[c] > 0 <=> (uses[c] > 0 \/ c \in U)
  BY <1>1
<1>3. Used' = Used \cup U
  BY <1>2 DEF Used
<1>4. ASSUME UseInv, Apart(Used, U), NEW c \in Deliveries PROVE uses'[c] <= 1
  <2>1. CASE c \in U
    <3>1. ~(uses[c] > 0)
      BY <1>4, <2>1 DEF Apart, Used
    <3> QED
      BY <1>1, <2>1, <3>1
  <2>2. CASE c \notin U
    BY <1>1, <1>4, <2>2 DEF UseInv
  <2> QED
    BY <2>1, <2>2
<1> QED
  BY <1>3, <1>4

\* What goes back in front of the buffer.
LEMMA ReturnFront ==
  ASSUME Queues, MoveReturn
  PROVE  \E front \in Seq(Deliveries) :
           /\ buffered' = front \o buffered
           /\ Range(front) \subseteq {c \in Range(Kept) \cup Range(Out) : c.did = NoTask \/ c.task \notin cancelled}
           /\ (Kept' = Kept /\ Range(front) \subseteq Range(Out)) \/ Kept' = <<>>
           /\ Distinct(Kept) /\ Apart(Range(Out), Range(Kept)) => Distinct(front)
<1> DEFINE k == Keep(Kept, cancelled)
           o == Keep(Out, cancelled)
           Fresh == {c \in Range(Kept) \cup Range(Out) : c.did = NoTask \/ c.task \notin cancelled}
<1>1. Kept \in Seq(Deliveries) /\ Out \in Seq(Deliveries) /\ Distinct(Out)
  BY PlacesTyped
<1>2. /\ k \in Seq(Deliveries) /\ Subsequence(k, Kept) /\ o \in Seq(Deliveries) /\ Subsequence(o, Out)
      /\ Range(k) \subseteq Range(Kept) /\ Range(o) \subseteq Range(Out) /\ Range(k) \subseteq Fresh /\ Range(o) \subseteq Fresh
  BY <1>1, KeepIsPart
<1> HIDE DEF k, o, Fresh
<1>3. Distinct(o) /\ (Distinct(Kept) => Distinct(k))
  BY <1>1, <1>2, PartOfQueue
<1>4. /\ k \o o \in Seq(Deliveries) /\ Range(k \o o) = Range(k) \cup Range(o)
      /\ Distinct(Kept) /\ Apart(Range(Out), Range(Kept)) => Distinct(k \o o)
  <2>1. /\ k \o o \in Seq(Deliveries) /\ Range(k \o o) = Range(k) \cup Range(o)
        /\ Distinct(k) /\ Distinct(o) /\ Range(k) \cap Range(o) = {} => Distinct(k \o o)
    BY <1>2, Joined
  <2>2. Apart(Range(Out), Range(Kept)) => Range(k) \cap Range(o) = {}
    BY <1>2 DEF Apart
  <2> QED
    BY <1>3, <2>1, <2>2
<1>5. \/ buffered' = o \o buffered /\ Kept' = Kept
      \/ buffered' = (k \o o) \o buffered /\ Kept' = <<>>
      \/ buffered' = k \o buffered /\ Kept' = <<>>
  BY DEF MoveReturn, k, o
<1>6. CASE buffered' = o \o buffered /\ Kept' = Kept
  BY <1>2, <1>3, <1>6 DEF Fresh
<1>7. CASE buffered' = (k \o o) \o buffered /\ Kept' = <<>>
  BY <1>2, <1>4, <1>7 DEF Fresh
<1>8. CASE buffered' = k \o buffered /\ Kept' = <<>>
  BY <1>2, <1>3, <1>8 DEF Fresh
<1> QED
  BY <1>5, <1>6, <1>7, <1>8

\* No move brings a delivery to two places.
LEMMA MovesKeepApart ==
  ASSUME Queues, LiveInv, UseInv, d # "ended", Moves
  PROVE  LiveInv' /\ UseInv'
<1> DEFINE I == Range(inbox)
           B == Range(buffered)
           M == Range(Mid)
           O == Range(Out)
           K == Range(Kept)
           S == Range(sent)
           Fine == /\ Distinct(inbox') /\ Distinct(buffered') /\ Distinct(Kept')
                   /\ AllApart(S', I', B', M', O', K', Used')
                   /\ UseInv'
<1>1. /\ Distinct(inbox) /\ Distinct(buffered) /\ Distinct(Kept)
      /\ AllApart(S, I, B, M, O, K, Used)
  BY DEF LiveInv
<1>2. /\ inbox \in Seq(Commands) /\ sent \in Seq(Commands) /\ buffered \in Seq(Deliveries)
      /\ Mid \in Seq(Deliveries) /\ Out \in Seq(Deliveries) /\ Kept \in Seq(Deliveries)
      /\ uses \in [Deliveries -> Nat]
      /\ M \subseteq Deliveries /\ O \subseteq Deliveries
  BY PlacesTyped, RangeOfQueue DEF Queues
<1>3. Range(<<>>) = {} /\ Distinct(<<>>) /\ (\A x : Range(<<x>>) = {x})
  BY RangeOfFew, NoElement
<1>4. uses' = uses => Used' = Used
  BY DEF Used
<1>5. uses' = uses /\ S \subseteq S' => UseInv'
  BY <1>4 DEF UseInv
<1>6. Fine => LiveInv' /\ UseInv'
  BY DEF LiveInv
<1> USE DEF AllApart, Apart
<1>7. CASE MoveSend
  <2>1. PICK c \in Commands : c \notin S /\ sent' = Append(sent, c) /\ inbox' = Append(inbox, c)
    BY <1>7 DEF MoveSend
  <2>2. UNCHANGED <<buffered, Mid, Out, Kept, uses>>
    BY <1>7 DEF MoveSend
  <2>3. c \notin I
    BY <1>1, <2>1
  <2>4. S' = S \cup {c} /\ I' = I \cup {c} /\ Distinct(inbox')
    BY <1>1, <1>2, <2>1, <2>3, OneMore
  <2>5. B' = B /\ M' = M /\ O' = O /\ K' = K
    BY <2>2
  <2>6. Used' = Used /\ UseInv' /\ c \notin Used
    BY <1>4, <1>5, <2>1, <2>2, <2>4 DEF UseInv
  <2> HIDE DEF I, B, M, O, K, S
  <2>7. AllApart(S', I', B', M', O', K', Used')
    BY <1>1, <2>1, <2>4, <2>5, <2>6
  <2> QED
    BY <1>1, <1>6, <2>2, <2>4, <2>6, <2>7
<1>8. CASE MoveRead
  <2> DEFINE c == Head(inbox)
  <2>1. /\ inbox # <<>> /\ inbox' = Tail(inbox) /\ UNCHANGED <<sent, Kept, uses>>
    BY <1>8 DEF MoveRead
  <2>2. I = {c} \cup I' /\ c \notin I' /\ Distinct(inbox') /\ c \in Commands
    <3>1. I = {c} \cup I' /\ c \notin I' /\ Subsequence(inbox', inbox) /\ inbox' \in Seq(Commands) /\ c \in Commands
      BY <1>1, <1>2, <2>1, RangeOfTail, TailIsPart, QueueClosed
    <3> QED
      BY <1>1, <1>2, <3>1, PartOfQueue
  <2>3. IsDelivery(c) => c \in Deliveries
    BY <2>2 DEF Deliveries
  <2>4. c \notin B
    BY <1>1, <2>2
  <2>5. /\ Distinct(buffered')
        /\ \/ B' = B \cup {c} /\ M' = M /\ O' = O
           \/ B' = B /\ M' = M /\ O' = {c}
           \/ B' = B /\ M' = {c} /\ O' = O
           \/ B' \subseteq B /\ M' = M /\ O' = O
    <3>1. CASE IsDelivery(c) /\ buffered' = Append(buffered, c) /\ UNCHANGED <<Mid, Out>>
      <4>1. B' = B \cup {c} /\ Distinct(buffered')
        BY <1>1, <1>2, <2>3, <2>4, <3>1, OneMore
      <4> QED
        BY <3>1, <4>1
    <3>2. CASE Out' = <<c>> /\ UNCHANGED <<buffered, Mid>>
      BY <1>1, <1>3, <3>2
    <3>3. CASE Mid' = <<c>> /\ UNCHANGED <<buffered, Out>>
      BY <1>1, <1>3, <3>3
    <3>4. CASE UNCHANGED <<buffered, Mid, Out>>
      BY <1>1, <3>4
    <3>5. CASE buffered' = Keep(buffered, cancelled') /\ UNCHANGED <<Mid, Out>>
      <4>1. buffered' \in Seq(Deliveries) /\ Subsequence(buffered', buffered)
        BY <1>2, <3>5, KeepIsPart
      <4>2. B' \subseteq B /\ Distinct(buffered')
        BY <1>1, <1>2, <4>1, PartOfQueue
      <4> QED
        BY <3>5, <4>2
    <3> QED
      BY <1>8, <3>1, <3>2, <3>3, <3>4, <3>5 DEF MoveRead
  <2>6. S' = S /\ K' = K /\ Used' = Used /\ UseInv'
    BY <1>4, <1>5, <2>1
  <2> HIDE DEF I, B, M, O, K, S, c
  <2>7. AllApart(S', I', B', M', O', K', Used')
    BY <1>1, <2>2, <2>5, <2>6
  <2> QED
    BY <1>1, <1>6, <2>1, <2>2, <2>5, <2>6, <2>7
<1>9. CASE MoveOffer
  <2>1. PICK i \in 1..Len(buffered) : Out' = <<buffered[i]>> /\ buffered' = RemoveAt(buffered, i)
    BY <1>9 DEF MoveOffer
  <2>2. UNCHANGED <<sent, inbox, Mid, Kept, uses>>
    BY <1>9 DEF MoveOffer
  <2> DEFINE x == buffered[i]
  <2>3. x \in B /\ x \notin B' /\ B' \subseteq B /\ Distinct(buffered') /\ O' = {x}
    <3>1. buffered' \in Seq(Deliveries) /\ Subsequence(buffered', buffered) /\ x \notin B'
      BY <1>1, <1>2, <2>1, RestIsPart
    <3>2. x \in B
      BY <1>2, Indices DEF Range
    <3> QED
      BY <1>1, <1>2, <1>3, <2>1, <3>1, <3>2, PartOfQueue
  <2>4. S' = S /\ I' = I /\ M' = M /\ K' = K /\ Used' = Used /\ UseInv'
    BY <1>4, <1>5, <2>2
  <2> HIDE DEF I, B, M, O, K, S, x
  <2>5. AllApart(S', I', B', M', O', K', Used')
    BY <1>1, <2>3, <2>4
  <2> QED
    BY <1>1, <1>6, <2>2, <2>3, <2>4, <2>5
<1>10. CASE MoveReturn
  <2>1. PICK front \in Seq(Deliveries) :
           /\ buffered' = front \o buffered /\ Range(front) \subseteq K \cup O
           /\ (Kept' = Kept /\ Range(front) \subseteq O) \/ Kept' = <<>>
           /\ Distinct(Kept) /\ Apart(O, K) => Distinct(front)
    BY <1>10, ReturnFront
  <2>2. UNCHANGED <<sent, inbox, Mid, uses>> /\ Out' = <<>>
    BY <1>10 DEF MoveReturn
  <2> DEFINE F == Range(front)
  <2>3. B' = F \cup B /\ Distinct(buffered')
    <3>1. Distinct(front) /\ F \cap B = {}
      BY <1>1, <2>1
    <3>2. B' = F \cup B /\ (Distinct(front) /\ Distinct(buffered) /\ F \cap B = {} => Distinct(buffered'))
      BY <1>2, <2>1, Joined
    <3> QED
      BY <1>1, <3>1, <3>2
  <2>4. S' = S /\ I' = I /\ M' = M /\ Used' = Used /\ UseInv' /\ O' = {}
    BY <1>3, <1>4, <1>5, <2>2
  <2>5. Distinct(Kept') /\ F \subseteq K \cup O /\ ((K' = K /\ F \subseteq O) \/ K' = {})
    BY <1>1, <1>3, <2>1
  <2> HIDE DEF I, B, M, O, K, S, F
  <2>6. AllApart(S', I', B', M', O', K', Used')
    BY <1>1, <2>3, <2>4, <2>5
  <2> QED
    BY <1>1, <1>6, <2>2, <2>3, <2>4, <2>5, <2>6
<1>11. CASE MoveAccept
  <2> DEFINE U == ToChild(Out) \cup {c \in ToSet(Out) : c.prompt}
             R == Range(Remainder(Out))
  <2>1. /\ UNCHANGED <<sent, inbox, buffered, Mid>> /\ Out' = <<>> /\ Use(U)
        /\ Kept' = Kept \/ Kept' = Kept \o Remainder(Out)
    BY <1>11 DEF MoveAccept
  <2>2. /\ U \subseteq O /\ R \subseteq O /\ Apart(U, R)
        /\ Remainder(Out) \in Seq(Deliveries) /\ Distinct(Remainder(Out))
    <3>1. /\ Remainder(Out) \in Seq(Deliveries) /\ Subsequence(Remainder(Out), Out)
          /\ R = {c \in O : ~c.prompt /\ c \notin ToChild(Out)} /\ ToChild(Out) \subseteq O
      BY <1>2, RemainderIsPart
    <3>2. Distinct(Remainder(Out))
      BY <1>2, <3>1, PartOfQueue, PlacesTyped
    <3> QED
      BY <3>1, <3>2, SetOfQueue
  <2>3. U \subseteq Deliveries
    BY <1>2, <2>2
  <2>4. Distinct(Kept') /\ K' \subseteq K \cup R
    <3>1. /\ Range(Kept \o Remainder(Out)) = K \cup R
          /\ Distinct(Kept) /\ Distinct(Remainder(Out)) /\ K \cap R = {} => Distinct(Kept \o Remainder(Out))
      BY <1>2, <2>2, Joined
    <3>2. K \cap R = {}
      BY <1>1, <2>2
    <3> QED
      BY <1>1, <2>1, <2>2, <3>1, <3>2
  <2> HIDE DEF U, R
  <2>5. Used' = Used \cup U /\ UseInv'
    <3>1. Used' = Used \cup U /\ \A c \in Deliveries : uses'[c] <= 1
      <4>1. Apart(Used, U)
        BY <1>1, <2>2
      <4> QED
        BY <1>2, <2>1, <2>3, <4>1, UsesMarked
    <3>2. U \subseteq S
      BY <1>1, <2>2
    <3> QED
      BY <2>1, <3>1, <3>2 DEF UseInv
  <2>6. S' = S /\ I' = I /\ M' = M /\ B' = B /\ O' = {}
    BY <1>3, <2>1
  <2> HIDE DEF I, B, M, O, K, S
  <2>7. AllApart(S', I', B', M', O', K', Used')
    BY <1>1, <2>2, <2>4, <2>5, <2>6
  <2> QED
    BY <1>1, <1>6, <2>1, <2>4, <2>5, <2>7
<1>12. CASE MovePark
  <2>1. UNCHANGED <<sent, inbox, Out, Kept, uses>>
    BY <1>12 DEF MovePark
  <2>2. Distinct(buffered') /\ B' \subseteq B /\ (M' = M \/ (M' \subseteq B /\ Apart(M', B')))
    <3>1. CASE \E k \in 0..Len(buffered) : /\ Mid' = SubSeq(buffered, 1, k)
                                           /\ buffered' = SubSeq(buffered, k + 1, Len(buffered))
      <4>1. PICK k \in 0..Len(buffered) : Mid' = SubSeq(buffered, 1, k) /\ buffered' = SubSeq(buffered, k + 1, Len(buffered))
        BY <3>1
      <4>2. /\ Mid' \in Seq(Deliveries) /\ Subsequence(Mid', buffered)
            /\ buffered' \in Seq(Deliveries) /\ Subsequence(buffered', buffered)
            /\ \A i \in DOMAIN Mid', j \in DOMAIN buffered' :
                 \E a, b \in DOMAIN buffered : a < b /\ Mid'[i] = buffered[a] /\ buffered'[j] = buffered[b]
        <5> DEFINE u == SubSeq(buffered, 1, k)
                   w == SubSeq(buffered, k + 1, Len(buffered))
        <5>1. /\ u \in Seq(Deliveries) /\ Subsequence(u, buffered)
              /\ w \in Seq(Deliveries) /\ Subsequence(w, buffered)
              /\ \A i \in DOMAIN u, j \in DOMAIN w :
                   \E a, b \in DOMAIN buffered : a < b /\ u[i] = buffered[a] /\ w[j] = buffered[b]
          BY <1>2, CutQueue, ZenonT(40)
        <5>2. Mid' = u /\ buffered' = w
          BY <4>1
        <5> HIDE DEF u, w
        <5> QED
          BY <5>1, <5>2
      <4>3. Apart(M', B')
        <5> SUFFICES ASSUME NEW i \in DOMAIN Mid', NEW j \in DOMAIN buffered', Mid'[i] = buffered'[j] PROVE FALSE
          BY DEF Range
        <5>1. PICK a, b \in DOMAIN buffered : a < b /\ Mid'[i] = buffered[a] /\ buffered'[j] = buffered[b]
          BY <4>2
        <5>2. a = b
          BY <1>1, <5>1 DEF Distinct
        <5>3. a \in 1..Len(buffered) /\ Len(buffered) \in Nat
          BY <1>2, Indices
        <5> QED
          BY <5>1, <5>2, <5>3
      <4> QED
        BY <1>1, <1>2, <4>2, <4>3, PartOfQueue
    <3>2. CASE Mid' = Mid /\ buffered # <<>> /\ buffered' = Tail(buffered)
      <4>1. buffered' \in Seq(Deliveries) /\ Subsequence(buffered', buffered)
        BY <1>2, <3>2, TailIsPart, QueueClosed
      <4> QED
        BY <1>1, <1>2, <3>2, <4>1, PartOfQueue
    <3> QED
      BY <1>12, <3>1, <3>2 DEF MovePark
  <2>3. S' = S /\ I' = I /\ O' = O /\ K' = K /\ Used' = Used /\ UseInv'
    BY <1>4, <1>5, <2>1
  <2> HIDE DEF I, B, M, O, K, S
  <2>4. AllApart(S', I', B', M', O', K', Used')
    BY <1>1, <2>2, <2>3
  <2> QED
    BY <1>1, <1>6, <2>1, <2>2, <2>3, <2>4
<1>13. CASE MoveRoute
  <2>1. UNCHANGED <<sent, inbox, buffered, Out, Kept>> /\ Mid' = <<>>
    BY <1>13 DEF MoveRoute
  <2>2. PICK U \in SUBSET Deliveries : Use(U) /\ U \subseteq M
    <3>1. ToSet(Mid) = M /\ ToChild(Mid) \subseteq M
      BY <1>2, SetOfQueue, RemainderIsPart
    <3>2. Use(ToSet(Mid)) \/ Use(ToChild(Mid) \cup {c \in ToSet(Mid) : c.prompt})
      BY <1>13 DEF MoveRoute
    <3>3. /\ ToSet(Mid) \in SUBSET Deliveries /\ ToSet(Mid) \subseteq M
          /\ ToChild(Mid) \cup {c \in ToSet(Mid) : c.prompt} \in SUBSET Deliveries
          /\ ToChild(Mid) \cup {c \in ToSet(Mid) : c.prompt} \subseteq M
      BY <1>2, <3>1
    <3> QED
      BY <3>2, <3>3
  <2>3. Used' = Used \cup U /\ UseInv'
    <3>1. Used' = Used \cup U /\ \A c \in Deliveries : uses'[c] <= 1
      <4>1. Apart(Used, U)
        BY <1>1, <2>2
      <4> QED
        BY <1>2, <2>2, <4>1, UsesMarked
    <3>2. U \subseteq S
      BY <1>1, <2>2
    <3> QED
      BY <2>1, <3>1, <3>2 DEF UseInv
  <2>4. S' = S /\ I' = I /\ B' = B /\ O' = O /\ K' = K /\ M' = {}
    BY <1>3, <2>1
  <2> HIDE DEF I, B, M, O, K, S
  <2>5. AllApart(S', I', B', M', O', K', Used')
    BY <1>1, <2>2, <2>3, <2>4
  <2> QED
    BY <1>1, <1>6, <2>1, <2>3, <2>5
<1>14. CASE Same
  <2>1. UNCHANGED <<sent, inbox, buffered, Mid, Out, Kept, uses>>
    BY <1>14 DEF Same
  <2> QED
    BY <1>1, <1>4, <1>5, <1>6, <2>1
<1>15. CASE MoveEnd
  BY <1>5, <1>15 DEF MoveEnd, LiveInv
<1> QED
  BY <1>7, <1>8, <1>9, <1>10, <1>11, <1>12, <1>13, <1>14, <1>15 DEF Moves

-----------------------------------------------------------------------------
(* Of the copies of a task delivery one is admitted, and none of a task    *)
(* that the driver knows to be cancelled.                                  *)

InHand == Range(buffered) \cup Range(Mid) \cup Range(Out) \cup Range(Kept)
Admitted == Used \cup (IF d = "ended" THEN {} ELSE InHand)
OnceInv ==
  /\ d # "ended" => \A c \in Admitted : c.did # NoTask => c.did \in seen
  /\ \A x, y \in Admitted : x.did # NoTask /\ x.did = y.did => x = y
FreshInv ==
  d # "ended" => \A c \in Range(buffered) \cup Range(Mid) : c.did = NoTask \/ c.task \notin cancelled

\* What takeBufferedTurnDelivery leaves and takes.
LEMMA ParkRanges ==
  ASSUME Queues, MovePark
  PROVE  Range(buffered') \subseteq Range(buffered) /\ Range(Mid') \subseteq Range(Mid) \cup Range(buffered)
<1> DEFINE B == Range(buffered)
<1>1. buffered \in Seq(Deliveries)
  BY DEF Queues
<1>2. ASSUME NEW k \in 0..Len(buffered)
      PROVE Range(SubSeq(buffered, 1, k)) \subseteq B /\ Range(SubSeq(buffered, k + 1, Len(buffered))) \subseteq B
  <2>1. /\ SubSeq(buffered, 1, k) \in Seq(Deliveries) /\ Subsequence(SubSeq(buffered, 1, k), buffered)
        /\ SubSeq(buffered, k + 1, Len(buffered)) \in Seq(Deliveries)
        /\ Subsequence(SubSeq(buffered, k + 1, Len(buffered)), buffered)
    BY <1>1, CutQueue
  <2> QED
    BY <1>1, <2>1, PartOfQueue
<1>3. buffered # <<>> => Range(Tail(buffered)) \subseteq B
  BY <1>1, RangeOfTail
<1> QED
  BY <1>2, <1>3 DEF MovePark

\* What a move admits.
LEMMA MovesAdmit ==
  ASSUME Queues, Moves, ~MoveEnd
  PROVE  \/ seen' = seen /\ Used' \cup InHand' \subseteq Used \cup InHand
         \/ \E c : Accepts(c) /\ seen' = Seen(c) /\ Used' \cup InHand' \subseteq Used \cup InHand \cup {c}
<1> DEFINE B == Range(buffered)
           M == Range(Mid)
           O == Range(Out)
           K == Range(Kept)
<1>1. /\ buffered \in Seq(Deliveries) /\ inbox \in Seq(Commands) /\ uses \in [Deliveries -> Nat]
      /\ Mid \in Seq(Deliveries) /\ Out \in Seq(Deliveries) /\ Kept \in Seq(Deliveries)
      /\ M \subseteq Deliveries /\ O \subseteq Deliveries
  BY PlacesTyped, RangeOfQueue DEF Queues
<1>2. Range(<<>>) = {} /\ (\A x : Range(<<x>>) = {x})
  BY RangeOfFew
<1>3. uses' = uses => Used' = Used
  BY DEF Used
<1>4. ASSUME NEW X, B' \cup M' \cup O' \cup K' \subseteq B \cup M \cup O \cup K \cup X, Used' \subseteq Used \cup M \cup O
      PROVE  Used' \cup InHand' \subseteq Used \cup InHand \cup X
  BY <1>4 DEF InHand
<1>5. CASE MoveSend \/ Same
  BY <1>3, <1>5 DEF MoveSend, Same, InHand
<1>6. CASE MoveRead
  <2> DEFINE c == Head(inbox)
  <2>1. UNCHANGED <<Kept, uses>> /\ Used' = Used /\ inbox # <<>>
    BY <1>3, <1>6 DEF MoveRead
  <2>2. CASE IsDelivery(c) /\ Accepts(c) /\ seen' = Seen(c)
             /\ \/ buffered' = Append(buffered, c) /\ UNCHANGED <<Mid, Out>>
                \/ Out' = <<c>> /\ UNCHANGED <<buffered, Mid>>
                \/ Mid' = <<c>> /\ UNCHANGED <<buffered, Out>>
    <3>1. c \in Deliveries
      BY <1>1, <2>1, <2>2, QueueClosed DEF Deliveries
    <3>2. Range(Append(buffered, c)) = B \cup {c}
      BY <1>1, <3>1, OneMore
    <3>3. B' \cup M' \cup O' \cup K' \subseteq B \cup M \cup O \cup K \cup {c}
      BY <1>2, <2>1, <2>2, <3>2
    <3> QED
      BY <1>4, <2>1, <2>2, <3>3
  <2>3. CASE seen' = seen /\ UNCHANGED <<Mid, Out>> /\ (buffered' = buffered \/ buffered' = Keep(buffered, cancelled'))
    <3>1. Range(Keep(buffered, cancelled')) \subseteq B
      BY <1>1, KeepIsPart
    <3> QED
      BY <2>1, <2>3, <3>1 DEF InHand
  <2> QED
    BY <1>6, <2>2, <2>3 DEF MoveRead
<1>7. CASE MoveOffer
  <2>1. PICK i \in 1..Len(buffered) : Out' = <<buffered[i]>> /\ buffered' = RemoveAt(buffered, i)
    BY <1>7 DEF MoveOffer
  <2>2. UNCHANGED <<Mid, Kept, uses, seen>>
    BY <1>7 DEF MoveOffer
  <2>3. B' \subseteq B /\ O' \subseteq B
    <3>1. buffered' \in Seq(Deliveries) /\ Subsequence(buffered', buffered)
      BY <1>1, <2>1, RestIsPart
    <3>2. buffered[i] \in B
      BY <1>1, Indices DEF Range
    <3> QED
      BY <1>1, <1>2, <2>1, <3>1, <3>2, PartOfQueue
  <2> QED
    BY <1>3, <2>2, <2>3 DEF InHand
<1>8. CASE MoveReturn
  <2>1. PICK front \in Seq(Deliveries) : /\ buffered' = front \o buffered /\ Range(front) \subseteq K \cup O
                                         /\ Kept' = Kept \/ Kept' = <<>>
    BY <1>8, ReturnFront
  <2>2. UNCHANGED <<Mid, uses, seen>> /\ Out' = <<>>
    BY <1>8 DEF MoveReturn
  <2>3. B' = Range(front) \cup B
    BY <1>1, <2>1, Joined
  <2> QED
    BY <1>2, <1>3, <2>1, <2>2, <2>3 DEF InHand
<1>9. CASE MoveAccept
  <2> DEFINE U == ToChild(Out) \cup {c \in ToSet(Out) : c.prompt}
  <2>1. /\ UNCHANGED <<buffered, Mid, seen>> /\ Out' = <<>> /\ Use(U)
        /\ Kept' = Kept \/ Kept' = Kept \o Remainder(Out)
    BY <1>9 DEF MoveAccept
  <2>2. Remainder(Out) \in Seq(Deliveries) /\ Range(Remainder(Out)) \subseteq O /\ ToChild(Out) \subseteq O /\ ToSet(Out) = O
    BY <1>1, RemainderIsPart, SetOfQueue
  <2>3. K' \subseteq K \cup O
    <3>1. Range(Kept \o Remainder(Out)) = K \cup Range(Remainder(Out))
      BY <1>1, <2>2, Joined
    <3> QED
      BY <2>1, <2>2, <3>1
  <2>4. U \subseteq O
    BY <2>2
  <2> HIDE DEF U
  <2>5. Used' = Used \cup U
    BY <1>1, <2>1, <2>4, UsesMarked
  <2> QED
    BY <1>2, <2>1, <2>3, <2>4, <2>5 DEF InHand
<1>10. CASE MovePark
  <2>1. UNCHANGED <<Out, Kept, uses, seen>>
    BY <1>10 DEF MovePark
  <2>2. B' \subseteq B /\ M' \subseteq M \cup B
    BY <1>10, ParkRanges
  <2> QED
    BY <1>3, <2>1, <2>2 DEF InHand
<1>11. CASE MoveRoute
  <2>1. UNCHANGED <<buffered, Out, Kept, seen>> /\ Mid' = <<>>
    BY <1>11 DEF MoveRoute
  <2>2. Used' \subseteq Used \cup M
    <3>1. ToSet(Mid) = M /\ ToChild(Mid) \subseteq M
      BY <1>1, SetOfQueue, RemainderIsPart
    <3>2. Use(ToSet(Mid)) \/ Use(ToChild(Mid) \cup {c \in ToSet(Mid) : c.prompt})
      BY <1>11 DEF MoveRoute
    <3>3. \A U \in SUBSET Deliveries : Use(U) => Used' = Used \cup U
      BY <1>1, UsesMarked
    <3>4. ToSet(Mid) \in SUBSET Deliveries /\ ToChild(Mid) \cup {c \in ToSet(Mid) : c.prompt} \in SUBSET Deliveries
      BY <1>1, <3>1
    <3> QED
      BY <3>1, <3>2, <3>3, <3>4
  <2> QED
    BY <1>2, <2>1, <2>2 DEF InHand
<1> QED
  BY <1>5, <1>6, <1>7, <1>8, <1>9, <1>10, <1>11 DEF Moves

\* No move admits a second copy of a task delivery.
LEMMA MovesKeepOnce ==
  ASSUME Queues, OnceInv, d # "ended", Moves
  PROVE  OnceInv'
<1>1. Admitted = Used \cup InHand /\ Admitted' \subseteq Used' \cup InHand'
  BY DEF Admitted
<1>2. CASE MoveEnd
  <2>1. Admitted' = Used
    BY <1>2 DEF MoveEnd, Admitted, Used
  <2> QED
    BY <1>1, <1>2, <2>1 DEF OnceInv, MoveEnd
<1>3. CASE seen' = seen /\ Used' \cup InHand' \subseteq Used \cup InHand
  BY <1>1, <1>3 DEF OnceInv
<1>4. CASE \E c : Accepts(c) /\ seen' = Seen(c) /\ Used' \cup InHand' \subseteq Used \cup InHand \cup {c}
  <2>1. PICK c : Accepts(c) /\ seen' = Seen(c) /\ Admitted' \subseteq Admitted \cup {c}
    BY <1>1, <1>4
  <2>2. c.did # NoTask => c.did \notin seen /\ seen' = seen \cup {c.did}
    BY <2>1 DEF Accepts, Seen
  <2>3. c.did = NoTask => seen' = seen
    BY <2>1 DEF Seen
  <2> QED
    BY <2>1, <2>2, <2>3 DEF OnceInv
<1> QED
  BY <1>2, <1>3, <1>4, MovesAdmit

\* No move brings a delivery of a cancelled task towards a turn.
LEMMA MovesKeepFresh ==
  ASSUME Queues, FreshInv, d # "ended", Moves
  PROVE  FreshInv'
<1> DEFINE B == Range(buffered)
           M == Range(Mid)
           Fresh(c) == c.did = NoTask \/ c.task \notin cancelled
<1>1. /\ buffered \in Seq(Deliveries) /\ inbox \in Seq(Commands) /\ \A c \in B \cup M : Fresh(c)
  BY DEF Queues, FreshInv
<1>2. Range(<<>>) = {} /\ (\A x : Range(<<x>>) = {x})
  BY RangeOfFew
<1>3. ASSUME cancelled' = cancelled, \A c \in B' \cup M' : c \in B \cup M \/ Fresh(c) PROVE FreshInv'
  BY <1>1, <1>3 DEF FreshInv
<1>4. CASE MoveSend \/ Same \/ MoveAccept
  BY <1>3, <1>4 DEF MoveSend, Same, MoveAccept
<1>5. CASE MoveRead
  <2> DEFINE c == Head(inbox)
  <2>1. CASE IsDelivery(c) /\ Accepts(c) /\ cancelled' = cancelled
             /\ \/ buffered' = Append(buffered, c) /\ UNCHANGED Mid
                \/ UNCHANGED <<buffered, Mid>>
                \/ Mid' = <<c>> /\ UNCHANGED buffered
    <3>1. c \in Deliveries
      BY <1>1, <1>5, <2>1, QueueClosed DEF Deliveries, MoveRead
    <3>2. Range(Append(buffered, c)) = B \cup {c}
      BY <1>1, <3>1, OneMore
    <3>3. Fresh(c)
      BY <2>1 DEF Accepts
    <3> QED
      BY <1>2, <1>3, <2>1, <3>2, <3>3
  <2>2. CASE UNCHANGED <<buffered, Mid, cancelled>>
    BY <1>3, <2>2
  <2>3. CASE buffered' = Keep(buffered, cancelled') /\ Mid = <<>> /\ Mid' = Mid
    <3>1. \A x \in B' : x.did = NoTask \/ x.task \notin cancelled'
      BY <1>1, <2>3, KeepIsPart
    <3> QED
      BY <1>2, <2>3, <3>1 DEF FreshInv
  <2> QED
    BY <1>5, <2>1, <2>2, <2>3 DEF MoveRead
<1>6. CASE MoveOffer
  <2>1. PICK i \in 1..Len(buffered) : buffered' = RemoveAt(buffered, i)
    BY <1>6 DEF MoveOffer
  <2>2. buffered' \in Seq(Deliveries) /\ Subsequence(buffered', buffered)
    BY <1>1, <2>1, RestIsPart
  <2>3. B' \subseteq B
    BY <1>1, <2>2, PartOfQueue
  <2> QED
    BY <1>3, <1>6, <2>3 DEF MoveOffer
<1>7. CASE MoveReturn
  <2>1. PICK front \in Seq(Deliveries) : buffered' = front \o buffered /\ \A c \in Range(front) : Fresh(c)
    BY <1>7, ReturnFront
  <2>2. B' = Range(front) \cup B
    BY <1>1, <2>1, Joined
  <2> QED
    BY <1>3, <1>7, <2>1, <2>2 DEF MoveReturn
<1>8. CASE MovePark
  <2>1. B' \subseteq B /\ M' \subseteq M \cup B
    BY <1>8, ParkRanges
  <2> QED
    BY <1>3, <1>8, <2>1 DEF MovePark
<1>9. CASE MoveRoute
  BY <1>2, <1>3, <1>9 DEF MoveRoute
<1>10. CASE MoveEnd
  BY <1>10 DEF MoveEnd, FreshInv
<1> QED
  BY <1>4, <1>5, <1>6, <1>7, <1>8, <1>9, <1>10 DEF Moves

-----------------------------------------------------------------------------
(* Messages keep the order in which they were sent, on their way from the  *)
(* inbox through the buffer to the turns they begin.                       *)

\* a comes before b in q.
Before(q, a, b) == \E i, j \in DOMAIN q : i < j /\ q[i] = a /\ q[j] = b
\* The messages of s, and those of A and B, come in the order of q.
Ordered(q, s) == \A k, l \in DOMAIN s : k < l /\ s[k].msg /\ s[l].msg => Before(q, s[k], s[l])
Precedes(q, A, B) == \A a \in A, b \in B : a.msg /\ b.msg => Before(q, a, b)
OrderInv ==
  /\ Distinct(sent) /\ Range(started) \subseteq Range(sent) /\ Ordered(sent, started)
  /\ d # "ended" =>
       /\ Subsequence(inbox, sent) /\ Ordered(sent, buffered) /\ Ordered(sent, Mid)
       /\ \A a \in Range(Out) \cup Range(Kept) : ~a.msg
       /\ Precedes(sent, Range(started), Range(Mid) \cup Range(buffered))
       /\ Precedes(sent, Range(Mid), Range(buffered))
       /\ \A a \in Range(started) \cup Range(Mid) \cup Range(buffered), b \in Range(inbox) :
            a.msg => Before(sent, a, b)

\* A part of an ordered queue is ordered.
LEMMA PartOrdered ==
  ASSUME NEW q, NEW s, NEW u, Ordered(q, s), Subsequence(u, s)
  PROVE  Ordered(q, u)
<1> SUFFICES ASSUME NEW k \in DOMAIN u, NEW l \in DOMAIN u, k < l, u[k].msg, u[l].msg PROVE Before(q, u[k], u[l])
  BY DEF Ordered
<1>1. PICK i, j \in DOMAIN s : i < j /\ u[k] = s[i] /\ u[l] = s[j]
  BY DEF Subsequence
<1> QED
  BY <1>1 DEF Ordered

\* A part of a part.
LEMMA PartOfPart ==
  ASSUME NEW q, NEW s, NEW u, Subsequence(s, q), Subsequence(u, s)
  PROVE  Subsequence(u, q)
<1>1. \A k \in DOMAIN u : u[k] \in Range(q)
  BY DEF Subsequence, Range
<1>2. ASSUME NEW k \in DOMAIN u, NEW l \in DOMAIN u, k < l
      PROVE \E i, j \in DOMAIN q : i < j /\ u[k] = q[i] /\ u[l] = q[j]
  <2>1. PICK i, j \in DOMAIN s : i < j /\ u[k] = s[i] /\ u[l] = s[j]
    BY <1>2 DEF Subsequence
  <2> QED
    BY <2>1 DEF Subsequence
<1> QED
  BY <1>1, <1>2 DEF Subsequence

\* Two ordered queues, the first before the second.
LEMMA JoinedOrdered ==
  ASSUME NEW q, NEW S, NEW a \in Seq(S), NEW b \in Seq(S),
         Ordered(q, a), Ordered(q, b), Precedes(q, Range(a), Range(b))
  PROVE  Ordered(q, a \o b)
<1> DEFINE u == a \o b
<1>1. /\ DOMAIN u = 1..(Len(a) + Len(b)) /\ Len(a) \in Nat /\ Len(b) \in Nat
      /\ DOMAIN a = 1..Len(a) /\ DOMAIN b = 1..Len(b)
      /\ \A i \in DOMAIN u : \/ i \in DOMAIN a /\ u[i] = a[i]
                             \/ i - Len(a) \in DOMAIN b /\ i > Len(a) /\ u[i] = b[i - Len(a)]
  BY Joined
<1> HIDE DEF u
<1> SUFFICES ASSUME NEW k \in DOMAIN u, NEW l \in DOMAIN u, k < l, u[k].msg, u[l].msg PROVE Before(q, u[k], u[l])
  BY DEF Ordered, u
<1>2. CASE l \in DOMAIN a /\ u[l] = a[l]
  <2>1. k \in DOMAIN a /\ u[k] = a[k]
    BY <1>1, <1>2
  <2> QED
    BY <1>2, <2>1 DEF Ordered
<1>3. CASE l - Len(a) \in DOMAIN b /\ l > Len(a) /\ u[l] = b[l - Len(a)]
  <2>1. CASE k \in DOMAIN a /\ u[k] = a[k]
    <3>1. u[k] \in Range(a) /\ u[l] \in Range(b)
      BY <1>3, <2>1 DEF Range
    <3> QED
      BY <3>1 DEF Precedes
  <2>2. CASE k - Len(a) \in DOMAIN b /\ k > Len(a) /\ u[k] = b[k - Len(a)]
    <3>1. k - Len(a) < l - Len(a)
      BY <1>1
    <3> QED
      BY <1>3, <2>2, <3>1 DEF Ordered
  <2> QED
    BY <1>1, <2>1, <2>2
<1> QED
  BY <1>1, <1>2, <1>3

\* An ordered queue with one more element behind it.
LEMMA AppendedOrdered ==
  ASSUME NEW q, NEW S, NEW s \in Seq(S), NEW x \in S, Ordered(q, s), Precedes(q, Range(s), {x})
  PROVE  Ordered(q, Append(s, x))
<1>1. /\ DOMAIN s = 1..Len(s) /\ Len(s) \in Nat /\ DOMAIN Append(s, x) = 1..(Len(s) + 1)
      /\ (\A i \in 1..Len(s) : Append(s, x)[i] = s[i]) /\ Append(s, x)[Len(s) + 1] = x
  BY Appended
<1> DEFINE u == Append(s, x)
<1> HIDE DEF u
<1> SUFFICES ASSUME NEW k \in 1..(Len(s) + 1), NEW l \in 1..(Len(s) + 1), k < l, u[k].msg, u[l].msg PROVE Before(q, u[k], u[l])
  BY <1>1 DEF Ordered, u
<1>2. k \in DOMAIN s /\ u[k] = s[k] /\ s[k] \in Range(s)
  BY <1>1 DEF u, Range
<1>3. CASE l \in 1..Len(s)
  BY <1>1, <1>2, <1>3 DEF Ordered, u
<1>4. CASE l = Len(s) + 1
  BY <1>1, <1>2, <1>4 DEF Precedes, u
<1> QED
  BY <1>1, <1>3, <1>4

\* No delivery, or one, is in order.
LEMMA FewOrdered == ASSUME NEW q PROVE Ordered(q, <<>>) /\ \A x : Ordered(q, <<x>>)
<1>1. Ordered(q, <<>>)
  BY EmptyIsSequence DEF Ordered
<1>2. ASSUME NEW x PROVE Ordered(q, <<x>>)
  <2>1. DOMAIN <<x>> = {1}
    OBVIOUS
  <2> QED
    BY <2>1 DEF Ordered
<1> QED
  BY <1>1, <1>2

\* A command is sent behind all others.
LEMMA SentBehind ==
  ASSUME NEW q \in Seq(Commands), NEW c \in Commands
  PROVE  /\ \A a, b : Before(q, a, b) => Before(Append(q, c), a, b)
         /\ \A a \in Range(q) : Before(Append(q, c), a, c)
         /\ \A s : Ordered(q, s) => Ordered(Append(q, c), s)
         /\ \A s \in Seq(Commands) : Subsequence(s, q) => Subsequence(Append(s, c), Append(q, c))
<1> DEFINE u == Append(q, c)
<1>1. /\ DOMAIN q = 1..Len(q) /\ Len(q) \in Nat /\ DOMAIN u = 1..(Len(q) + 1)
      /\ (\A i \in 1..Len(q) : u[i] = q[i]) /\ u[Len(q) + 1] = c
  BY Appended
<1>2. Range(u) = Range(q) \cup {c}
  BY RangeOfAppend
<1> HIDE DEF u
<1>3. (\A i \in DOMAIN q : i \in DOMAIN u /\ u[i] = q[i] /\ i < Len(q) + 1) /\ Len(q) + 1 \in DOMAIN u
  BY <1>1
<1>4. \A a, b : Before(q, a, b) => Before(u, a, b)
  BY <1>3 DEF Before
<1>5. \A a \in Range(q) : Before(u, a, c)
  BY <1>1, <1>3 DEF Before, Range
<1>6. \A s : Ordered(q, s) => Ordered(u, s)
  BY <1>4 DEF Ordered
<1>7. ASSUME NEW s \in Seq(Commands), Subsequence(s, q) PROVE Subsequence(Append(s, c), u)
  <2> DEFINE w == Append(s, c)
  <2>1. /\ DOMAIN s = 1..Len(s) /\ Len(s) \in Nat /\ DOMAIN w = 1..(Len(s) + 1)
        /\ (\A i \in 1..Len(s) : w[i] = s[i]) /\ w[Len(s) + 1] = c
    BY Appended
  <2> HIDE DEF w
  <2>2. \A i \in DOMAIN w : i = Len(s) + 1 \/ (i \in DOMAIN s /\ w[i] = s[i])
    BY <2>1
  <2>3. \A k \in DOMAIN w : w[k] \in Range(u)
    BY <1>2, <1>7, <2>1, <2>2 DEF Subsequence
  <2>4. ASSUME NEW k \in DOMAIN w, NEW l \in DOMAIN w, k < l
        PROVE  \E i, j \in DOMAIN u : i < j /\ w[k] = u[i] /\ w[l] = u[j]
    <3>1. k \in DOMAIN s /\ w[k] = s[k]
      BY <2>1, <2>4
    <3>2. CASE l \in DOMAIN s /\ w[l] = s[l]
      <4>1. PICK i, j \in DOMAIN q : i < j /\ s[k] = q[i] /\ s[l] = q[j]
        BY <1>7, <2>4, <3>1, <3>2 DEF Subsequence
      <4> QED
        BY <1>3, <3>1, <3>2, <4>1
    <3>3. CASE l = Len(s) + 1
      <4>1. PICK i \in DOMAIN q : s[k] = q[i]
        BY <1>7, <3>1 DEF Subsequence, Range
      <4> QED
        BY <1>1, <1>3, <2>1, <3>1, <3>3, <4>1
    <3> QED
      BY <2>2, <3>2, <3>3
  <2> QED
    BY <2>3, <2>4 DEF w, Subsequence
<1> QED
  BY <1>4, <1>5, <1>6, <1>7 DEF u

\* No move lets a message overtake another.
LEMMA MovesKeepOrder ==
  ASSUME Queues, LiveInv, OrderInv, d # "ended", Moves
  PROVE  OrderInv'
<1> DEFINE I == Range(inbox)
           B == Range(buffered)
           M == Range(Mid)
           O == Range(Out)
           K == Range(Kept)
           S == Range(sent)
           T == Range(started)
           Ahead(q, A, C) == \A a \in A, b \in C : a.msg => Before(q, a, b)
<1>1. /\ Distinct(sent) /\ T \subseteq S /\ Ordered(sent, started)
      /\ Subsequence(inbox, sent) /\ Ordered(sent, buffered) /\ Ordered(sent, Mid)
      /\ \A a \in O \cup K : ~a.msg
      /\ Precedes(sent, T, M \cup B) /\ Precedes(sent, M, B) /\ Ahead(sent, T \cup M \cup B, I)
  BY DEF OrderInv
<1>2. /\ inbox \in Seq(Commands) /\ sent \in Seq(Commands) /\ buffered \in Seq(Deliveries) /\ started \in Seq(Deliveries)
      /\ Mid \in Seq(Deliveries) /\ Out \in Seq(Deliveries) /\ Kept \in Seq(Deliveries)
  BY PlacesTyped DEF Queues
<1>3. Range(<<>>) = {} /\ (\A x : Range(<<x>>) = {x}) /\ \A x : Ordered(sent, <<>>) /\ Ordered(sent, <<x>>)
  BY RangeOfFew, FewOrdered
<1>4. M \cup B \subseteq S
  BY DEF LiveInv, AllApart
<1>5. ASSUME Distinct(sent'), T' \subseteq S', Ordered(sent', started'),
             Subsequence(inbox', sent'), Ordered(sent', buffered'), Ordered(sent', Mid'), \A a \in O' \cup K' : ~a.msg,
             Precedes(sent', T', M' \cup B'), Precedes(sent', M', B'), Ahead(sent', T' \cup M' \cup B', I')
      PROVE  OrderInv'
  BY <1>5 DEF OrderInv
\* Moves that read and send nothing and begin no turn.
<1>6. ASSUME UNCHANGED <<sent, started, inbox>>, Ordered(sent, buffered'), Ordered(sent, Mid'),
             \A a \in O' \cup K' : ~a.msg, \A a \in B' : a \in B \/ ~a.msg,
             \A a \in M' : a \in M \cup B, Precedes(sent, M', B')
      PROVE  OrderInv'
  <2>1. Precedes(sent, T, M' \cup B') /\ Ahead(sent, T \cup M' \cup B', I)
    <3> HIDE DEF I, B, M, O, K, S, T
    <3> QED
      BY <1>1, <1>6 DEF Precedes
  <2> QED
    BY <1>1, <1>5, <1>6, <2>1
<1>7. CASE MoveSend
  <2>1. PICK c \in Commands : c \notin S /\ sent' = Append(sent, c) /\ inbox' = Append(inbox, c)
    BY <1>7 DEF MoveSend
  <2>2. UNCHANGED <<buffered, Mid, Out, Kept, started>>
    BY <1>7 DEF MoveSend
  <2>3. S' = S \cup {c} /\ I' = I \cup {c} /\ Distinct(sent')
    BY <1>1, <1>2, <2>1, OneMore
  <2>4. /\ \A a, b : Before(sent, a, b) => Before(sent', a, b)
        /\ \A a \in S : Before(sent', a, c)
        /\ \A s : Ordered(sent, s) => Ordered(sent', s)
        /\ Subsequence(inbox', sent')
    BY <1>1, <1>2, <2>1, SentBehind
  <2>5. Ordered(sent', started') /\ Ordered(sent', buffered') /\ Ordered(sent', Mid')
    BY <1>1, <2>2, <2>4
  <2>6. B' = B /\ M' = M /\ O' = O /\ K' = K /\ T' = T
    BY <2>2
  <2> HIDE DEF I, B, M, O, K, S, T
  <2>7. Precedes(sent', T', M' \cup B') /\ Precedes(sent', M', B') /\ Ahead(sent', T' \cup M' \cup B', I')
    BY <1>1, <1>4, <2>3, <2>4, <2>6 DEF Precedes
  <2> QED
    BY <1>1, <1>5, <2>3, <2>4, <2>5, <2>6, <2>7
<1>8. CASE MoveRead
  <2> DEFINE c == Head(inbox)
  <2>1. /\ inbox # <<>> /\ inbox' = Tail(inbox) /\ UNCHANGED <<sent, Kept, started>>
    BY <1>8 DEF MoveRead
  <2>2. I = {c} \cup I' /\ Subsequence(inbox', sent) /\ c \in Commands
    <3>1. Subsequence(inbox', inbox)
      BY <1>2, <2>1, TailIsPart
    <3> QED
      BY <1>1, <1>2, <2>1, <3>1, PartOfPart, RangeOfTail, QueueClosed
  <2>3. \A b \in I' : Before(sent, c, b)
    <3>1. /\ DOMAIN inbox = 1..Len(inbox) /\ DOMAIN inbox' = 1..(Len(inbox) - 1) /\ Len(inbox) \in Nat \ {0}
          /\ c = inbox[1] /\ \A i \in 1..(Len(inbox) - 1) : inbox'[i] = inbox[i + 1]
      BY <1>2, <2>1, Shifted
    <3>2. \A i \in 1..(Len(inbox) - 1) : 1 \in DOMAIN inbox /\ i + 1 \in DOMAIN inbox /\ 1 < i + 1
      BY <3>1
    <3>3. \A i \in DOMAIN inbox' : Before(sent, c, inbox'[i])
      BY <1>1, <3>1, <3>2, SMTT(30) DEF Subsequence, Before
    <3> QED
      BY <3>3 DEF Range
  <2>4. IsDelivery(c) => c \in Deliveries
    BY <2>2 DEF Deliveries
  <2>5. ASSUME Ordered(sent, buffered'), Ordered(sent, Mid'), \A a \in O' : a \in O \/ ~a.msg,
               B' \subseteq B \cup {c}, M' \subseteq M \cup {c}, Precedes(sent, M', B')
        PROVE  OrderInv'
    <3>1. S' = S /\ T' = T /\ K' = K /\ Ordered(sent', started') /\ Ordered(sent', buffered') /\ Ordered(sent', Mid')
      BY <1>1, <2>1, <2>5
    <3>2. c \in I /\ I' \subseteq I
      BY <2>2
    <3> HIDE DEF I, B, M, O, K, S, T, c
    <3>3. Precedes(sent, T, M' \cup B') /\ Ahead(sent, T \cup M' \cup B', I')
      BY <1>1, <2>3, <2>5, <3>2 DEF Precedes
    <3> QED
      BY <1>1, <1>5, <2>1, <2>2, <2>5, <3>1, <3>3
  <2>6. Precedes(sent, B, {c}) /\ Precedes(sent, M, {c})
    <3>1. c \in I
      BY <2>2
    <3> HIDE DEF I, B, M, O, K, S, T, c
    <3> QED
      BY <1>1, <3>1 DEF Precedes
  <2>7. CASE IsDelivery(c) /\ buffered' = Append(buffered, c) /\ UNCHANGED <<Mid, Out>>
    <3>1. B' = B \cup {c}
      BY <1>2, <2>4, <2>7, OneMore
    <3>2. Ordered(sent, buffered')
      BY <1>1, <1>2, <2>4, <2>6, <2>7, AppendedOrdered
    <3>3. M' = M /\ O' = O
      BY <2>7
    <3>4. Precedes(sent, M', B')
      BY <1>1, <2>6, <3>1, <3>3 DEF Precedes
    <3> QED
      BY <1>1, <2>5, <2>7, <3>1, <3>2, <3>3, <3>4
  <2>8. CASE ~c.msg /\ Out' = <<c>> /\ UNCHANGED <<buffered, Mid>>
    BY <1>1, <1>3, <2>5, <2>8
  <2>9. CASE Mid' = <<c>> /\ buffered = <<>> /\ UNCHANGED <<buffered, Out>>
    <3>1. M' = {c} /\ B' = {} /\ O' = O
      BY <1>3, <2>9
    <3>2. Precedes(sent, M', B')
      BY <3>1 DEF Precedes
    <3> QED
      BY <1>1, <1>3, <2>5, <2>9, <3>1, <3>2
  <2>10. CASE UNCHANGED <<buffered, Mid, Out>>
    BY <1>1, <2>5, <2>10
  <2>11. CASE buffered' = Keep(buffered, cancelled') /\ UNCHANGED <<Mid, Out>>
    <3>1. buffered' \in Seq(Deliveries) /\ Subsequence(buffered', buffered)
      BY <1>2, <2>11, KeepIsPart
    <3>2. B' \subseteq B
      BY <1>2, <3>1, PartOfQueue
    <3>3. Ordered(sent, buffered')
      BY <1>1, <3>1, PartOrdered
    <3>4. M' = M /\ O' = O
      BY <2>11
    <3>5. Precedes(sent, M', B')
      BY <1>1, <3>2, <3>4 DEF Precedes
    <3> QED
      BY <1>1, <2>5, <2>11, <3>2, <3>3, <3>4, <3>5
  <2> QED
    BY <1>8, <2>7, <2>8, <2>9, <2>10, <2>11 DEF MoveRead
<1>9. CASE MoveOffer
  <2>1. PICK i \in 1..Len(buffered) :
           ~buffered[i].msg /\ Out' = <<buffered[i]>> /\ buffered' = RemoveAt(buffered, i)
    BY <1>9 DEF MoveOffer
  <2>2. UNCHANGED <<sent, inbox, Mid, Kept, started>>
    BY <1>9 DEF MoveOffer
  <2>3. buffered' \in Seq(Deliveries) /\ Subsequence(buffered', buffered)
    BY <1>2, <2>1, RestIsPart
  <2>4. B' \subseteq B
    BY <1>2, <2>3, PartOfQueue
  <2>5. Ordered(sent, buffered')
    BY <1>1, <2>3, PartOrdered
  <2>6. O' = {buffered[i]} /\ M' = M /\ K' = K
    BY <1>3, <2>1, <2>2
  <2>7. Precedes(sent, M', B')
    BY <1>1, <2>4, <2>6 DEF Precedes
  <2>8. \A a \in O' \cup K' : ~a.msg
    BY <1>1, <2>1, <2>6
  <2> QED
    BY <1>1, <1>6, <2>2, <2>4, <2>5, <2>6, <2>7, <2>8
<1>10. CASE MoveReturn
  <2>1. PICK front \in Seq(Deliveries) :
           /\ buffered' = front \o buffered /\ Range(front) \subseteq K \cup O
           /\ Kept' = Kept \/ Kept' = <<>>
    BY <1>10, ReturnFront
  <2>2. UNCHANGED <<sent, inbox, Mid, started>> /\ Out' = <<>>
    BY <1>10 DEF MoveReturn
  <2>3. \A a \in Range(front) : ~a.msg
    BY <1>1, <2>1
  <2>4. B' = Range(front) \cup B
    BY <1>2, <2>1, Joined
  <2>5. Ordered(sent, buffered')
    <3>1. Ordered(sent, front)
      BY <2>3 DEF Ordered, Range
    <3>2. Precedes(sent, Range(front), B)
      BY <2>3 DEF Precedes
    <3> QED
      BY <1>1, <1>2, <2>1, <3>1, <3>2, JoinedOrdered
  <2>6. O' = {} /\ M' = M /\ K' \subseteq K
    BY <1>3, <2>1, <2>2
  <2>7. Precedes(sent, M', B')
    BY <1>1, <2>3, <2>4, <2>6 DEF Precedes
  <2>8. (\A a \in O' \cup K' : ~a.msg) /\ (\A a \in B' : a \in B \/ ~a.msg) /\ \A a \in M' : a \in M \cup B
    BY <1>1, <2>3, <2>4, <2>6
  <2> QED
    BY <1>1, <1>6, <2>2, <2>5, <2>7, <2>8
<1>11. CASE MoveAccept
  <2>1. /\ UNCHANGED <<sent, inbox, buffered, Mid, started>> /\ Out' = <<>>
        /\ Kept' = Kept \/ Kept' = Kept \o Remainder(Out)
    BY <1>11 DEF MoveAccept
  <2>2. Remainder(Out) \in Seq(Deliveries) /\ Range(Remainder(Out)) \subseteq O
    BY <1>2, RemainderIsPart
  <2>3. K' \subseteq K \cup O
    <3>1. Range(Kept \o Remainder(Out)) = K \cup Range(Remainder(Out))
      BY <1>2, <2>2, Joined
    <3> QED
      BY <2>1, <2>2, <3>1
  <2>4. O' = {} /\ M' = M /\ B' = B
    BY <1>3, <2>1
  <2>5. (\A a \in O' \cup K' : ~a.msg) /\ (\A a \in B' : a \in B \/ ~a.msg) /\ \A a \in M' : a \in M \cup B
    BY <1>1, <2>3, <2>4
  <2> QED
    BY <1>1, <1>6, <2>1, <2>4, <2>5
<1>12. CASE MovePark
  <2>1. UNCHANGED <<sent, inbox, Out, Kept, started>>
    BY <1>12 DEF MovePark
  <2>2. B' \subseteq B /\ M' \subseteq M \cup B
    BY <1>12, ParkRanges
  <2>3. CASE \E k \in 0..Len(buffered) : /\ Mid' = SubSeq(buffered, 1, k)
                                         /\ buffered' = SubSeq(buffered, k + 1, Len(buffered))
    <3>1. PICK k \in 0..Len(buffered) : Mid' = SubSeq(buffered, 1, k) /\ buffered' = SubSeq(buffered, k + 1, Len(buffered))
      BY <2>3
    <3>2. /\ Subsequence(Mid', buffered) /\ Subsequence(buffered', buffered)
          /\ \A i \in DOMAIN Mid', j \in DOMAIN buffered' :
               \E a, b \in DOMAIN buffered : a < b /\ Mid'[i] = buffered[a] /\ buffered'[j] = buffered[b]
      <4> DEFINE u == SubSeq(buffered, 1, k)
                 w == SubSeq(buffered, k + 1, Len(buffered))
      <4>1. /\ Subsequence(u, buffered) /\ Subsequence(w, buffered)
            /\ \A i \in DOMAIN u, j \in DOMAIN w :
                 \E a, b \in DOMAIN buffered : a < b /\ u[i] = buffered[a] /\ w[j] = buffered[b]
        BY <1>2, CutQueue, ZenonT(40)
      <4>2. Mid' = u /\ buffered' = w
        BY <3>1
      <4> HIDE DEF u, w
      <4> QED
        BY <4>1, <4>2
    <3>3. Ordered(sent, buffered') /\ Ordered(sent, Mid')
      BY <1>1, <3>2, PartOrdered
    <3>4. Precedes(sent, M', B')
      <4> SUFFICES ASSUME NEW i \in DOMAIN Mid', NEW j \in DOMAIN buffered', Mid'[i].msg, buffered'[j].msg
                   PROVE  Before(sent, Mid'[i], buffered'[j])
        BY DEF Precedes, Range
      <4>1. PICK a, b \in DOMAIN buffered : a < b /\ Mid'[i] = buffered[a] /\ buffered'[j] = buffered[b]
        BY <3>2
      <4> QED
        BY <1>1, <4>1 DEF Ordered
    <3>5. (\A a \in O' \cup K' : ~a.msg) /\ (\A a \in B' : a \in B \/ ~a.msg) /\ \A a \in M' : a \in M \cup B
      BY <1>1, <2>1, <2>2
    <3> QED
      BY <1>6, <2>1, <3>3, <3>4, <3>5
  <2>4. CASE Mid' = Mid /\ buffered # <<>> /\ buffered' = Tail(buffered)
    <3>1. Subsequence(buffered', buffered)
      BY <1>2, <2>4, TailIsPart
    <3>2. Ordered(sent, buffered')
      BY <1>1, <3>1, PartOrdered
    <3>3. Precedes(sent, M', B')
      BY <1>1, <2>2, <2>4 DEF Precedes
    <3>4. (\A a \in O' \cup K' : ~a.msg) /\ (\A a \in B' : a \in B \/ ~a.msg) /\ \A a \in M' : a \in M \cup B
      BY <1>1, <2>1, <2>2
    <3> QED
      BY <1>1, <1>6, <2>1, <2>4, <3>2, <3>3, <3>4
  <2> QED
    BY <1>12, <2>3, <2>4 DEF MovePark
<1>13. CASE MoveRoute
  <2>1. UNCHANGED <<sent, inbox, buffered, Out, Kept>> /\ Mid' = <<>>
    BY <1>13 DEF MoveRoute
  <2>2. Ordered(sent, started') /\ T' \subseteq T \cup M
    <3>1. CASE started' = started
      BY <1>1, <3>1
    <3>2. CASE started' = started \o Remainder(Mid)
      <4>1. Remainder(Mid) \in Seq(Deliveries) /\ Subsequence(Remainder(Mid), Mid) /\ Range(Remainder(Mid)) \subseteq M
        BY <1>2, RemainderIsPart
      <4>2. Ordered(sent, Remainder(Mid)) /\ Precedes(sent, T, Range(Remainder(Mid)))
        BY <1>1, <4>1, PartOrdered DEF Precedes
      <4>3. Range(started \o Remainder(Mid)) = T \cup Range(Remainder(Mid))
        BY <1>2, <4>1, Joined
      <4>4. Ordered(sent, started \o Remainder(Mid))
        BY <1>1, <1>2, <4>1, <4>2, JoinedOrdered
      <4> QED
        BY <3>2, <4>1, <4>3, <4>4
    <3> QED
      BY <1>13, <3>1, <3>2 DEF MoveRoute
  <2>3. M' = {} /\ B' = B /\ I' = I /\ O' = O /\ K' = K /\ S' = S
    BY <1>3, <2>1
  <2>4. Ordered(sent', started') /\ Ordered(sent', buffered') /\ Ordered(sent', Mid') /\ Subsequence(inbox', sent') /\ Distinct(sent')
    BY <1>1, <1>3, <2>1, <2>2
  <2> HIDE DEF I, B, M, O, K, S, T
  <2>5. /\ T' \subseteq S' /\ Precedes(sent', T', M' \cup B') /\ Precedes(sent', M', B')
        /\ Ahead(sent', T' \cup M' \cup B', I') /\ \A a \in O' \cup K' : ~a.msg
    BY <1>1, <1>4, <2>1, <2>2, <2>3 DEF Precedes
  <2> QED
    BY <1>5, <2>4, <2>5
<1>14. CASE Same
  BY <1>1, <1>6, <1>14 DEF Same
<1>15. CASE MoveEnd
  BY <1>1, <1>15 DEF MoveEnd, OrderInv
<1> QED
  BY <1>7, <1>8, <1>9, <1>10, <1>11, <1>12, <1>13, <1>14, <1>15 DEF Moves

-----------------------------------------------------------------------------
(* Accounting: until a turn is cancelled by a declined limit, every        *)
(* delivery that was sent is in one of the places, used or discarded.      *)

Declined == \E x \in Deliveries : x.stop /\ uses[x] > 0
Places == Range(inbox) \cup InHand \cup Used \cup dropped
AccountInv ==
  d # "ended" => \A c \in Range(sent) : IsDelivery(c) => c \in Places \/ Declined

\* A limit that was declined stays declined.
LEMMA DeclinedStays ==
  ASSUME Used \subseteq Used', Declined
  PROVE  Declined'
BY DEF Declined, Used

\* A set of deliveries whose routing cancels the turn declines a limit.
LEMMA CancelDeclines ==
  ASSUME NEW ds \in Seq(Deliveries), CancelsTurn(ds), ToChild(ds) \subseteq Used'
  PROVE  Declined'
<1>1. PICK c \in ToChild(ds) : c.stop
  BY DEF CancelsTurn
<1>2. c \in Used'
  BY <1>1
<1>3. c \in Deliveries /\ uses'[c] > 0
  BY <1>2 DEF Used
<1> QED
  BY <1>1, <1>3 DEF Declined

\* No read loses a delivery.
LEMMA ReadAccounts ==
  ASSUME Queues, MoveRead
  PROVE  \A c \in Places : IsDelivery(c) => c \in Places'
<1> DEFINE h == Head(inbox)
           B == Range(buffered)
<1>1. /\ buffered \in Seq(Deliveries) /\ inbox \in Seq(Commands) /\ inbox # <<>>
      /\ inbox' = Tail(inbox) /\ UNCHANGED <<Kept, uses>>
  BY DEF Queues, MoveRead
<1>2. Range(inbox) \subseteq {h} \cup Range(inbox') /\ h \in Commands
  BY <1>1, RangeOfTail, QueueClosed
<1>3. Used' = Used
  BY <1>1 DEF Used
<1>4. (\A x : Range(<<x>>) = {x}) /\ Range(<<>>) = {}
  BY RangeOfFew
<1>5. CASE IsDelivery(h) /\ UNCHANGED dropped
           /\ \/ buffered' = Append(buffered, h) /\ UNCHANGED <<Mid, Out>>
              \/ Out' = <<h>> /\ Out = <<>> /\ UNCHANGED <<buffered, Mid>>
              \/ Mid' = <<h>> /\ Mid = <<>> /\ UNCHANGED <<buffered, Out>>
  <2>1. h \in Deliveries
    BY <1>2, <1>5 DEF Deliveries
  <2>2. Range(Append(buffered, h)) = B \cup {h}
    BY <1>1, <2>1, OneMore
  <2>3. h \in InHand' /\ InHand \subseteq InHand'
    BY <1>1, <1>4, <1>5, <2>2 DEF InHand
  <2> QED
    BY <1>2, <1>3, <1>5, <2>3 DEF Places
<1>6. CASE UNCHANGED <<buffered, Mid, Out>> /\ dropped' = dropped \cup {x \in {h} : IsDelivery(x)}
  <2>1. InHand' = InHand
    BY <1>1, <1>6 DEF InHand
  <2> QED
    BY <1>2, <1>3, <1>6, <2>1 DEF Places
<1>7. CASE /\ buffered' = Keep(buffered, cancelled') /\ ~IsDelivery(h)
           /\ dropped' = dropped \cup Discarded(buffered, cancelled') /\ UNCHANGED <<Mid, Out>>
  <2>1. B \subseteq Range(buffered') \cup dropped'
    BY <1>7, SetOfQueue DEF Discarded
  <2>2. InHand \subseteq InHand' \cup dropped'
    BY <1>1, <1>7, <2>1 DEF InHand
  <2> QED
    BY <1>2, <1>3, <1>7, <2>2 DEF Places
<1> QED
  BY <1>5, <1>6, <1>7 DEF MoveRead

\* Nor does a delivery that is forwarded, released, or handed back.
LEMMA OfferAccounts ==
  ASSUME Queues, MoveOffer \/ MoveReturn
  PROVE  Places \subseteq Places'
<1>1. /\ buffered \in Seq(Deliveries) /\ Out \in Seq(Deliveries) /\ Kept \in Seq(Deliveries)
      /\ Range(<<>>) = {} /\ \A x : Range(<<x>>) = {x}
  BY PlacesTyped, RangeOfFew DEF Queues
<1>2. UNCHANGED <<inbox, Mid, uses>> /\ Used' = Used
  BY DEF MoveOffer, MoveReturn, Used
<1>3. CASE MoveOffer
  <2>1. PICK i \in 1..Len(buffered) : Out' = <<buffered[i]>> /\ Out = <<>> /\ buffered' = RemoveAt(buffered, i)
    BY <1>3 DEF MoveOffer
  <2>2. Range(buffered) \subseteq Range(Out') \cup Range(buffered')
    BY <1>1, <2>1, RestCovers
  <2>3. InHand \subseteq InHand'
    BY <1>1, <1>2, <1>3, <2>1, <2>2 DEF InHand, MoveOffer
  <2> QED
    BY <1>2, <1>3, <2>3 DEF Places, MoveOffer
<1>4. CASE MoveReturn
  <2> DEFINE k == Keep(Kept, cancelled)
             o == Keep(Out, cancelled)
  <2>1. k \in Seq(Deliveries) /\ o \in Seq(Deliveries)
    BY <1>1, KeepIsPart
  <2>2. Range(Out) \subseteq Range(o) \cup Discarded(Out, cancelled) /\ Range(Kept) \subseteq Range(k) \cup Discarded(Kept, cancelled)
    BY SetOfQueue DEF Discarded
  <2>3. Discarded(Out, cancelled) \subseteq dropped' /\ dropped \subseteq dropped' /\ Out' = <<>>
    BY <1>4 DEF MoveReturn
  <2>4. Range(Out) \cup Range(buffered) \cup Range(Kept) \subseteq Range(buffered') \cup Range(Kept') \cup dropped'
    <3>1. Range(o \o buffered) = Range(o) \cup Range(buffered) /\ Range(k \o buffered) = Range(k) \cup Range(buffered)
      BY <1>1, <2>1, Joined
    <3>2. Range(k \o o \o buffered) = Range(k) \cup Range(o) \cup Range(buffered)
      <4>1. k \o o \in Seq(Deliveries) /\ Range(k \o o) = Range(k) \cup Range(o)
        BY <2>1, Joined
      <4>2. \A q \in Seq(Deliveries) : Range(q \o buffered) = Range(q) \cup Range(buffered)
        BY <1>1, Joined
      <4> QED
        BY <4>1, <4>2
    <3>3. \/ buffered' = o \o buffered /\ Kept' = Kept
          \/ buffered' = k \o o \o buffered /\ Discarded(Kept, cancelled) \subseteq dropped'
          \/ buffered' = k \o buffered /\ Out = <<>> /\ Discarded(Kept, cancelled) \subseteq dropped'
      BY <1>4 DEF MoveReturn
    <3> HIDE DEF k, o
    <3> QED
      BY <1>1, <2>2, <2>3, <3>1, <3>2, <3>3
  <2> QED
    BY <1>2, <2>3, <2>4 DEF Places, InHand
<1> QED
  BY <1>3, <1>4

\* A turn that accepts a delivery uses it, keeps it, or is cancelled by it.
LEMMA AcceptAccounts ==
  ASSUME Queues, MoveAccept
  PROVE  Places \subseteq Places' \/ Declined'
<1> DEFINE U == ToChild(Out) \cup {c \in ToSet(Out) : c.prompt}
<1>1. /\ uses \in [Deliveries -> Nat] /\ Out \in Seq(Deliveries) /\ Kept \in Seq(Deliveries)
      /\ Range(Out) \subseteq Deliveries /\ Range(<<>>) = {}
  BY PlacesTyped, RangeOfFew, RangeOfQueue DEF Queues
<1>2. /\ Remainder(Out) \in Seq(Deliveries) /\ ToSet(Out) = Range(Out) /\ ToChild(Out) \subseteq Range(Out)
      /\ Range(Remainder(Out)) = {c \in Range(Out) : ~c.prompt /\ c \notin ToChild(Out)}
  BY <1>1, RemainderIsPart, SetOfQueue
<1>3. U \in SUBSET Deliveries /\ Use(U) /\ UNCHANGED <<inbox, buffered, Mid, dropped>>
  BY <1>1, <1>2 DEF MoveAccept
<1>4. Used' = Used \cup U
  BY <1>1, <1>3, UsesMarked
<1>5. CASE Kept' = Kept \o Remainder(Out)
  <2>1. Range(Kept') = Range(Kept) \cup Range(Remainder(Out))
    BY <1>1, <1>2, <1>5, Joined
  <2>2. Range(Out) \subseteq U \cup Range(Remainder(Out))
    BY <1>2
  <2> HIDE DEF U
  <2> QED
    BY <1>3, <1>4, <2>1, <2>2 DEF Places, InHand
<1>6. CASE CancelsTurn(Out)
  BY <1>1, <1>4, <1>6, CancelDeclines
<1> QED
  BY <1>5, <1>6 DEF MoveAccept

\* The parked driver takes the deliveries it routes, or drops one.
LEMMA ParkAccounts ==
  ASSUME Queues, MovePark
  PROVE  Places \subseteq Places'
<1>1. buffered \in Seq(Deliveries) /\ UNCHANGED <<inbox, Out, Kept>> /\ Used' = Used /\ Mid = <<>> /\ Range(<<>>) = {}
  BY RangeOfFew DEF Queues, MovePark, Used
<1>2. Range(buffered) \subseteq Range(Mid') \cup Range(buffered') \cup dropped' /\ dropped \subseteq dropped'
  <2>1. CASE buffered # <<>> /\ buffered' = Tail(buffered) /\ dropped' = dropped \cup {Head(buffered)}
    BY <1>1, <2>1, RangeOfTail
  <2>2. CASE /\ dropped' = dropped
             /\ \E k \in 0..Len(buffered) : /\ Mid' = SubSeq(buffered, 1, k)
                                            /\ buffered' = SubSeq(buffered, k + 1, Len(buffered))
    BY <1>1, <2>2, CutCovers
  <2> QED
    BY <2>1, <2>2 DEF MovePark
<1> QED
  BY <1>1, <1>2 DEF Places, InHand

\* What is routed goes to children or begins a turn, unless it declines a limit.
LEMMA RouteAccounts ==
  ASSUME Queues, MoveRoute
  PROVE  Places \subseteq Places' \/ Declined'
<1> DEFINE U == ToChild(Mid) \cup {c \in ToSet(Mid) : c.prompt}
<1>1. uses \in [Deliveries -> Nat] /\ Mid \in Seq(Deliveries) /\ Range(Mid) \subseteq Deliveries /\ Range(<<>>) = {}
  BY PlacesTyped, RangeOfFew, RangeOfQueue DEF Queues
<1>2. /\ ToSet(Mid) = Range(Mid) /\ ToChild(Mid) \subseteq Range(Mid)
      /\ Range(Remainder(Mid)) = {c \in Range(Mid) : ~c.prompt /\ c \notin ToChild(Mid)}
  BY <1>1, RemainderIsPart, SetOfQueue
<1>3. U \in SUBSET Deliveries /\ ToSet(Mid) \in SUBSET Deliveries /\ UNCHANGED <<inbox, buffered, Out, Kept, dropped>>
  BY <1>1, <1>2 DEF MoveRoute
<1>4. \A V \in SUBSET Deliveries : Use(V) => Used' = Used \cup V
  BY <1>1, UsesMarked
<1>5. Used \cup Range(Mid) \subseteq Used' => Places \subseteq Places'
  BY <1>3 DEF Places, InHand
<1>6. CASE Use(ToSet(Mid))
  BY <1>2, <1>3, <1>4, <1>5, <1>6
<1>7. CASE Use(U) /\ Remainder(Mid) = <<>>
  <2>1. Range(Mid) \subseteq U
    BY <1>1, <1>2, <1>7
  <2> HIDE DEF U
  <2> QED
    BY <1>3, <1>4, <1>5, <1>7, <2>1
<1>8. CASE Use(U) /\ CancelsTurn(Mid)
  <2>1. ToChild(Mid) \subseteq Used'
    BY <1>3, <1>4, <1>8
  <2> QED
    BY <1>1, <1>8, <2>1, CancelDeclines
<1> QED
  BY <1>6, <1>7, <1>8 DEF MoveRoute

\* No move loses a delivery.
LEMMA MovesKeepAccount ==
  ASSUME Queues, AccountInv, d # "ended", Moves
  PROVE  AccountInv'
<1>1. CASE MoveEnd
  BY <1>1 DEF MoveEnd, AccountInv
<1> SUFFICES ASSUME ~MoveEnd PROVE AccountInv'
  BY <1>1
<1>2. Used \subseteq Used'
  <2>1. /\ uses \in [Deliveries -> Nat] /\ Mid \in Seq(Deliveries) /\ Out \in Seq(Deliveries)
        /\ Range(Mid) \subseteq Deliveries /\ Range(Out) \subseteq Deliveries
    BY PlacesTyped, RangeOfQueue DEF Queues
  <2>2. /\ ToSet(Mid) = Range(Mid) /\ ToChild(Mid) \subseteq Range(Mid)
        /\ ToSet(Out) = Range(Out) /\ ToChild(Out) \subseteq Range(Out)
    BY <2>1, RemainderIsPart, SetOfQueue
  <2>3. \A U \in SUBSET Deliveries : Use(U) => Used' = Used \cup U
    BY <2>1, UsesMarked
  <2>4. \/ uses' = uses \/ Use(ToSet(Mid))
        \/ Use(ToChild(Mid) \cup {c \in ToSet(Mid) : c.prompt})
        \/ Use(ToChild(Out) \cup {c \in ToSet(Out) : c.prompt})
    BY DEF Moves, MoveSend, MoveRead, MoveOffer, MoveReturn, MoveAccept, MovePark, MoveRoute, Same, MoveEnd
  <2>5. /\ ToSet(Mid) \in SUBSET Deliveries
        /\ ToChild(Mid) \cup {c \in ToSet(Mid) : c.prompt} \in SUBSET Deliveries
        /\ ToChild(Out) \cup {c \in ToSet(Out) : c.prompt} \in SUBSET Deliveries
    BY <2>1, <2>2
  <2>6. uses' = uses => Used' = Used
    BY DEF Used
  <2> QED
    BY <2>3, <2>4, <2>5, <2>6
<1>3. ASSUME \A c \in Places : IsDelivery(c) => c \in Places' \/ Declined',
             \A c \in Range(sent') : c \in Range(sent) \/ c \in Places'
      PROVE  AccountInv'
  BY <1>2, <1>3, DeclinedStays DEF AccountInv
<1>4. CASE MoveSend
  <2>1. PICK c \in Commands : /\ sent' = Append(sent, c) /\ inbox' = Append(inbox, c)
                              /\ UNCHANGED <<buffered, Mid, Out, Kept, uses, dropped>>
    BY <1>4 DEF MoveSend
  <2>2. Range(sent') = Range(sent) \cup {c} /\ Range(inbox') = Range(inbox) \cup {c}
    BY <2>1, OneMore DEF Queues
  <2>3. InHand' = InHand /\ Used' = Used
    BY <2>1 DEF InHand, Used
  <2> QED
    BY <1>3, <2>1, <2>2, <2>3 DEF Places
<1>5. CASE MoveRead
  BY <1>3, <1>5, ReadAccounts DEF MoveRead
<1>6. CASE MoveOffer \/ MoveReturn
  BY <1>3, <1>6, OfferAccounts DEF MoveOffer, MoveReturn
<1>7. CASE MoveAccept
  BY <1>3, <1>7, AcceptAccounts DEF MoveAccept
<1>8. CASE MovePark
  BY <1>3, <1>8, ParkAccounts DEF MovePark
<1>9. CASE MoveRoute
  BY <1>3, <1>9, RouteAccounts DEF MoveRoute
<1>10. CASE Same
  <2>1. Places' = Places
    BY <1>10 DEF Same, Places, InHand, Used
  <2> QED
    BY <1>3, <1>10, <2>1 DEF Same
<1> QED
  BY <1>4, <1>5, <1>6, <1>7, <1>8, <1>9, <1>10 DEF Moves

-----------------------------------------------------------------------------
(* The theorems about deliveries.                                          *)

DInv == LateInv /\ LiveInv /\ UseInv /\ OnceInv /\ FreshInv /\ OrderInv /\ AccountInv

\* A new session has no delivery anywhere.
LEMMA DeliveriesInitially == Init => DInv
<1> SUFFICES ASSUME Init PROVE DInv
  OBVIOUS
<1>1. Range(<<>>) = {} /\ DOMAIN <<>> = {} /\ Distinct(<<>>) /\ \A q : Ordered(q, <<>>)
  BY RangeOfFew, NoElement, FewOrdered
<1>2. /\ sent = <<>> /\ inbox = <<>> /\ buffered = <<>> /\ started = <<>> /\ control = <<>> /\ tInbox = <<>>
      /\ tBuffered = <<>> /\ d \in {"inline", "await"} /\ uses = [c \in Deliveries |-> 0]
  BY DEF Init
<1>3. Mid = <<>> /\ Out = <<>> /\ Kept = <<>> /\ Mode \in {"inline", "await"}
  BY <1>2 DEF Mid, Out, Kept, Mode
<1>4. Used = {}
  BY <1>2 DEF Used
<1>5. LateInv
  BY <1>1, <1>2, <1>3
     DEF LateInv, InOrder, ClosedOneWay, NotYetAccepted, ForwardedIsOutstanding, Acknowledged
<1>6. LiveInv
  BY <1>1, <1>2, <1>3, <1>4 DEF LiveInv, AllApart, Apart
<1>7. UseInv
  BY <1>2, <1>4 DEF UseInv
<1>8. OnceInv /\ FreshInv
  BY <1>1, <1>2, <1>3, <1>4 DEF OnceInv, FreshInv, Admitted, InHand
<1>9. Subsequence(inbox, sent)
  BY <1>1, <1>2 DEF Subsequence
<1>10. OrderInv
  BY <1>1, <1>2, <1>3, <1>9 DEF OrderInv, Precedes
<1>11. AccountInv
  BY <1>1, <1>2 DEF AccountInv
<1> QED
  BY <1>5, <1>6, <1>7, <1>8, <1>10, <1>11 DEF DInv

\* A live session moves its deliveries, an ended one does nothing.
LEMMA DeliveriesInductive ==
  ASSUME DInv, TInv, ProtocolInv, [Next]_vars
  PROVE  DInv'
<1>1. LateInv'
  BY LateInductive DEF DInv, TInv
<1>2. CASE d # "ended"
  <2>1. Moves
    BY StepMoves DEF DInv, TInv
  <2> QED
    BY <1>1, <1>2, <2>1, MovesKeepApart, MovesKeepOnce, MovesKeepFresh, MovesKeepOrder, MovesKeepAccount DEF DInv, TInv
<1>3. CASE d = "ended"
  <2>1. UNCHANGED vars
    BY <1>3, EndedStays DEF TInv
  <2>2. /\ UNCHANGED <<sent, inbox, d, back, buffered, seen, cancelled, request, outstanding, routing,
                       control, tBuffered, uses, started>>
        /\ d' = "ended"
    BY <1>3, <2>1 DEF vars, driverVars, turnVars, histVars
  <2>3. Used' = Used
    BY <2>2 DEF Used
  <2>4. LiveInv' /\ UseInv' /\ FreshInv'
    BY <2>2, <2>3 DEF DInv, LiveInv, UseInv, FreshInv
  <2>5. OnceInv'
    <3>1. Admitted' = Admitted
      BY <1>3, <2>2, <2>3 DEF Admitted
    <3> QED
      BY <2>2, <3>1 DEF DInv, OnceInv
  <2>6. OrderInv' /\ AccountInv'
    BY <2>2 DEF DInv, OrderInv, AccountInv
  <2> QED
    BY <1>1, <2>4, <2>5, <2>6 DEF DInv
<1> QED
  BY <1>2, <1>3

\* The places of the deliveries keep their invariant, with the types and the
\* request protocol that the moves between them rest on.
THEOREM DeliveryInvariant == Spec => [](IInv /\ TInv /\ DInv)
<1>1. Init => TInv /\ DInv
  BY TypesInitially, DeliveriesInitially
<1>2. IInv /\ TInv /\ DInv /\ [Next]_vars => (TInv /\ DInv)'
  BY TypesInductive, DeliveriesInductive DEF IInv
<1> QED
  BY <1>1, <1>2, TurnInvariant, PTL DEF Spec

\* Every queue, buffer and hook of the driver and its turn holds what it is
\* meant to hold, for every set of commands: what is read off a hook is what
\* was put on it, and what is buffered, forwarded, routed or handed back is a
\* delivery.
THEOREM TurnTypes == Spec => []TypeOK
BY DeliveryInvariant, TypesSuffice, PTL

\* A delivery reaches a turn or a child at most once (bufferDelivery,
\* takeInputResponseDelivery, releaseOutstandingDelivery, routeDeliverToChildren):
\* also when it was forwarded to a turn that finishes without accepting it and
\* goes back in front of the buffer, and however often the acceptance is sent.
THEOREM UsedOnce == Spec => []UsedAtMostOnce
<1>1. DInv => UsedAtMostOnce
  BY DEF DInv, UseInv, UsedAtMostOnce
<1> QED
  BY <1>1, DeliveryInvariant, PTL

\* A set whose elements are all equal.
LEMMA AtMostOne ==
  ASSUME NEW S, \A a, b \in S : a = b
  PROVE  Cardinality(S) <= 1
<1>1. CASE S = {}
  BY <1>1, FS_EmptySet
<1>2. CASE S # {}
  <2>1. PICK a \in S : TRUE
    BY <1>2
  <2>2. S = {a}
    BY <2>1
  <2>3. Cardinality({a}) = 1
    BY FS_Singleton
  <2> QED
    BY <2>2, <2>3
<1> QED
  BY <1>1, <1>2

\* Of the copies of a task delivery that producers send, at most one begins a
\* turn or reaches a child (acceptTaskDelivery): the parked wait, the receiver
\* and the inline turn share one set of seen delivery ids.
THEOREM TaskOnce == Spec => []TaskDeliveryOnce
<1>1. TInv /\ DInv => TaskDeliveryOnce
  <2> SUFFICES ASSUME TInv, DInv, NEW x \in Deliveries, x.did # NoTask
               PROVE  Cardinality({c \in Deliveries : c.did = x.did /\ uses[c] > 0}) <= 1
    BY DEF TaskDeliveryOnce
  <2> DEFINE Copied == {c \in Deliveries : c.did = x.did /\ uses[c] > 0}
  <2>1. \A a, b \in Copied : a = b
    BY DEF DInv, OnceInv, Admitted, Used
  <2> HIDE DEF Copied
  <2>2. Cardinality(Copied) <= 1
    BY <2>1, AtMostOne
  <2> QED
    BY <2>2 DEF Copied
<1> QED
  BY <1>1, DeliveryInvariant, PTL

\* Once the driver has read the cancellation of a task, no delivery of that
\* task begins a turn, wherever it was waiting (shouldDiscard,
\* isCancelledTaskDelivery): buffered, forwarded or kept by the turn.
THEOREM CancelledSilent == Spec => CancelledTaskBeginsNoTurn
<1> DEFINE Silent == \A i \in DOMAIN started' \ DOMAIN started :
                       started'[i].did # NoTask => started'[i].task \notin cancelled
<1>1. IInv /\ TInv /\ DInv /\ [Next]_vars => [Silent]_vars
  <2> SUFFICES ASSUME IInv, TInv, DInv, [Next]_vars, NEW i \in DOMAIN started' \ DOMAIN started,
                      started'[i].did # NoTask
               PROVE  started'[i].task \notin cancelled
    OBVIOUS
  <2>1. started' # started
    OBVIOUS
  <2>2. d # "ended"
    <3>1. d = "ended" => UNCHANGED vars
      BY EndedStays DEF TInv
    <3> QED
      BY <2>1, <3>1 DEF vars, histVars
  <2>3. Moves
    BY StepMoves DEF IInv, TInv, DInv
  <2>4. started' = started \o Remainder(Mid)
    BY <2>1, <2>3 DEF Moves, MoveSend, MoveRead, MoveOffer, MoveReturn, MoveAccept, MovePark, MoveRoute, Same, MoveEnd
  <2>5. started \in Seq(Deliveries) /\ Mid \in Seq(Deliveries)
    BY PlacesTyped DEF TInv, Queues
  <2>6. Remainder(Mid) \in Seq(Deliveries) /\ Range(Remainder(Mid)) \subseteq Range(Mid)
    BY <2>5, RemainderIsPart
  <2>7. started'[i] \in Range(Remainder(Mid))
    <3> DEFINE r == Remainder(Mid)
    <3> HIDE DEF r
    <3>1. /\ DOMAIN started = 1..Len(started) /\ DOMAIN r = 1..Len(r) /\ Len(started) \in Nat /\ Len(r) \in Nat
          /\ r \in Seq(Deliveries)
      BY <2>5, <2>6, Indices DEF r
    <3>2. /\ DOMAIN (started \o r) = 1..(Len(started) + Len(r))
          /\ \A k \in 1..(Len(started) + Len(r)) : k > Len(started) => (started \o r)[k] = r[k - Len(started)]
      BY <2>5, <3>1
    <3>3. i \in 1..(Len(started) + Len(r)) /\ i > Len(started)
      BY <2>4, <3>1, <3>2 DEF r
    <3>4. i - Len(started) \in DOMAIN r /\ started'[i] = r[i - Len(started)]
      BY <2>4, <3>1, <3>2, <3>3 DEF r
    <3> QED
      BY <3>4 DEF r, Range
  <2> QED
    BY <2>2, <2>6, <2>7 DEF DInv, FreshInv
<1> QED
  BY <1>1, DeliveryInvariant, PTL DEF Spec, CancelledTaskBeginsNoTurn

\* The first place of an element of a queue without repetitions is its place.
LEMMA PlaceInQueue ==
  ASSUME NEW S, NEW s \in Seq(S), Distinct(s), NEW k \in DOMAIN s
  PROVE  LET I == {i \in 1..Len(s) : s[i] = s[k]} IN I # {} /\ Min(I) = k
<1> DEFINE I == {i \in 1..Len(s) : s[i] = s[k]}
<1>1. DOMAIN s = 1..Len(s) /\ Len(s) \in Nat
  BY Indices
<1>2. k \in I /\ I \in SUBSET (1..Len(s)) /\ \A i \in I : i = k
  BY <1>1 DEF Distinct
<1>3. Min(I) \in I
  BY <1>1, <1>2, LeastIndex
<1> QED
  BY <1>2, <1>3

\* Messages begin turns in the order in which they were sent
\* (takeBufferedTurnDelivery takes from the front, bufferDelivery adds at the
\* end), also when a turn that they interrupted hands deliveries back in front.
THEOREM MessagesInOrder == Spec => []MessagesBeginInOrder
<1>1. TInv /\ DInv => MessagesBeginInOrder
  <2> SUFFICES ASSUME TInv, DInv, NEW i \in DOMAIN started, NEW j \in DOMAIN started,
                      i < j, started[i].msg, started[j].msg
               PROVE  SelectInSeq(sent, LAMBDA c : c = started[i]) < SelectInSeq(sent, LAMBDA c : c = started[j])
    BY DEF MessagesBeginInOrder
  <2>1. PICK k, l \in DOMAIN sent : k < l /\ sent[k] = started[i] /\ sent[l] = started[j]
    BY DEF DInv, OrderInv, Ordered, Before
  <2>2. sent \in Seq(Commands) /\ Distinct(sent)
    BY DEF TInv, Queues, DInv, OrderInv
  <2>3. SelectInSeq(sent, LAMBDA c : c = started[i]) = k
    <3>1. SelectInSeq(sent, LAMBDA c : c = started[i])
            = LET I == {h \in 1..Len(sent) : sent[h] = sent[k]} IN IF I # {} THEN Min(I) ELSE 0
      BY <2>1 DEF SelectInSeq
    <3> QED
      BY <2>2, <3>1, PlaceInQueue
  <2>4. SelectInSeq(sent, LAMBDA c : c = started[j]) = l
    <3>1. SelectInSeq(sent, LAMBDA c : c = started[j])
            = LET I == {h \in 1..Len(sent) : sent[h] = sent[l]} IN IF I # {} THEN Min(I) ELSE 0
      BY <2>1 DEF SelectInSeq
    <3> QED
      BY <2>2, <3>1, PlaceInQueue
  <2> QED
    BY <2>1, <2>3, <2>4
<1> QED
  BY <1>1, DeliveryInvariant, PTL

\* The places of the accounting are places where NoDeliveryLost looks.
LEMMA PlacesAreHeld == Range(inbox) \cup InHand \subseteq Held
<1>1. Range(<<>>) = {}
  BY RangeOfFew
<1>2. /\ ToSet(inbox) = Range(inbox) /\ ToSet(buffered) = Range(buffered)
      /\ ToSet(outstanding) = Range(outstanding) /\ ToSet(routing) = Range(routing)
      /\ ToSet(tBuffered) = Range(tBuffered)
  BY SetOfQueue
<1>3. Range(Mid) \subseteq Range(routing) /\ Range(Out) \subseteq Range(outstanding) /\ Range(Kept) \subseteq Range(tBuffered)
  BY <1>1 DEF Mid, Out, Kept
<1> QED
  BY <1>2, <1>3 DEF Held, InHand

\* While the session lives, a delivery that was neither used nor discarded with
\* its task is held somewhere, or some answer declined a session limit: that
\* answer, which cancels the turn and what came with it, is the one way in which
\* the driver and its turns let go of a delivery.
OnlyDeclineLoses ==
  d # "ended" =>
    \A c \in Deliveries \cap ToSet(sent) :
      uses[c] = 0 /\ c \notin dropped /\ c \notin Held => Declined
THEOREM DeclineLoses == Spec => []OnlyDeclineLoses
<1>1. TInv /\ DInv => OnlyDeclineLoses
  <2> SUFFICES ASSUME TInv, DInv, d # "ended", NEW c \in Deliveries \cap ToSet(sent),
                      uses[c] = 0, c \notin dropped, c \notin Held
               PROVE  Declined
    BY DEF OnlyDeclineLoses
  <2>1. c \in Range(sent) /\ IsDelivery(c)
    BY SetOfQueue DEF Deliveries
  <2>2. c \notin Used
    BY DEF Used
  <2>3. c \notin Range(inbox) \cup InHand
    BY PlacesAreHeld
  <2>4. c \in Places \/ Declined
    BY <2>1 DEF DInv, AccountInv
  <2> QED
    BY <2>2, <2>3, <2>4 DEF Places
<1> QED
  BY <1>1, DeliveryInvariant, PTL

\* "eve first durably buffers the message": in a session whose commands decline
\* no session limit, no delivery is lost, whichever turns are steered, cancelled
\* or fail, and whichever requests are released while a delivery is forwarded.
THEOREM NothingLost ==
  ASSUME \A c \in Deliveries : ~c.stop
  PROVE  Spec => []NoDeliveryLost
<1>1. OnlyDeclineLoses => NoDeliveryLost
  BY DEF OnlyDeclineLoses, NoDeliveryLost, Declined
<1> QED
  BY <1>1, DeclineLoses, PTL

=============================================================================
