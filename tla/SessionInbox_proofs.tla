------------------------ MODULE SessionInbox_proofs ------------------------
(***************************************************************************)
(* Proofs about the session command inbox: for every number of aliases and *)
(* payloads, each hook's payloads are consumed once and in order, no read  *)
(* is lost between arm() and consumeNext(), and a parked wait takes no     *)
(* session read before an older callback.                                  *)
(***************************************************************************)
EXTENDS SessionInbox, SequenceLemmas

-----------------------------------------------------------------------------
(* The inductive invariant.                                                *)

Sorted(q) == \A i, j \in 1..Len(q) : i < j => q[i].order < q[j].order

\* What was read from a hook: consumed in order, or the one stashed read.
Stashed ==
  \A h \in Hooks :
    /\ read[h] = Len(consumed[h]) + (IF resolved[h] = NoRead THEN 0 ELSE 1)
    /\ resolved[h] # NoRead =>
         /\ resolved[h].hook = h /\ resolved[h].n = read[h] /\ h \in pending
         /\ resolved[h].order < nextOrder
         /\ \A g \in Hooks : resolved[g].order = resolved[h].order /\ resolved[g] # NoRead => g = h

\* A callback that was offered when its window was opened again is enqueued a
\* second time; once it is consumed, the copy stays until the window closes.
Leftover == mode = "leaving" /\ awaitAuth /\ offered = "none" /\ Auth \notin pending

\* The ready queue holds stashed reads of enabled hooks, each once.
Queue ==
  /\ Sorted(ready)
  /\ \A r \in Range(ready) :
       /\ r.order < nextOrder /\ r.hook \in enabled
       /\ resolved[r.hook] = r \/ (r.hook = Auth /\ Leftover)
  /\ \A r, s \in Range(ready) : r.hook = s.hook => r = s

\* The offered read is a stashed one, and is in the queue no more.
Offered ==
  /\ offered # "resolved" => offeredRead = NoRead
  /\ offered = "resolved" =>
       /\ offeredRead \in Read /\ resolved[offeredRead.hook] = offeredRead
       /\ offeredRead.hook \in enabled \cup {Auth}
       /\ offeredRead \in Range(ready) =>
            offeredRead.hook = Auth /\ awaitAuth /\ mode \in {"check", "reading", "leaving"}

\* The stashed read of an enabled hook is on its way.
Enqueued ==
  \A h \in enabled : resolved[h] # NoRead =>
    resolved[h] = offeredRead \/ resolved[h] \in Range(ready)

\* An eligible callback is younger than the session read that is offered.
CallbacksBehind ==
  offered = "resolved" /\ offeredRead.hook # Auth =>
    \A r \in Range(ready) : r.hook = Auth => offeredRead.order < r.order

\* Which hooks there are, and when the callback's is enabled.
Slots ==
  /\ Auth \in enabled <=> awaitAuth
  /\ awaitAuth => mode \in WaitModes
  /\ mode \in WaitModes => rekeyTo = NoHook
  /\ rekeyTo = NoHook => rekeyFrom = NoHook
  /\ mode = "claiming" =>
       /\ pending = {} /\ offered = "none" /\ rekeyFrom = NoHook
       /\ rekeyTo # NoHook => continuation = NoHook
  /\ mode \notin {"claiming", "disposed"} => authorization = Auth
  /\ mode # "disposed" => enabled \ {Auth} \subseteq live \cup retired
  /\ rekeyTo # NoHook => rekeyTo \in live /\ (rekeyFrom = NoHook => rekeyTo \notin enabled)

IInv ==
  /\ TypeOK /\ ExactlyOnceInOrder /\ Stashed /\ Queue /\ Offered /\ Enqueued
  /\ CallbacksBehind /\ Slots

-----------------------------------------------------------------------------
(* The ready queue as a sequence.                                          *)

\* A sequence with an element put in.
LEMMA InsertedAt ==
  ASSUME NEW S, NEW q \in Seq(S), NEW k \in 1..Len(q), NEW r \in S
  PROVE  LET s == InsertAt(q, k, r)
         IN /\ s \in Seq(S) /\ Len(s) = Len(q) + 1 /\ s[k] = r
            /\ \A i \in 1..(k - 1) : s[i] = q[i]
            /\ \A i \in (k + 1)..(Len(q) + 1) : s[i] = q[i - 1]
<1> DEFINE a == SubSeq(q, 1, k - 1)
           b == SubSeq(q, k, Len(q))
           c == a \o <<r>>
           s == InsertAt(q, k, r)
<1>1. Len(q) \in Nat /\ k \in Nat
  OBVIOUS
<1>2. a \in Seq(S) /\ Len(a) = k - 1 /\ \A i \in 1..(k - 1) : a[i] = q[i]
  <2>1. 1 \in 1..(Len(q) + 1) /\ k - 1 \in 0..Len(q) /\ 1 <= (k - 1) + 1
    BY <1>1
  <2>2. /\ SubSeq(q, 1, k - 1) \in Seq(S) /\ Len(SubSeq(q, 1, k - 1)) = (k - 1) - 1 + 1
        /\ \A i \in 1..((k - 1) - 1 + 1) : SubSeq(q, 1, k - 1)[i] = q[1 + i - 1]
    BY <2>1, Part
  <2>3. (k - 1) - 1 + 1 = k - 1 /\ \A i \in 1..(k - 1) : 1 + i - 1 = i
    BY <1>1
  <2> QED
    BY <2>2, <2>3
<1>3. /\ b \in Seq(S) /\ Len(b) = Len(q) - k + 1
      /\ \A i \in 1..(Len(q) - k + 1) : b[i] = q[k + i - 1]
  BY <1>1, Part
<1>4. s = c \o b
  BY DEF InsertAt
<1> HIDE DEF a, b, s
<1>5. <<r>> \in Seq(S) /\ Len(<<r>>) = 1 /\ <<r>>[1] = r
  OBVIOUS
<1>6. /\ c \in Seq(S) /\ Len(c) = k /\ c[k] = r
      /\ \A i \in 1..(k - 1) : c[i] = q[i]
  <2>1. /\ c \in Seq(S) /\ Len(c) = Len(a) + Len(<<r>>)
        /\ \A i \in 1..(Len(a) + Len(<<r>>)) : c[i] = IF i <= Len(a) THEN a[i] ELSE <<r>>[i - Len(a)]
    BY <1>2, <1>5, ConcatProperties
  <2>2. Len(a) + Len(<<r>>) = k /\ k \in 1..k /\ ~(k <= Len(a)) /\ k - Len(a) = 1
    BY <1>1, <1>2, <1>5
  <2>3. c[k] = r
    BY <1>5, <2>1, <2>2
  <2>4. ASSUME NEW i \in 1..(k - 1) PROVE c[i] = q[i]
    <3>1. i \in 1..(Len(a) + Len(<<r>>)) /\ i <= Len(a)
      BY <1>1, <1>2, <2>2
    <3> QED
      BY <1>2, <2>1, <3>1
  <2> QED
    BY <2>1, <2>2, <2>3, <2>4
<1> HIDE DEF c
<1>7. /\ s \in Seq(S) /\ Len(s) = Len(c) + Len(b)
      /\ \A i \in 1..(Len(c) + Len(b)) : s[i] = IF i <= Len(c) THEN c[i] ELSE b[i - Len(c)]
  BY <1>3, <1>4, <1>6, ConcatProperties
<1>8. Len(s) = Len(q) + 1 /\ s[k] = r /\ \A i \in 1..(k - 1) : s[i] = q[i]
  BY <1>1, <1>3, <1>6, <1>7
<1>9. ASSUME NEW i \in (k + 1)..(Len(q) + 1) PROVE s[i] = q[i - 1]
  <2>1. i \in 1..(Len(c) + Len(b)) /\ ~(i <= Len(c)) /\ i - Len(c) = i - k
    BY <1>1, <1>3, <1>6
  <2>2. i - k \in 1..(Len(q) - k + 1) /\ k + (i - k) - 1 = i - 1
    BY <1>1
  <2>3. s[i] = b[i - k]
    BY <1>7, <2>1
  <2>4. b[i - k] = q[k + (i - k) - 1]
    BY <1>3, <2>2
  <2> QED
    BY <2>2, <2>3, <2>4
<1> QED
  BY <1>7, <1>8, <1>9 DEF s

\* enqueue: the queue stays sorted and has one more read.
LEMMA InsertSorted ==
  ASSUME NEW q \in Seq(Read), Sorted(q), NEW r \in Read, \A x \in Range(q) : x.order # r.order
  PROVE  /\ Insert(q, r) \in Seq(Read) /\ Sorted(Insert(q, r))
         /\ Range(Insert(q, r)) = Range(q) \cup {r}
<1> DEFINE I == {j \in 1..Len(q) : q[j].order > r.order}
           s == Insert(q, r)
<1>1. /\ Len(q) \in Nat /\ DOMAIN q = 1..Len(q) /\ r.order \in Nat
      /\ \A i \in 1..Len(q) : q[i] \in Read /\ q[i].order \in Nat /\ q[i].order # r.order
  <2>1. Len(q) \in Nat /\ DOMAIN q = 1..Len(q) /\ \A i \in 1..Len(q) : q[i] \in Read
    BY Indices
  <2>2. \A x \in Read : x.order \in Nat
    BY DEF Read
  <2>3. \A i \in 1..Len(q) : q[i].order # r.order
    BY <2>1 DEF Range
  <2> QED
    BY <2>1, <2>2, <2>3
<1>2. CASE I = {}
  <2>1. s = Append(q, r)
    BY <1>2 DEF Insert, SelectInSeq
  <2>2. \A i \in 1..Len(q) : q[i].order < r.order
    BY <1>1, <1>2
  <2>3. /\ s \in Seq(Read) /\ Len(s) = Len(q) + 1 /\ s[Len(q) + 1] = r
        /\ \A i \in 1..Len(q) : s[i] = q[i]
    BY <2>1
  <2>4. Range(s) = Range(q) \cup {r}
    BY <2>1, RangeOfAppend
  <2> HIDE DEF s
  <2>5. Sorted(s)
    <3>1. \A i, j \in 1..Len(s) : i < j => i \in 1..Len(q) /\ (j \in 1..Len(q) \/ j = Len(q) + 1)
      BY <1>1, <2>3
    <3> QED
      BY <2>2, <2>3, <3>1 DEF Sorted
  <2> QED
    BY <2>3, <2>4, <2>5 DEF s
<1>3. CASE I # {}
  <2> DEFINE k == Min(I)
  <2>1. k \in I /\ \A y \in I : k <= y
    BY <1>1, <1>3, LeastIndex
  <2>2. s = InsertAt(q, k, r)
    <3>1. SelectInSeq(q, LAMBDA x : x.order > r.order) = k
      BY <1>3 DEF SelectInSeq
    <3>2. k # 0
      BY <2>1
    <3> QED
      BY <3>1, <3>2 DEF Insert
  <2>3. k \in 1..Len(q) /\ q[k].order > r.order /\ \A i \in 1..(k - 1) : q[i].order < r.order
    <3>1. k \in 1..Len(q) /\ q[k].order > r.order
      BY <2>1
    <3> HIDE DEF k
    <3>2. ASSUME NEW i \in 1..(k - 1) PROVE q[i].order < r.order
      <4>1. i \in 1..Len(q) /\ ~(k <= i)
        BY <1>1, <3>1
      <4>2. ~(q[i].order > r.order)
        BY <2>1, <4>1
      <4> QED
        BY <1>1, <4>1, <4>2
    <3> QED
      BY <3>1, <3>2
  <2> HIDE DEF k
  <2>4. \A i \in k..Len(q) : q[i].order > r.order
    <3> SUFFICES ASSUME NEW i \in k..Len(q) PROVE q[i].order > r.order
      OBVIOUS
    <3>1. i \in 1..Len(q) /\ (i = k \/ k < i)
      BY <1>1, <2>3
    <3>2. k < i => q[k].order < q[i].order
      BY <2>3, <3>1 DEF Sorted
    <3> QED
      BY <1>1, <2>3, <3>1, <3>2
  <2>5. /\ s \in Seq(Read) /\ Len(s) = Len(q) + 1 /\ s[k] = r
        /\ \A i \in 1..(k - 1) : s[i] = q[i]
        /\ \A i \in (k + 1)..(Len(q) + 1) : s[i] = q[i - 1]
    BY <2>2, <2>3, InsertedAt, SMTT(30)
  <2> HIDE DEF s
  <2>6. \A i \in 1..Len(s) : i \in 1..(k - 1) \/ i = k \/ i \in (k + 1)..(Len(q) + 1)
    BY <1>1, <2>3, <2>5
  <2>7. Sorted(s)
    <3> SUFFICES ASSUME NEW i \in 1..Len(s), NEW j \in 1..Len(s), i < j PROVE s[i].order < s[j].order
      BY DEF Sorted
    <3>1. CASE j \in 1..(k - 1)
      <4>1. i \in 1..(k - 1) /\ i \in 1..Len(q) /\ j \in 1..Len(q)
        BY <1>1, <2>3, <3>1
      <4> QED
        BY <2>5, <3>1, <4>1 DEF Sorted
    <3>2. CASE j = k
      <4>1. i \in 1..(k - 1)
        BY <1>1, <2>3, <3>2
      <4> QED
        BY <2>3, <2>5, <3>2, <4>1
    <3>3. CASE j \in (k + 1)..(Len(q) + 1)
      <4>1. s[j] = q[j - 1] /\ j - 1 \in k..Len(q) /\ j - 1 \in 1..Len(q)
        BY <1>1, <2>3, <2>5, <3>3
      <4>2. CASE i = k
        <5>1. q[j - 1].order > r.order
          BY <2>4, <4>1
        <5> QED
          BY <1>1, <2>5, <4>1, <4>2, <5>1
      <4>3. CASE i \in 1..(k - 1)
        <5>1. i \in 1..Len(q) /\ i < j - 1 /\ s[i] = q[i]
          BY <1>1, <2>3, <2>5, <3>3, <4>3
        <5> QED
          BY <4>1, <5>1 DEF Sorted
      <4>4. CASE i \in (k + 1)..(Len(q) + 1)
        <5>1. i - 1 \in 1..Len(q) /\ i - 1 < j - 1 /\ s[i] = q[i - 1]
          BY <1>1, <2>3, <2>5, <3>3, <4>4
        <5> QED
          BY <4>1, <5>1 DEF Sorted
      <4> QED
        BY <2>6, <4>2, <4>3, <4>4
    <3> QED
      BY <2>6, <3>1, <3>2, <3>3
  <2>8. Range(s) = Range(q) \cup {r}
    <3>1. DOMAIN s = 1..Len(s)
      BY <2>5
    <3>2. ASSUME NEW i \in 1..Len(s) PROVE s[i] \in Range(q) \cup {r}
      <4>1. i \in (k + 1)..(Len(q) + 1) => i - 1 \in 1..Len(q)
        BY <1>1, <2>3
      <4>2. i \in 1..(k - 1) => i \in 1..Len(q)
        BY <1>1, <2>3
      <4> QED
        BY <1>1, <2>5, <2>6, <4>1, <4>2 DEF Range
    <3>3. ASSUME NEW i \in 1..Len(q) PROVE q[i] \in Range(s)
      <4>1. CASE i \in 1..(k - 1)
        <5>1. i \in 1..Len(s) /\ s[i] = q[i]
          BY <1>1, <2>3, <2>5, <4>1
        <5> QED
          BY <3>1, <5>1 DEF Range
      <4>2. CASE i \in k..Len(q)
        <5>1. i + 1 \in (k + 1)..(Len(q) + 1) /\ i + 1 \in 1..Len(s) /\ (i + 1) - 1 = i
          BY <1>1, <2>3, <2>5, <4>2
        <5>2. s[i + 1] = q[i]
          BY <2>5, <5>1
        <5> QED
          BY <3>1, <5>1, <5>2 DEF Range
      <4>3. i \in 1..(k - 1) \/ i \in k..Len(q)
        BY <1>1, <2>3
      <4> QED
        BY <4>1, <4>2, <4>3
    <3>4. k \in 1..Len(s)
      BY <1>1, <2>3, <2>5
    <3>5. r \in Range(s)
      BY <2>5, <3>1, <3>4 DEF Range
    <3>6. Range(s) \subseteq Range(q) \cup {r}
      BY <3>1, <3>2 DEF Range
    <3>7. Range(q) \subseteq Range(s)
      BY <1>1, <3>3 DEF Range
    <3> QED
      BY <3>5, <3>6, <3>7
  <2> QED
    BY <2>5, <2>7, <2>8 DEF s
<1> QED
  BY <1>2, <1>3

\* The head of the queue is its oldest read.
LEMMA HeadIsOldest ==
  ASSUME NEW q \in Seq(Read), Sorted(q), q # <<>>
  PROVE  /\ Head(q) \in Read /\ Tail(q) \in Seq(Read) /\ Sorted(Tail(q))
         /\ Range(q) = {Head(q)} \cup Range(Tail(q))
         /\ \A r \in Range(Tail(q)) : Head(q).order < r.order
         /\ Head(q) \notin Range(Tail(q))
<1>1. /\ DOMAIN q = 1..Len(q) /\ DOMAIN Tail(q) = 1..(Len(q) - 1)
      /\ Len(q) \in Nat \ {0} /\ Tail(q) \in Seq(Read) /\ Head(q) \in Read
      /\ Head(q) = q[1] /\ \A i \in 1..(Len(q) - 1) : Tail(q)[i] = q[i + 1]
  BY Shifted
<1>2. 1 \in 1..Len(q) /\ \A i \in 1..(Len(q) - 1) : i + 1 \in 1..Len(q) /\ 1 < i + 1
  BY <1>1
<1>3. Len(Tail(q)) = Len(q) - 1
  BY <1>1
<1>4. Sorted(Tail(q))
  <2> SUFFICES ASSUME NEW i \in 1..(Len(q) - 1), NEW j \in 1..(Len(q) - 1), i < j
               PROVE  Tail(q)[i].order < Tail(q)[j].order
    BY <1>3 DEF Sorted
  <2>1. i + 1 < j + 1 /\ Tail(q)[i] = q[i + 1] /\ Tail(q)[j] = q[j + 1]
    BY <1>1
  <2> QED
    BY <1>2, <2>1 DEF Sorted
<1>5. \A r \in Range(Tail(q)) : Head(q).order < r.order
  <2> SUFFICES ASSUME NEW i \in 1..(Len(q) - 1) PROVE Head(q).order < Tail(q)[i].order
    BY <1>1 DEF Range
  <2> QED
    BY <1>1, <1>2 DEF Sorted
<1>6. Range(q) = {Head(q)} \cup Range(Tail(q))
  BY RangeOfTail
<1>7. Head(q).order \in Nat
  BY <1>1 DEF Read
<1>8. Head(q) \notin Range(Tail(q))
  BY <1>5, <1>7
<1> QED
  BY <1>1, <1>4, <1>5, <1>6, <1>8

\* setAuthorizationWindow(false) takes the callback out of the queue.
LEMMA CallbackRemoved ==
  ASSUME NEW q \in Seq(Read), Sorted(q),
         \A x, y \in Range(q) : x.hook = Auth /\ y.hook = Auth => x = y
  PROVE  /\ WithoutCallback(q) \in Seq(Read) /\ Sorted(WithoutCallback(q))
         /\ Range(WithoutCallback(q)) = {x \in Range(q) : x.hook # Auth}
<1> DEFINE I == {j \in 1..Len(q) : q[j].hook = Auth}
           s == WithoutCallback(q)
<1>1. /\ Len(q) \in Nat /\ DOMAIN q = 1..Len(q)
      /\ \A i \in 1..Len(q) : q[i] \in Read /\ q[i].order \in Nat /\ q[i] \in Range(q)
  <2>1. Len(q) \in Nat /\ DOMAIN q = 1..Len(q) /\ \A i \in 1..Len(q) : q[i] \in Read
    BY Indices
  <2>2. \A x \in Read : x.order \in Nat
    BY DEF Read
  <2> QED
    BY <2>1, <2>2 DEF Range
<1>2. CASE I = {}
  <2>1. s = q
    BY <1>2 DEF WithoutCallback, SelectInSeq
  <2>2. \A x \in Range(q) : x.hook # Auth
    BY <1>1, <1>2 DEF Range
  <2> QED
    BY <2>1, <2>2
<1>3. CASE I # {}
  <2> DEFINE k == Min(I)
  <2>1. k \in I
    BY <1>1, <1>3, LeastIndex
  <2>2. s = RemoveAt(q, k)
    <3>1. SelectInSeq(q, LAMBDA x : x.hook = Auth) = k
      BY <1>3 DEF SelectInSeq
    <3>2. k # 0
      BY <2>1
    <3> QED
      BY <3>1, <3>2 DEF WithoutCallback
  <2>3. k \in 1..Len(q) /\ q[k].hook = Auth
    BY <2>1
  <2> HIDE DEF k
  <2>4. \A i \in 1..Len(q) : q[i].hook = Auth => i = k
    <3> SUFFICES ASSUME NEW i \in 1..Len(q), q[i].hook = Auth PROVE i = k
      OBVIOUS
    <3>1. q[i] = q[k]
      BY <1>1, <2>3
    <3>2. ~(i < k) /\ ~(k < i)
      BY <1>1, <2>3, <3>1 DEF Sorted
    <3> QED
      BY <1>1, <2>3, <3>2
  <2>5. /\ s \in Seq(Read) /\ Len(s) = Len(q) - 1
        /\ \A i \in 1..(k - 1) : s[i] = q[i]
        /\ \A i \in k..(Len(q) - 1) : s[i] = q[i + 1]
    <3>1. /\ RemoveAt(q, k) \in Seq(Read) /\ Len(RemoveAt(q, k)) = Len(q) - 1
          /\ \A i \in 1..(k - 1) : RemoveAt(q, k)[i] = q[i]
          /\ \A i \in k..(Len(q) - 1) : RemoveAt(q, k)[i] = q[i + 1]
      BY <2>3, RemovedAt
    <3> HIDE DEF s
    <3> QED
      BY <2>2, <3>1
  <2> HIDE DEF s
  <2>6. \A i \in 1..Len(s) : i \in 1..(k - 1) \/ i \in k..(Len(q) - 1)
    BY <1>1, <2>3, <2>5
  <2> DEFINE old(i) == IF i < k THEN i ELSE i + 1
  <2>7. ASSUME NEW i \in 1..Len(s) PROVE old(i) \in 1..Len(q) /\ old(i) # k /\ s[i] = q[old(i)]
    <3>1. CASE i \in 1..(k - 1)
      BY <1>1, <2>3, <2>5, <3>1
    <3>2. CASE i \in k..(Len(q) - 1)
      BY <1>1, <2>3, <2>5, <3>2
    <3> QED
      BY <2>6, <3>1, <3>2
  <2>8. \A i, j \in 1..Len(s) : i < j => old(i) < old(j)
    BY <1>1, <2>3, <2>5
  <2>9. \A i \in 1..Len(q) : i # k => \E j \in 1..Len(s) : s[j] = q[i]
    <3> SUFFICES ASSUME NEW i \in 1..Len(q), i # k PROVE \E j \in 1..Len(s) : s[j] = q[i]
      OBVIOUS
    <3>1. CASE i < k
      <4>1. i \in 1..Len(s) /\ i \in 1..(k - 1)
        BY <1>1, <2>3, <2>5, <3>1
      <4> QED
        BY <2>5, <4>1
    <3>2. CASE k < i
      <4>1. i - 1 \in 1..Len(s) /\ i - 1 \in k..(Len(q) - 1) /\ (i - 1) + 1 = i
        BY <1>1, <2>3, <2>5, <3>2
      <4> QED
        BY <2>5, <4>1
    <3> QED
      BY <1>1, <2>3, <3>1, <3>2
  <2> HIDE DEF old
  <2>10. Sorted(s)
    BY <2>7, <2>8 DEF Sorted
  <2>11. DOMAIN s = 1..Len(s)
    BY <2>5
  <2>12. Range(s) \subseteq {x \in Range(q) : x.hook # Auth}
    BY <1>1, <2>4, <2>7, <2>11 DEF Range
  <2>13. {x \in Range(q) : x.hook # Auth} \subseteq Range(s)
    <3> SUFFICES ASSUME NEW x \in Range(q), x.hook # Auth PROVE x \in Range(s)
      OBVIOUS
    <3>1. PICK i \in 1..Len(q) : x = q[i]
      BY <1>1 DEF Range
    <3>2. PICK j \in 1..Len(s) : s[j] = q[i]
      BY <2>3, <2>9, <3>1
    <3> QED
      BY <2>11, <3>1, <3>2 DEF Range
  <2> QED
    BY <2>5, <2>10, <2>12, <2>13 DEF s
<1> QED
  BY <1>2, <1>3

-----------------------------------------------------------------------------
(* What each kind of step does to the stashed, queued and offered reads.   *)

DataInv ==
  ExactlyOnceInOrder /\ Stashed /\ Queue /\ Offered /\ Enqueued /\ CallbacksBehind

reads == <<read, consumed, resolved, ready, nextOrder, offered, offeredRead>>

\* A read, and none.
LEMMA ReadFields ==
  /\ \A r \in Read : r.hook \in Hooks /\ r.n \in 1..MaxPayloads /\ r.order \in Nat /\ r # NoRead
  /\ \A h \in Hooks, n \in 1..MaxPayloads, o \in Nat : [hook |-> h, n |-> n, order |-> o] \in Read
<1>1. \A r \in Read : r.hook \in Hooks /\ r.n \in 1..MaxPayloads /\ r.order \in Nat
  BY DEF Read
<1>2. NoRead.hook \notin Hooks
  BY InboxConstants DEF NoRead
<1>3. \A h \in Hooks, n \in 1..MaxPayloads, o \in Nat : [hook |-> h, n |-> n, order |-> o] \in Read
  BY DEF Read
<1> QED
  BY <1>1, <1>2, <1>3

\* A queued read is a read of its hook, and every stashed read is one.
LEMMA QueuedReads ==
  ASSUME TypeOK
  PROVE  /\ \A r \in Range(ready) : r \in Read /\ r.hook \in Hooks /\ r.order \in Nat /\ r # NoRead
         /\ \A h \in Hooks : resolved[h] # NoRead => resolved[h] \in Read /\ resolved[h].order \in Nat
         /\ offeredRead # NoRead => offeredRead \in Read /\ offeredRead.hook \in Hooks
                                     /\ offeredRead.order \in Nat
         /\ NoRead \notin Range(ready)
<1>1. ready \in Seq(Read) /\ offeredRead \in Read \cup {NoRead}
      /\ \A h \in Hooks : resolved[h] \in Read \cup {NoRead}
  BY DEF TypeOK
<1>2. Range(ready) \subseteq Read
  BY <1>1, RangeOfQueue
<1> QED
  BY <1>1, <1>2, ReadFields

\* A step that moves no read keeps all this, provided it enables no hook whose
\* read is stashed and does not turn a parked wait away from an offered callback.
LEMMA QuietKeeps ==
  ASSUME IInv, UNCHANGED reads, UNCHANGED awaitAuth, pending \subseteq pending',
         enabled \subseteq enabled', \A h \in enabled' \ enabled : resolved[h] = NoRead,
         mode = "leaving" => mode' = "leaving" /\ pending' = pending,
         offeredRead \in Range(ready) => mode' \in {"check", "reading", "leaving"}
  PROVE  DataInv'
<1>1. /\ read' = read /\ consumed' = consumed /\ resolved' = resolved /\ ready' = ready
      /\ nextOrder' = nextOrder /\ offered' = offered /\ offeredRead' = offeredRead
      /\ awaitAuth' = awaitAuth
  BY DEF reads
<1>2. ExactlyOnceInOrder'
  BY <1>1 DEF IInv, ExactlyOnceInOrder
<1>3. Stashed'
  BY <1>1 DEF IInv, Stashed
<1>4. Leftover => Leftover'
  BY <1>1 DEF Leftover
<1>5. Queue'
  BY <1>1, <1>4 DEF IInv, Queue
<1>6. Offered'
  BY <1>1 DEF IInv, Offered
<1>7. Enqueued'
  BY <1>1 DEF IInv, Enqueued
<1>8. CallbacksBehind'
  BY <1>1 DEF IInv, CallbacksBehind
<1> QED
  BY <1>2, <1>3, <1>5, <1>6, <1>7, <1>8 DEF DataInv

\* The head of the queue is offered: it is the oldest, and no longer queued.
LEMMA TakeHeadKeeps ==
  ASSUME IInv, TakeHead(ready), offered # "resolved", ~Leftover, pending \subseteq pending',
         UNCHANGED <<read, consumed, resolved, nextOrder, enabled, mode, awaitAuth>>
  PROVE  DataInv' /\ ready' \in Seq(Read) /\ offeredRead' \in Read \cup {NoRead}
         /\ offered' \in {"waiting", "resolved"}
<1>1. ready \in Seq(Read) /\ offeredRead = NoRead /\ Sorted(ready)
  BY DEF IInv, TypeOK, Offered, Queue
<1>2. \A r \in Range(ready) : r \in Read /\ r.hook \in Hooks /\ r.order \in Nat /\ r # NoRead
  BY QueuedReads DEF IInv
<1>3. \A r \in Range(ready) : r.order < nextOrder /\ r.hook \in enabled /\ resolved[r.hook] = r
  BY DEF IInv, Queue
<1>4. ExactlyOnceInOrder'
  BY DEF IInv, ExactlyOnceInOrder
<1>5. Stashed'
  BY DEF IInv, Stashed
<1>6. \A h \in enabled : resolved[h] # NoRead => resolved[h] \in Range(ready)
  BY <1>1 DEF IInv, Enqueued
<1>7. CASE ready = <<>>
  <2>1. offered' = "waiting" /\ offeredRead' = NoRead /\ ready' = ready
    BY <1>7 DEF TakeHead
  <2>2. Range(ready) = {}
    BY <1>7, RangeOfFew
  <2>3. Queue'
    BY <1>1, <2>1, <2>2 DEF Queue
  <2>4. Offered' /\ CallbacksBehind'
    BY <2>1 DEF Offered, CallbacksBehind
  <2>5. Enqueued'
    BY <1>6, <2>1 DEF Enqueued
  <2> QED
    BY <1>1, <1>4, <1>5, <2>1, <2>3, <2>4, <2>5 DEF DataInv
<1>8. CASE ready # <<>>
  <2> DEFINE r == Head(ready)
             q == Tail(ready)
  <2>1. offered' = "resolved" /\ offeredRead' = r /\ ready' = q
    BY <1>8 DEF TakeHead
  <2>2. /\ r \in Read /\ q \in Seq(Read) /\ Sorted(q) /\ Range(ready) = {r} \cup Range(q)
        /\ (\A x \in Range(q) : r.order < x.order) /\ r \notin Range(q)
    BY <1>1, <1>8, HeadIsOldest
  <2> HIDE DEF r, q
  <2>3. Queue'
    <3>1. \A x, y \in Range(ready) : x.hook = y.hook => x = y
      BY DEF IInv, Queue
    <3> QED
      BY <1>3, <2>1, <2>2, <3>1 DEF Queue
  <2>4. Offered'
    BY <1>3, <2>1, <2>2 DEF Offered
  <2>5. Enqueued'
    BY <1>6, <2>1, <2>2 DEF Enqueued
  <2>6. CallbacksBehind'
    BY <2>1, <2>2 DEF CallbacksBehind
  <2> QED
    BY <1>4, <1>5, <2>1, <2>2, <2>3, <2>4, <2>5, <2>6 DEF DataInv
<1> QED
  BY <1>7, <1>8

\* A read is consumed: it is the next of its hook, and only the copy of a
\* callback can still be queued.
LEMMA ConsumeKeeps ==
  ASSUME IInv, NEW as \in {"session", "authorization"}, ConsumeNext(as),
         UNCHANGED <<read, awaitAuth>>,
         offeredRead \in Range(ready) => mode' = "leaving"
  PROVE  DataInv' /\ consumed' \in [Hooks -> Seq(ConsumedRead)]
         /\ resolved' \in [Hooks -> Read \cup {NoRead}]
<1> DEFINE r == offeredRead
           g == r.hook
<1>1. /\ offered = "resolved" /\ pending' = pending \ {g}
      /\ resolved' = [resolved EXCEPT ![g] = NoRead]
      /\ offered' = "none" /\ offeredRead' = NoRead
      /\ consumed' = [consumed EXCEPT ![g] = Append(@, [n |-> r.n, as |-> as])]
      /\ enabled' = enabled /\ ready' = ready /\ nextOrder' = nextOrder
      /\ read' = read /\ awaitAuth' = awaitAuth
  BY DEF ConsumeNext
<1>2. r \in Read /\ resolved[g] = r /\ (r \in Range(ready) => g = Auth /\ awaitAuth)
  BY <1>1 DEF IInv, Offered
<1>3. g \in Hooks /\ r # NoRead /\ r.n \in 1..MaxPayloads
  BY <1>2, ReadFields
<1>4. /\ resolved \in [Hooks -> Read \cup {NoRead}] /\ consumed \in [Hooks -> Seq(ConsumedRead)]
      /\ read \in [Hooks -> 0..MaxPayloads]
  BY DEF IInv, TypeOK
<1>5. Stashed
  BY DEF IInv
<1>6. read[g] = Len(consumed[g]) + 1 /\ r.n = read[g]
  BY <1>2, <1>3, <1>5 DEF Stashed
<1>7. /\ \A x \in Range(ready) : x \in Read /\ x.hook \in Hooks /\ x.order \in Nat /\ x # NoRead
      /\ NoRead \notin Range(ready)
  BY QueuedReads DEF IInv
<1> HIDE DEF g
<1>8. /\ resolved'[g] = NoRead /\ \A h \in Hooks : h # g => resolved'[h] = resolved[h]
  BY <1>1, <1>3, <1>4
<1>9. resolved' \in [Hooks -> Read \cup {NoRead}]
  BY <1>1, <1>4
<1> DEFINE c == [n |-> r.n, as |-> as]
<1>10. c \in ConsumedRead
  BY <1>3 DEF ConsumedRead
<1>11. consumed[g] \in Seq(ConsumedRead)
  BY <1>3, <1>4
<1>12. /\ consumed'[g] = Append(consumed[g], c) /\ \A h \in Hooks : h # g => consumed'[h] = consumed[h]
  BY <1>1, <1>3, <1>4
<1>13. c.n = r.n
  OBVIOUS
<1> HIDE DEF c
<1>14. /\ Append(consumed[g], c) \in Seq(ConsumedRead)
       /\ Len(Append(consumed[g], c)) = Len(consumed[g]) + 1 /\ Len(consumed[g]) \in Nat
       /\ Append(consumed[g], c)[Len(consumed[g]) + 1] = c
       /\ \A i \in 1..Len(consumed[g]) : Append(consumed[g], c)[i] = consumed[g][i]
  BY <1>10, <1>11
<1>15. consumed' \in [Hooks -> Seq(ConsumedRead)]
  BY <1>1, <1>4, <1>14 DEF c
<1>16. ExactlyOnceInOrder'
  <2> SUFFICES ASSUME NEW h \in Hooks, NEW i \in 1..Len(consumed'[h]) PROVE consumed'[h][i].n = i
    BY DEF ExactlyOnceInOrder
  <2>1. \A j \in 1..Len(consumed[h]) : consumed[h][j].n = j
    BY DEF IInv, ExactlyOnceInOrder
  <2>2. CASE h # g
    BY <1>12, <2>1, <2>2
  <2>3. CASE h = g /\ i \in 1..Len(consumed[g])
    BY <1>12, <1>14, <2>1, <2>3
  <2>4. CASE h = g /\ i = Len(consumed[g]) + 1
    BY <1>6, <1>12, <1>13, <1>14, <2>4
  <2>5. h = g => i \in 1..Len(consumed[g]) \/ i = Len(consumed[g]) + 1
    BY <1>12, <1>14
  <2> QED
    BY <2>2, <2>3, <2>4, <2>5
<1>17. Stashed'
  <2>1. read[g] = Len(consumed'[g]) + 0
    BY <1>6, <1>12, <1>14
  <2>2. ASSUME NEW h \in Hooks
        PROVE  read'[h] = Len(consumed'[h]) + (IF resolved'[h] = NoRead THEN 0 ELSE 1)
    <3>1. CASE h = g
      BY <1>1, <1>8, <2>1, <3>1
    <3>2. CASE h # g
      <4>1. read[h] = Len(consumed[h]) + (IF resolved[h] = NoRead THEN 0 ELSE 1)
        BY <1>5 DEF Stashed
      <4> QED
        BY <1>1, <1>8, <1>12, <3>2, <4>1
    <3> QED
      BY <3>1, <3>2
  <2>3. ASSUME NEW h \in Hooks, resolved'[h] # NoRead
        PROVE  /\ resolved'[h].hook = h /\ resolved'[h].n = read'[h] /\ h \in pending'
               /\ resolved'[h].order < nextOrder'
               /\ \A f \in Hooks : resolved'[f].order = resolved'[h].order /\ resolved'[f] # NoRead => f = h
    <3>1. h # g /\ resolved'[h] = resolved[h]
      BY <1>8, <2>3
    <3>2. \A f \in Hooks : resolved'[f] # NoRead => resolved'[f] = resolved[f]
      BY <1>8
    <3>3. /\ resolved[h].hook = h /\ resolved[h].n = read[h] /\ h \in pending
          /\ resolved[h].order < nextOrder
          /\ \A f \in Hooks : resolved[f].order = resolved[h].order /\ resolved[f] # NoRead => f = h
      BY <1>5, <2>3, <3>1 DEF Stashed
    <3>4. \A f \in Hooks : resolved'[f].order = resolved'[h].order /\ resolved'[f] # NoRead => f = h
      BY <3>1, <3>2, <3>3
    <3> QED
      BY <1>1, <3>1, <3>3, <3>4
  <2> QED
    BY <2>2, <2>3, Zenon DEF Stashed
<1>18. Queue'
  <2>1. Sorted(ready) /\ \A x \in Range(ready) : x.order < nextOrder /\ x.hook \in enabled
    BY DEF IInv, Queue
  <2>2. ASSUME NEW x \in Range(ready) PROVE resolved'[x.hook] = x \/ (x.hook = Auth /\ Leftover')
    <3>1. resolved[x.hook] = x
      BY <1>1 DEF IInv, Queue, Leftover
    <3>2. CASE x.hook # g
      BY <1>7, <1>8, <3>1, <3>2
    <3>3. CASE x.hook = g
      <4>1. x = r
        BY <1>2, <3>1, <3>3 DEF g
      <4>2. g = Auth /\ awaitAuth /\ mode' = "leaving"
        BY <1>2, <4>1
      <4>3. Leftover'
        BY <1>1, <4>2 DEF Leftover
      <4> QED
        BY <3>3, <4>2, <4>3
    <3> QED
      BY <3>2, <3>3
  <2>3. \A x, y \in Range(ready) : x.hook = y.hook => x = y
    BY DEF IInv, Queue
  <2> QED
    BY <1>1, <2>1, <2>2, <2>3 DEF Queue
<1>19. Offered' /\ CallbacksBehind'
  BY <1>1 DEF Offered, CallbacksBehind
<1>20. Enqueued'
  <2> SUFFICES ASSUME NEW h \in enabled, resolved'[h] # NoRead PROVE resolved'[h] \in Range(ready)
    BY <1>1 DEF Enqueued
  <2>1. h \in Hooks
    BY DEF IInv, TypeOK
  <2>2. h # g /\ resolved'[h] = resolved[h]
    BY <1>8, <2>1
  <2>3. resolved[h].hook = h
    BY <1>5, <2>1, <2>2 DEF Stashed
  <2>4. resolved[h] # r
    BY <2>2, <2>3 DEF g
  <2> QED
    BY <2>2, <2>4 DEF IInv, Enqueued
<1> QED
  BY <1>9, <1>15, <1>16, <1>17, <1>18, <1>19, <1>20 DEF DataInv

\* A read resolves with the hook's next payload.
LEMMA ReadResolvesKeeps ==
  ASSUME IInv, NEW h \in Hooks, ReadResolves(h)
  PROVE  DataInv' /\ read' \in [Hooks -> 0..MaxPayloads] /\ ready' \in Seq(Read)
         /\ resolved' \in [Hooks -> Read \cup {NoRead}]
<1> DEFINE r == [hook |-> h, n |-> read[h] + 1, order |-> nextOrder]
<1>1. /\ h \in pending /\ resolved[h] = NoRead /\ read[h] < committed[h]
      /\ resolved' = [resolved EXCEPT ![h] = r]
      /\ ready' = IF h \in enabled THEN Insert(ready, r) ELSE ready
      /\ read' = [read EXCEPT ![h] = read[h] + 1] /\ nextOrder' = nextOrder + 1
      /\ UNCHANGED <<pending, enabled, offered, offeredRead, mode, awaitAuth, consumed>>
  BY DEF ReadResolves, waitVars
<1>2. /\ resolved \in [Hooks -> Read \cup {NoRead}] /\ read \in [Hooks -> 0..MaxPayloads]
      /\ committed[h] \in 0..MaxPayloads /\ MaxPayloads \in Nat /\ nextOrder \in Nat
      /\ ready \in Seq(Read) /\ consumed \in [Hooks -> Seq(ConsumedRead)]
  BY InboxConstants DEF IInv, TypeOK
<1>3. read[h] + 1 \in 1..MaxPayloads /\ read[h] \in Nat
  BY <1>1, <1>2
<1>4. r \in Read /\ r.hook = h /\ r.n = read[h] + 1 /\ r.order = nextOrder /\ r # NoRead
  BY <1>2, <1>3, ReadFields
<1> HIDE DEF r
<1>5. Stashed
  BY DEF IInv
<1>6. /\ \A x \in Range(ready) : x \in Read /\ x.hook \in Hooks /\ x.order \in Nat /\ x # NoRead
      /\ NoRead \notin Range(ready)
  BY QueuedReads DEF IInv
<1>7. /\ Sorted(ready) /\ \A x, y \in Range(ready) : x.hook = y.hook => x = y
      /\ \A x \in Range(ready) : x.order < nextOrder /\ x.hook \in enabled
  BY DEF IInv, Queue
<1>7a. \A x \in Range(ready) : resolved[x.hook] = x \/ (x.hook = Auth /\ Leftover)
  BY DEF IInv, Queue
<1>8. \A x \in Range(ready) : x.hook # h
  BY <1>1, <1>6, <1>7a DEF Leftover
<1>9. resolved'[h] = r /\ \A g \in Hooks : g # h => resolved'[g] = resolved[g]
  BY <1>1, <1>2
<1>10. read'[h] = read[h] + 1 /\ \A g \in Hooks : g # h => read'[g] = read[g]
  BY <1>1, <1>2
<1>11. resolved' \in [Hooks -> Read \cup {NoRead}] /\ read' \in [Hooks -> 0..MaxPayloads]
  BY <1>1, <1>2, <1>3, <1>4
<1>12. /\ ready' \in Seq(Read) /\ Sorted(ready')
       /\ Range(ready') = Range(ready) \cup (IF h \in enabled THEN {r} ELSE {})
  <2>1. ASSUME NEW x \in Range(ready) PROVE x.order # r.order
    <3>1. x.order \in Nat /\ x.order < nextOrder
      BY <1>6, <1>7
    <3> QED
      BY <1>2, <1>4, <3>1
  <2> QED
    BY <1>1, <1>2, <1>4, <1>7, <2>1, InsertSorted
<1>13. ExactlyOnceInOrder'
  BY <1>1 DEF IInv, ExactlyOnceInOrder
<1>14. Stashed'
  <2>1. ASSUME NEW g \in Hooks
        PROVE  read'[g] = Len(consumed'[g]) + (IF resolved'[g] = NoRead THEN 0 ELSE 1)
    <3>1. read[g] = Len(consumed[g]) + (IF resolved[g] = NoRead THEN 0 ELSE 1)
          /\ Len(consumed[g]) \in Nat
      BY <1>2, <1>5 DEF Stashed
    <3>2. CASE g = h
      <4>1. read[h] = Len(consumed[h]) + 0
        BY <1>1, <3>1, <3>2
      <4>2. resolved'[g] # NoRead /\ read'[g] = read[h] + 1 /\ consumed'[g] = consumed[h]
        BY <1>1, <1>4, <1>9, <1>10, <3>2
      <4> QED
        BY <3>1, <3>2, <4>1, <4>2
    <3>3. CASE g # h
      BY <1>1, <1>9, <1>10, <3>1, <3>3
    <3> QED
      BY <3>2, <3>3
  <2>2. ASSUME NEW g \in Hooks, g # h, resolved'[g] # NoRead
        PROVE  /\ resolved'[g].hook = g /\ resolved'[g].n = read'[g] /\ g \in pending'
               /\ resolved'[g].order < nextOrder /\ resolved'[g].order \in Nat
               /\ \A f \in Hooks : f # h /\ resolved'[f].order = resolved'[g].order
                                  /\ resolved'[f] # NoRead => f = g
    <3>1. resolved'[g] = resolved[g] /\ resolved[g] # NoRead
      BY <1>9, <2>2
    <3>2. /\ resolved[g].hook = g /\ resolved[g].n = read[g] /\ g \in pending
          /\ resolved[g].order < nextOrder
          /\ \A f \in Hooks : resolved[f].order = resolved[g].order /\ resolved[f] # NoRead => f = g
      BY <1>5, <3>1 DEF Stashed
    <3>3. resolved[g].order \in Nat
      BY <3>1, QueuedReads DEF IInv
    <3>4. \A f \in Hooks : f # h /\ resolved'[f].order = resolved'[g].order
                          /\ resolved'[f] # NoRead => f = g
      BY <1>9, <3>1, <3>2
    <3> QED
      BY <1>1, <1>10, <2>2, <3>1, <3>2, <3>3, <3>4
  <2>3. ASSUME NEW g \in Hooks, resolved'[g] # NoRead
        PROVE  /\ resolved'[g].hook = g /\ resolved'[g].n = read'[g] /\ g \in pending'
               /\ resolved'[g].order < nextOrder'
               /\ \A f \in Hooks : resolved'[f].order = resolved'[g].order /\ resolved'[f] # NoRead => f = g
    <3>1. \A f \in Hooks : f # h /\ resolved'[f] # NoRead => resolved'[f].order # resolved'[h].order
      <4>1. resolved'[h].order = nextOrder
        BY <1>4, <1>9
      <4> QED
        BY <1>2, <2>2, <4>1
    <3>2. CASE g = h
      BY <1>1, <1>2, <1>4, <1>9, <1>10, <3>1, <3>2
    <3>3. CASE g # h
      <4>1. resolved'[g].order < nextOrder'
        BY <1>1, <1>2, <2>2, <2>3, <3>3
      <4>2. \A f \in Hooks : resolved'[f].order = resolved'[g].order /\ resolved'[f] # NoRead => f = g
        BY <2>2, <2>3, <3>1, <3>3
      <4> QED
        BY <2>2, <2>3, <3>3, <4>1, <4>2
    <3> QED
      BY <3>2, <3>3
  <2> QED
    BY <2>1, <2>3, Zenon DEF Stashed
<1>15. Leftover' = Leftover
  BY <1>1 DEF Leftover
<1>16. Queue'
  <2>1. ASSUME NEW x \in Range(ready')
        PROVE  /\ x.order < nextOrder' /\ x.hook \in enabled'
               /\ resolved'[x.hook] = x \/ (x.hook = Auth /\ Leftover')
    <3>1. CASE x \in Range(ready)
      <4>1. resolved'[x.hook] = resolved[x.hook] /\ x.order < nextOrder + 1
        <5>1. x.hook \in Hooks /\ x.hook # h /\ x.order \in Nat /\ x.order < nextOrder
          BY <1>6, <1>7, <1>8, <3>1
        <5> QED
          BY <1>2, <1>9, <5>1
      <4>2. x.hook \in enabled /\ (resolved[x.hook] = x \/ (x.hook = Auth /\ Leftover))
        BY <1>7, <1>7a, <3>1
      <4>3. nextOrder' = nextOrder + 1 /\ enabled' = enabled
        BY <1>1
      <4> QED
        BY <1>15, <4>1, <4>2, <4>3
    <3>2. CASE x = r /\ h \in enabled
      BY <1>1, <1>2, <1>4, <1>9, <3>2
    <3> QED
      BY <1>12, <3>1, <3>2
  <2>2. \A x, y \in Range(ready') : x.hook = y.hook => x = y
    BY <1>4, <1>7, <1>8, <1>12
  <2> QED
    BY <1>12, <2>1, <2>2 DEF Queue
<1>17. offered = "resolved" => /\ offeredRead \in Read /\ offeredRead.hook \in Hooks /\ offeredRead.hook # h
                               /\ resolved[offeredRead.hook] = offeredRead /\ offeredRead # r
                               /\ offeredRead.order < nextOrder
  <2> SUFFICES ASSUME offered = "resolved"
               PROVE  /\ offeredRead \in Read /\ offeredRead.hook \in Hooks /\ offeredRead.hook # h
                      /\ resolved[offeredRead.hook] = offeredRead /\ offeredRead # r
                      /\ offeredRead.order < nextOrder
    OBVIOUS
  <2>1. offeredRead \in Read /\ resolved[offeredRead.hook] = offeredRead
    BY DEF IInv, Offered
  <2>2. offeredRead.hook \in Hooks /\ offeredRead # NoRead
    BY <2>1, ReadFields
  <2>3. offeredRead.hook # h
    BY <1>1, <2>1, <2>2
  <2>4. offeredRead.order < nextOrder
    BY <1>5, <2>1, <2>2 DEF Stashed
  <2> QED
    BY <1>4, <2>1, <2>2, <2>3, <2>4
<1>18. Offered'
  <2>1. offered = "resolved" => resolved'[offeredRead.hook] = offeredRead
    BY <1>9, <1>17
  <2>2. offered = "resolved" /\ offeredRead \in Range(ready') => offeredRead \in Range(ready)
    BY <1>12, <1>17
  <2> QED
    BY <1>1, <2>1, <2>2 DEF IInv, Offered
<1>19. Enqueued'
  <2> SUFFICES ASSUME NEW g \in enabled, resolved'[g] # NoRead
               PROVE  resolved'[g] = offeredRead \/ resolved'[g] \in Range(ready')
    BY <1>1 DEF Enqueued
  <2>1. CASE g = h
    BY <1>9, <1>12, <2>1
  <2>2. CASE g # h
    <3>1. g \in Hooks
      BY DEF IInv, TypeOK
    <3>2. resolved'[g] = resolved[g]
      BY <1>9, <2>2, <3>1
    <3> QED
      BY <1>12, <3>2 DEF IInv, Enqueued
  <2> QED
    BY <2>1, <2>2
<1>20. CallbacksBehind'
  <2> SUFFICES ASSUME offered = "resolved", offeredRead.hook # Auth, NEW x \in Range(ready'), x.hook = Auth
               PROVE  offeredRead.order < x.order
    BY <1>1 DEF CallbacksBehind
  <2>1. CASE x \in Range(ready)
    BY <2>1 DEF IInv, CallbacksBehind
  <2>2. CASE x = r
    BY <1>4, <1>17, <2>2
  <2> QED
    BY <1>12, <2>1, <2>2
<1> QED
  BY <1>11, <1>12, <1>13, <1>14, <1>16, <1>18, <1>19, <1>20 DEF DataInv

\* The stashed read of a hook that is not enabled is not queued, and takes its
\* place in the queue when the hook is enabled.
LEMMA StashIsEnqueued ==
  ASSUME IInv, ~Leftover, NEW h \in Hooks, h \notin enabled, resolved[h] # NoRead
  PROVE  LET r == resolved[h]
         IN /\ r \in Read /\ r.hook = h /\ r.order < nextOrder
            /\ \A x \in Range(ready) : x.hook # h /\ x.order # r.order
            /\ Insert(ready, r) \in Seq(Read) /\ Sorted(Insert(ready, r))
            /\ Range(Insert(ready, r)) = Range(ready) \cup {r}
<1> DEFINE r == resolved[h]
<1>1. ready \in Seq(Read) /\ Sorted(ready)
  BY DEF IInv, TypeOK, Queue
<1>2. \A x \in Range(ready) : x.hook \in enabled /\ resolved[x.hook] = x
  BY DEF IInv, Queue
<1>3. \A x \in Range(ready) : x.hook \in Hooks /\ x # NoRead
  BY QueuedReads DEF IInv
<1>4. r \in Read
  BY QueuedReads DEF IInv
<1>5. /\ r.hook = h /\ r.order < nextOrder
      /\ \A g \in Hooks : resolved[g].order = r.order /\ resolved[g] # NoRead => g = h
  BY DEF IInv, Stashed
<1>6. \A x \in Range(ready) : x.hook # h
  BY <1>2
<1>7. \A x \in Range(ready) : x.order # r.order
  BY <1>2, <1>3, <1>5, <1>6
<1> HIDE DEF r
<1>8. /\ Insert(ready, r) \in Seq(Read) /\ Sorted(Insert(ready, r))
      /\ Range(Insert(ready, r)) = Range(ready) \cup {r}
  BY <1>1, <1>4, <1>7, InsertSorted
<1> QED
  BY <1>4, <1>5, <1>6, <1>7, <1>8 DEF r

\* An alias is claimed: what was read from it meanwhile is enqueued.
LEMMA RekeyClaimedKeeps ==
  ASSUME IInv, RekeyClaimed
  PROVE  DataInv' /\ ready' \in Seq(Read)
<1> DEFINE h == rekeyTo
           r == resolved[h]
<1>1. /\ h # NoHook /\ rekeyFrom = NoHook /\ enabled' = enabled \cup {h}
      /\ ready' = IF r # NoRead THEN Insert(ready, r) ELSE ready
      /\ UNCHANGED <<read, resolved, nextOrder, offered, offeredRead, mode, awaitAuth, consumed>>
  BY DEF RekeyClaimed, worldVars, waitVars
<1>2. h \in Aliases /\ h \in Hooks /\ h # Auth /\ ready \in Seq(Read)
  BY <1>1, InboxConstants DEF IInv, TypeOK, Hooks
<1>3. h \notin enabled /\ mode \notin WaitModes
  BY <1>1 DEF IInv, Slots
<1>4. ~Leftover
  BY <1>3 DEF Leftover, WaitModes
<1>5. pending \subseteq pending'
  BY DEF RekeyClaimed, Armed
<1>6. /\ r # NoRead => r.hook = h /\ r.order < nextOrder
      /\ r # NoRead => \A x \in Range(ready) : x.hook # h
      /\ ready' \in Seq(Read) /\ Sorted(ready')
      /\ Range(ready') = Range(ready) \cup (IF r # NoRead THEN {r} ELSE {})
  <2>1. CASE r = NoRead
    BY <1>1, <1>2, <2>1 DEF IInv, Queue
  <2>2. CASE r # NoRead
    BY <1>1, <1>2, <1>3, <1>4, <2>2, StashIsEnqueued
  <2> QED
    BY <2>1, <2>2
<1>7. ExactlyOnceInOrder'
  BY <1>1 DEF IInv, ExactlyOnceInOrder
<1>8. Stashed'
  BY <1>1, <1>5 DEF IInv, Stashed
<1>9. Queue'
  <2>1. /\ \A x \in Range(ready) : x.order < nextOrder /\ x.hook \in enabled /\ resolved[x.hook] = x
        /\ \A x, y \in Range(ready) : x.hook = y.hook => x = y
    BY <1>4 DEF IInv, Queue
  <2> HIDE DEF h
  <2>2. \A x \in Range(ready') : x.order < nextOrder /\ x.hook \in enabled' /\ resolved[x.hook] = x
    BY <1>1, <1>6, <2>1
  <2>3. \A x, y \in Range(ready') : x.hook = y.hook => x = y
    BY <1>6, <2>1
  <2> QED
    BY <1>1, <1>6, <2>2, <2>3 DEF Queue
<1>10. Offered'
  <2>1. offered = "resolved" => offeredRead.hook \in enabled \cup {Auth}
    BY DEF IInv, Offered
  <2>2. offered = "resolved" /\ offeredRead \in Range(ready') => offeredRead \in Range(ready)
    BY <1>2, <1>3, <1>6, <2>1
  <2> QED
    BY <1>1, <2>2 DEF IInv, Offered
<1>11. Enqueued'
  BY <1>1, <1>6 DEF IInv, Enqueued
<1>12. CallbacksBehind'
  BY <1>1, <1>2, <1>6 DEF IInv, CallbacksBehind
<1> QED
  BY <1>6, <1>7, <1>8, <1>9, <1>10, <1>11, <1>12 DEF DataInv

\* The window closes: the callback is stashed again and leaves no copy behind.
LEMMA CloseWindowKeeps ==
  ASSUME IInv, CloseWindow, awaitAuth' = FALSE, UNCHANGED <<read, consumed>>
  PROVE  DataInv' /\ ready' \in Seq(Read) /\ Auth \notin enabled'
<1>1. /\ enabled' = enabled \ {Auth} /\ ready' = WithoutCallback(ready)
      /\ UNCHANGED <<read, consumed, pending, resolved, nextOrder, offered, offeredRead>>
  BY DEF CloseWindow
<1>2. ready \in Seq(Read) /\ Sorted(ready)
      /\ \A x, y \in Range(ready) : x.hook = y.hook => x = y
  BY DEF IInv, TypeOK, Queue
<1>3. /\ ready' \in Seq(Read) /\ Sorted(ready')
      /\ Range(ready') = {x \in Range(ready) : x.hook # Auth}
  BY <1>1, <1>2, CallbackRemoved
<1>4. ExactlyOnceInOrder'
  BY <1>1 DEF IInv, ExactlyOnceInOrder
<1>5. Stashed'
  BY <1>1 DEF IInv, Stashed
<1>6. Queue'
  <2>1. \A x \in Range(ready') : x.order < nextOrder /\ x.hook \in enabled' /\ resolved[x.hook] = x
    BY <1>1, <1>3 DEF IInv, Queue
  <2> QED
    BY <1>1, <1>2, <1>3, <2>1 DEF Queue
<1>7. Offered'
  BY <1>1, <1>3 DEF IInv, Offered
<1>8. Enqueued'
  <2> SUFFICES ASSUME NEW h \in enabled', resolved[h] # NoRead
               PROVE  resolved[h] = offeredRead \/ resolved[h] \in Range(ready')
    BY <1>1 DEF Enqueued
  <2>1. h \in enabled /\ h # Auth /\ h \in Hooks
    BY <1>1 DEF IInv, TypeOK
  <2>2. resolved[h].hook = h
    BY <2>1 DEF IInv, Stashed
  <2>3. resolved[h] = offeredRead \/ resolved[h] \in Range(ready)
    BY <2>1 DEF IInv, Enqueued
  <2> QED
    BY <1>3, <2>1, <2>2, <2>3
<1>9. CallbacksBehind'
  BY <1>1, <1>3 DEF CallbacksBehind
<1> QED
  BY <1>1, <1>3, <1>4, <1>5, <1>6, <1>7, <1>8, <1>9 DEF DataInv

\* The window opens: a stashed callback is enqueued, and a session read that is
\* younger gives up its place.
LEMMA OpenWindowKeeps ==
  ASSUME IInv, OpenWindow, mode = "settled", mode' = "check", awaitAuth' = TRUE,
         UNCHANGED <<read, consumed>>
  PROVE  DataInv' /\ ready' \in Seq(Read) /\ offeredRead' \in Read \cup {NoRead}
         /\ offered' \in {"none", "waiting", "resolved"}
<1> DEFINE r == resolved[Auth]
           q == IF r # NoRead THEN Insert(ready, r) ELSE ready
           supersede == /\ offered = "resolved" /\ offeredRead.hook # Auth
                        /\ r # NoRead /\ r.order < offeredRead.order
<1>1. Auth \in Hooks /\ Auth \notin enabled /\ ~Leftover
  BY DEF IInv, Slots, Hooks, WaitModes, Leftover
<1>2. /\ enabled' = enabled \cup {Auth}
      /\ ready' = IF supersede THEN Insert(q, offeredRead) ELSE q
      /\ offered' = IF supersede THEN "none" ELSE offered
      /\ offeredRead' = IF supersede THEN NoRead ELSE offeredRead
      /\ UNCHANGED <<read, consumed, resolved, nextOrder>>
  BY <1>1 DEF OpenWindow
<1>3. pending \subseteq pending'
  BY DEF OpenWindow, Armed
<1>4. /\ ready \in Seq(Read) /\ Sorted(ready) /\ offeredRead \in Read \cup {NoRead}
      /\ offered \in {"none", "waiting", "resolved"}
  BY DEF IInv, TypeOK, Queue
<1>5. /\ \A x \in Range(ready) : x.order < nextOrder /\ x.hook \in enabled /\ resolved[x.hook] = x
      /\ \A x, y \in Range(ready) : x.hook = y.hook => x = y
  BY <1>1 DEF IInv, Queue
<1>6. /\ r # NoRead => r \in Read /\ r.hook = Auth /\ r.order < nextOrder
      /\ q \in Seq(Read) /\ Sorted(q)
      /\ Range(q) = Range(ready) \cup (IF r # NoRead THEN {r} ELSE {})
  <2>1. CASE r = NoRead
    BY <1>4, <2>1
  <2>2. CASE r # NoRead
    BY <1>1, <2>2, StashIsEnqueued
  <2> QED
    BY <2>1, <2>2
<1>7. offered = "resolved" =>
        /\ offeredRead \in Read /\ offeredRead.hook \in Hooks /\ offeredRead # NoRead
        /\ resolved[offeredRead.hook] = offeredRead /\ offeredRead.hook \in enabled \cup {Auth}
        /\ offeredRead \notin Range(ready)
  BY ReadFields DEF IInv, Offered
<1>8. ASSUME NEW x \in Range(ready) \cup (IF r # NoRead THEN {r} ELSE {}), x # offeredRead,
             offered = "resolved"
      PROVE  x.order # offeredRead.order
  <2>1. resolved[x.hook] = x /\ x # NoRead /\ x.hook \in Hooks
    BY <1>1, <1>5, <1>6, <1>8, QueuedReads DEF IInv
  <2>2. offeredRead.hook \in Hooks /\ resolved[offeredRead.hook] = offeredRead /\ offeredRead # NoRead
    BY <1>7, <1>8
  <2>3. x.order = offeredRead.order => x.hook = offeredRead.hook
    <3>1. \A g, h \in Hooks : resolved[g] # NoRead /\ resolved[h] # NoRead
                               /\ resolved[g].order = resolved[h].order => g = h
      BY DEF IInv, Stashed
    <3> QED
      BY <2>1, <2>2, <3>1
  <2> QED
    BY <1>8, <2>1, <2>2, <2>3
<1> HIDE DEF r, q
<1>9. ExactlyOnceInOrder'
  BY <1>2 DEF IInv, ExactlyOnceInOrder
<1>10. Stashed'
  BY <1>2, <1>3 DEF IInv, Stashed
<1>11. CASE supersede
  <2>1. ready' = Insert(q, offeredRead) /\ offered' = "none" /\ offeredRead' = NoRead
    BY <1>2, <1>11
  <2>2. offeredRead \notin Range(q) /\ offeredRead \in Read
    BY <1>6, <1>7, <1>11
  <2>3. \A x \in Range(q) : x.order # offeredRead.order
    BY <1>6, <1>8, <1>11, <2>2
  <2>4. ready' \in Seq(Read) /\ Sorted(ready') /\ Range(ready') = Range(q) \cup {offeredRead}
    BY <1>6, <2>1, <2>2, <2>3, InsertSorted
  <2>5. offeredRead.hook \in enabled /\ offeredRead.order < nextOrder
        /\ resolved[offeredRead.hook] = offeredRead
    BY <1>7, <1>11 DEF IInv, Stashed
  <2>6. \A x \in Range(ready') : x.order < nextOrder /\ x.hook \in enabled' /\ resolved[x.hook] = x
    BY <1>2, <1>5, <1>6, <2>4, <2>5 DEF r
  <2>7. \A x, y \in Range(ready') : x.hook = y.hook => x = y
    BY <2>6
  <2>8. Queue'
    BY <1>2, <2>4, <2>6, <2>7 DEF Queue
  <2>9. Offered' /\ CallbacksBehind'
    BY <2>1 DEF Offered, CallbacksBehind
  <2>10. Enqueued'
    BY <1>2, <1>6, <2>4 DEF IInv, Enqueued, r
  <2> QED
    BY <1>9, <1>10, <2>1, <2>4, <2>8, <2>9, <2>10 DEF DataInv
<1>12. CASE ~supersede
  <2>1. ready' = q /\ offered' = offered /\ offeredRead' = offeredRead
    BY <1>2, <1>12
  <2>2. \A x \in Range(q) : x.order < nextOrder /\ x.hook \in enabled' /\ resolved[x.hook] = x
    BY <1>2, <1>5, <1>6 DEF r
  <2>3. \A x, y \in Range(q) : x.hook = y.hook => x = y
    BY <2>2
  <2>4. Queue'
    BY <1>2, <1>6, <2>1, <2>2, <2>3 DEF Queue
  <2>5. offered = "resolved" /\ offeredRead \in Range(q) => offeredRead.hook = Auth
    BY <1>6, <1>7
  <2>6. Offered'
    BY <1>2, <1>7, <2>1, <2>5 DEF IInv, Offered
  <2>7. Enqueued'
    BY <1>2, <1>6, <2>1 DEF IInv, Enqueued, r
  <2>8. CallbacksBehind'
    <3> SUFFICES ASSUME offered = "resolved", offeredRead.hook # Auth, NEW x \in Range(q), x.hook = Auth
                 PROVE  offeredRead.order < x.order
      BY <2>1 DEF CallbacksBehind
    <3>1. x = r /\ r # NoRead
      BY <1>1, <1>5, <1>6
    <3>2. x.order # offeredRead.order
      BY <1>6, <1>8
    <3>3. ~(x.order < offeredRead.order)
      BY <1>12, <3>1
    <3>4. x.order \in Nat /\ offeredRead.order \in Nat
      BY <1>6, <1>7, <3>1, ReadFields
    <3> QED
      BY <3>2, <3>3, <3>4
  <2> QED
    BY <1>4, <1>6, <1>9, <1>10, <2>1, <2>4, <2>6, <2>7, <2>8 DEF DataInv
<1> QED
  BY <1>11, <1>12

-----------------------------------------------------------------------------
(* Every step keeps the invariant.                                         *)

ReadTypes ==
  /\ read \in [Hooks -> 0..MaxPayloads] /\ consumed \in [Hooks -> Seq(ConsumedRead)]
  /\ resolved \in [Hooks -> Read \cup {NoRead}] /\ ready \in Seq(Read) /\ nextOrder \in Nat
  /\ offered \in {"none", "waiting", "resolved"} /\ offeredRead \in Read \cup {NoRead}
  /\ pending \subseteq Hooks /\ enabled \subseteq Hooks
ControlTypes ==
  /\ committed \in [Hooks -> 0..MaxPayloads] /\ live \subseteq Hooks
  /\ stable \in {Stable, NoHook} /\ authorization \in {Auth, NoHook}
  /\ continuation \in Aliases \cup {NoHook} /\ retired \subseteq Aliases
  /\ mode \in Modes /\ awaitAuth \in BOOLEAN /\ defer \in BOOLEAN
  /\ controls \in Nat /\ deliveries \in Nat
  /\ rekeyTo \in Aliases \cup {NoHook} /\ rekeyFrom \in Aliases \cup {NoHook}

\* The types, in two parts.
LEMMA Types == (TypeOK <=> ReadTypes /\ ControlTypes) /\ (TypeOK' <=> ReadTypes' /\ ControlTypes')
BY DEF TypeOK, ReadTypes, ControlTypes

\* A new inbox has no hook and no read.
LEMMA InitIInv == Init => IInv
<1> SUFFICES ASSUME Init PROVE IInv
  OBVIOUS
<1>1. /\ ready = <<>> /\ offered = "none" /\ offeredRead = NoRead /\ mode = "claiming"
      /\ pending = {} /\ enabled = {} /\ awaitAuth = FALSE /\ rekeyTo = NoHook /\ rekeyFrom = NoHook
      /\ (\A h \in Hooks : resolved[h] = NoRead /\ read[h] = 0 /\ consumed[h] = <<>>)
  BY DEF Init
<1>2. <<>> \in Seq(Read) /\ <<>> \in Seq(ConsumedRead) /\ Len(<<>>) = 0 /\ Range(<<>>) = {}
  BY RangeOfFew
<1>3. TypeOK
  <2>1. ControlTypes
    <3>1. committed \in [Hooks -> 0..MaxPayloads]
      BY InboxConstants DEF Init
    <3>2. mode \in Modes /\ awaitAuth \in BOOLEAN /\ defer \in BOOLEAN
          /\ controls \in Nat /\ deliveries \in Nat
      BY DEF Init, Modes
    <3> QED
      BY <3>1, <3>2 DEF Init, ControlTypes
  <2>2. ReadTypes
    <3>1. read \in [Hooks -> 0..MaxPayloads] /\ consumed \in [Hooks -> Seq(ConsumedRead)]
          /\ resolved \in [Hooks -> Read \cup {NoRead}]
      BY <1>2, InboxConstants DEF Init
    <3> QED
      BY <1>2, <3>1 DEF Init, ReadTypes
  <2> QED
    BY <2>1, <2>2, Types
<1>4. ExactlyOnceInOrder
  BY <1>1, <1>2 DEF ExactlyOnceInOrder
<1>5. Stashed
  <2> SUFFICES ASSUME NEW h \in Hooks
               PROVE  /\ read[h] = Len(consumed[h]) + (IF resolved[h] = NoRead THEN 0 ELSE 1)
                      /\ resolved[h] = NoRead
    BY DEF Stashed
  <2>1. read[h] = 0 /\ consumed[h] = <<>> /\ resolved[h] = NoRead
    BY <1>1
  <2> QED
    BY <1>2, <2>1
<1>6. Queue
  BY <1>1, <1>2 DEF Queue, Sorted
<1>7. Offered /\ Enqueued /\ CallbacksBehind
  BY <1>1 DEF Offered, Enqueued, CallbacksBehind
<1>8. Slots
  BY <1>1 DEF Slots, WaitModes
<1> QED
  BY <1>3, <1>4, <1>5, <1>6, <1>7, <1>8 DEF IInv

\* What is left to show of a step that moves no read.
LEMMA QuietStep ==
  ASSUME IInv, UNCHANGED reads, UNCHANGED <<awaitAuth, enabled, pending>>,
         mode = "leaving" => mode' = "leaving",
         offeredRead \in Range(ready) => mode' \in {"check", "reading", "leaving"},
         ControlTypes', Slots'
  PROVE  IInv'
<1>1. DataInv'
  BY QuietKeeps
<1>2. ReadTypes'
  BY Types DEF IInv, ReadTypes, reads
<1>3. TypeOK'
  BY <1>2, Types
<1> QED
  BY <1>1, <1>3 DEF IInv, DataInv

\* Where a callback may be both offered and queued, and where nothing is rekeyed.
LEMMA CopiedCallback ==
  ASSUME IInv, offeredRead \in Range(ready)
  PROVE  mode \in {"check", "reading", "leaving"} /\ rekeyTo = NoHook /\ rekeyFrom = NoHook
         /\ offered = "resolved" /\ offeredRead.hook = Auth /\ awaitAuth
<1>1. offered = "resolved"
  BY QueuedReads DEF IInv, Offered
<1> QED
  BY <1>1 DEF IInv, Offered, Slots, WaitModes

\* The runtime commits a payload, the driver claims its callback hook and starts.
LEMMA CommitSteps ==
  ASSUME IInv, (\E h \in Hooks : Commit(h)) \/ ClaimAuthorization \/ StartDriver \/ UNCHANGED vars
  PROVE  IInv'
<1>1. ControlTypes
  BY Types DEF IInv
<1>2. CASE \E h \in Hooks : Commit(h)
  <2>1. PICK h \in Hooks : Commit(h)
    BY <1>2
  <2>2. /\ committed[h] < MaxPayloads /\ committed' = [committed EXCEPT ![h] = @ + 1]
        /\ UNCHANGED <<live, read, inboxVars, mode, waitVars, rekeyVars, consumed>>
    BY <2>1 DEF Commit
  <2>3. ControlTypes'
    BY <1>1, <2>2, InboxConstants DEF ControlTypes, inboxVars, waitVars, rekeyVars
  <2>4. Slots'
    BY <2>2 DEF IInv, Slots, inboxVars, waitVars, rekeyVars
  <2> QED
    BY <2>2, <2>3, <2>4, QuietStep, CopiedCallback DEF reads, inboxVars, waitVars
<1>3. CASE ClaimAuthorization
  <2>1. ControlTypes'
    BY <1>1, <1>3 DEF ClaimAuthorization, ControlTypes, waitVars, rekeyVars, Hooks
  <2>2. Slots'
    BY <1>3 DEF IInv, Slots, ClaimAuthorization, waitVars, rekeyVars, WaitModes
  <2> QED
    BY <1>3, <2>1, <2>2, QuietStep, CopiedCallback DEF ClaimAuthorization, reads, waitVars
<1>4. CASE StartDriver
  <2>1. ControlTypes'
    BY <1>1, <1>4 DEF StartDriver, ControlTypes, worldVars, inboxVars, waitVars, rekeyVars, Modes
  <2>2. Slots'
    BY <1>1, <1>4 DEF IInv, Slots, StartDriver, ControlTypes, worldVars, inboxVars, waitVars, rekeyVars,
       WaitModes
  <2> QED
    BY <1>4, <2>1, <2>2, QuietStep, CopiedCallback DEF StartDriver, reads, worldVars, inboxVars, waitVars
<1>5. CASE UNCHANGED vars
  <2>1. ControlTypes'
    BY <1>1, <1>5 DEF ControlTypes, vars, worldVars, inboxVars, waitVars, rekeyVars
  <2>2. Slots'
    BY <1>5 DEF IInv, Slots, vars, worldVars, inboxVars, waitVars, rekeyVars
  <2> QED
    BY <1>5, <2>1, <2>2, QuietStep, CopiedCallback DEF vars, reads, worldVars, inboxVars, waitVars
<1> QED
  BY <1>2, <1>3, <1>4, <1>5

\* The driver moves on without touching the inbox.
LEMMA DriverSteps ==
  ASSUME IInv, TurnSettles \/ TakeControl \/ TakeBuffered \/ StartReading \/ Routed
  PROVE  IInv'
<1>1. ControlTypes
  BY Types DEF IInv
<1>2. /\ UNCHANGED <<worldVars, inboxVars, awaitAuth, rekeyVars, consumed>> /\ mode # "leaving"
      /\ mode' \in {"settled", "check", "reading", "routing", "leaving"}
      /\ mode \in {"turn", "check", "routing"} /\ DriverFree
      /\ mode' \in WaitModes \/ (mode = "turn" /\ mode' = "settled")
  BY DEF TurnSettles, TakeControl, TakeBuffered, StartReading, Routed, waitVars, IInv, Slots,
         DriverFree, WaitModes
<1>3. ControlTypes'
  <2>1. controls' \in Nat /\ deliveries' \in Nat /\ defer' \in BOOLEAN
    BY <1>1 DEF ControlTypes, TurnSettles, TakeControl, TakeBuffered, StartReading, Routed, waitVars
  <2>2. mode' \in Modes
    BY <1>2 DEF Modes
  <2> QED
    BY <1>1, <1>2, <2>1, <2>2 DEF ControlTypes, worldVars, inboxVars, rekeyVars
<1>4. Slots'
  BY <1>2 DEF IInv, Slots, worldVars, inboxVars, rekeyVars, DriverFree, WaitModes
<1>5. ASSUME offeredRead \in Range(ready) PROVE mode' \in {"check", "reading", "leaving"}
  <2>1. /\ mode \in {"check", "reading", "leaving"} /\ offered = "resolved"
        /\ offeredRead.hook = Auth /\ awaitAuth
    BY <1>5, CopiedCallback
  <2>2. authorization = Auth /\ Auth \in enabled
    BY <2>1 DEF IInv, Slots
  <2>3. resolved[Auth] # NoRead
    BY <2>1, ReadFields DEF IInv, Offered
  <2>4. HasReadyAuthorization
    <3>1. Auth # NoHook
      BY InboxConstants DEF Hooks
    <3> QED
      BY <2>1, <2>2, <2>3, <3>1 DEF HasReadyAuthorization
  <2>5. ~TakeBuffered
    BY <2>4 DEF TakeBuffered
  <2> QED
    BY <2>1, <2>5 DEF TurnSettles, TakeControl, StartReading, Routed
<1> QED
  BY <1>2, <1>3, <1>4, <1>5, QuietStep DEF reads, worldVars, inboxVars

\* An alias is released, or every hook is.
LEMMA ReleaseSteps ==
  ASSUME IInv, RekeyReleased \/ Dispose
  PROVE  IInv'
<1>1. ControlTypes
  BY Types DEF IInv
<1>2. /\ UNCHANGED reads /\ UNCHANGED <<awaitAuth, enabled, pending>>
      /\ mode' \in {mode, "disposed"} /\ mode \notin WaitModes
  BY DEF RekeyReleased, Dispose, reads, waitVars, IInv, Slots, WaitModes
<1>3. mode # "leaving" /\ offeredRead \notin Range(ready)
  BY <1>2, CopiedCallback DEF WaitModes
<1>4. ControlTypes'
  BY <1>1 DEF RekeyReleased, Dispose, ControlTypes, waitVars, Modes
<1>5. Slots'
  <2>1. CASE RekeyReleased
    BY <1>1, <1>2, <2>1 DEF RekeyReleased, IInv, Slots, waitVars, ControlTypes
  <2>2. CASE Dispose
    BY <1>1, <1>2, <2>2 DEF Dispose, IInv, Slots, waitVars, WaitModes
  <2> QED
    BY <2>1, <2>2
<1> QED
  BY <1>2, <1>3, <1>4, <1>5, QuietStep

\* The driver claims its own hook, or begins to claim an alias.
LEMMA ClaimSteps ==
  ASSUME IInv, ClaimStable \/ \E a \in Aliases : RekeyStart(a)
  PROVE  IInv'
<1>1. ControlTypes /\ ReadTypes
  BY Types DEF IInv
<1>2. CASE ClaimStable
  <2>1. /\ mode = "claiming" /\ enabled' = enabled \cup {Stable} /\ live' = live \cup {Stable}
        /\ stable' = Stable /\ UNCHANGED reads /\ UNCHANGED <<pending, awaitAuth, mode>>
        /\ UNCHANGED <<committed, continuation, authorization, retired, waitVars, rekeyVars>>
    BY <1>2 DEF ClaimStable, reads, waitVars
  <2>2. Stable \in Hooks /\ Stable # Auth /\ pending = {} /\ Stable \notin Aliases
    BY <2>1, InboxConstants DEF Hooks, IInv, Slots
  <2>3. resolved[Stable] = NoRead
    BY <2>2 DEF IInv, Stashed
  <2>4. offeredRead \notin Range(ready)
    BY <2>1, CopiedCallback
  <2>5. DataInv'
    BY <2>1, <2>3, <2>4, QuietKeeps
  <2>6. ReadTypes' /\ ControlTypes'
    <3>1. ReadTypes'
      BY <1>1, <2>1, <2>2 DEF ReadTypes, reads
    <3>2. ControlTypes'
      BY <1>1, <2>1, <2>2 DEF ControlTypes, waitVars, rekeyVars
    <3> QED
      BY <3>1, <3>2
  <2>7. Slots'
    <3>1. Slots /\ rekeyTo \in Aliases \cup {NoHook}
      BY <1>1 DEF IInv, ControlTypes
    <3>2. rekeyTo # Stable \/ rekeyTo = NoHook
      BY <2>2, <3>1
    <3>3. offered' = offered
      BY <2>1 DEF reads
    <3> QED
      BY <2>1, <2>2, <3>1, <3>2, <3>3 DEF Slots, rekeyVars, WaitModes
  <2> QED
    BY <2>5, <2>6, <2>7, Types DEF IInv, DataInv
<1>3. CASE \E a \in Aliases : RekeyStart(a)
  <2>1. PICK a \in Aliases : RekeyStart(a)
    BY <1>3
  <2>2. /\ mode \in {"claiming", "turn", "settled"} /\ (mode = "claiming" => continuation = NoHook)
        /\ rekeyTo = NoHook /\ a \notin live /\ a \notin retired
        /\ rekeyTo' = a /\ live' = live \cup {a}
        /\ pending' = (IF continuation = NoHook THEN pending ELSE pending \cup {a})
        /\ UNCHANGED reads /\ UNCHANGED <<enabled, awaitAuth, mode>>
        /\ UNCHANGED <<committed, stable, continuation, authorization, retired, waitVars, rekeyFrom>>
    BY <2>1 DEF RekeyStart, reads, waitVars, RekeyModes, Armed
  <2>3. a \in Hooks /\ a # NoHook
    BY InboxConstants DEF Hooks
  <2>4. offeredRead \notin Range(ready)
    BY <2>2, CopiedCallback
  <2>5. DataInv'
    <3>1. pending \subseteq pending'
      BY <2>2
    <3> QED
      BY <2>2, <2>4, <3>1, QuietKeeps
  <2>6. ReadTypes' /\ ControlTypes'
    <3>1. ReadTypes'
      BY <1>1, <2>2, <2>3 DEF ReadTypes, reads
    <3>2. ControlTypes'
      BY <1>1, <2>2, <2>3 DEF ControlTypes, waitVars
    <3> QED
      BY <3>1, <3>2
  <2>7. Slots'
    <3>1. Slots
      BY DEF IInv
    <3>2. a \notin enabled
      BY <2>2, <3>1, InboxConstants DEF Slots
    <3>3. offered' = offered
      BY <2>2 DEF reads
    <3> QED
      BY <2>2, <2>3, <3>1, <3>2, <3>3 DEF Slots, WaitModes
  <2> QED
    BY <2>5, <2>6, <2>7, Types DEF IInv, DataInv
<1> QED
  BY <1>2, <1>3

\* The candidate becomes the alias.
LEMMA RekeyClaimedStep ==
  ASSUME IInv, RekeyClaimed
  PROVE  IInv'
<1>1. ControlTypes /\ ReadTypes
  BY Types DEF IInv
<1>2. DataInv' /\ ready' \in Seq(Read)
  BY RekeyClaimedKeeps
<1>3. /\ rekeyTo # NoHook /\ rekeyFrom = NoHook /\ enabled' = enabled \cup {rekeyTo}
      /\ continuation' = rekeyTo
      /\ UNCHANGED <<committed, live, read, stable, authorization, retired, resolved, nextOrder,
                      offered, offeredRead, mode, awaitAuth, defer, controls, deliveries, consumed>>
  BY DEF RekeyClaimed, worldVars, waitVars
<1>4. /\ continuation = NoHook => /\ pending' \in {pending, pending \cup {rekeyTo}}
                                  /\ offered = "none" => pending' = pending
                                  /\ rekeyTo' = NoHook /\ rekeyFrom' = rekeyFrom
      /\ continuation # NoHook => /\ pending' = pending \cup {continuation}
                                  /\ rekeyFrom' = continuation /\ rekeyTo' = rekeyTo
  BY DEF RekeyClaimed, Armed
<1>5. rekeyTo \in Aliases /\ rekeyTo \in Hooks /\ rekeyTo # Auth
  BY <1>1, <1>3, InboxConstants DEF ControlTypes, Hooks
<1>6. continuation \in Aliases \cup {NoHook} /\ Aliases \subseteq Hooks
  BY <1>1 DEF ControlTypes, Hooks
<1>7. ReadTypes' /\ ControlTypes'
  <2>1. pending' \subseteq Hooks /\ enabled' \subseteq Hooks
    BY <1>1, <1>3, <1>4, <1>5, <1>6 DEF ReadTypes
  <2>2. ReadTypes'
    BY <1>1, <1>2, <1>3, <2>1 DEF ReadTypes
  <2>3. ControlTypes'
    BY <1>1, <1>3, <1>4, <1>5, <1>6 DEF ControlTypes
  <2> QED
    BY <2>2, <2>3
<1>8. Slots'
  <2>1. Slots
    BY DEF IInv
  <2>2. mode \notin WaitModes /\ rekeyTo \in live
    BY <1>3, <2>1 DEF Slots
  <2>3. Auth \in enabled' <=> awaitAuth'
    BY <1>3, <1>5, <2>1 DEF Slots
  <2>4. mode = "claiming" => continuation = NoHook /\ offered = "none" /\ pending = {}
    BY <1>3, <2>1 DEF Slots
  <2> QED
    BY <1>3, <1>4, <2>1, <2>2, <2>3, <2>4 DEF Slots
<1> QED
  BY <1>2, <1>7, <1>8, Types DEF IInv, DataInv

\* A read resolves.
LEMMA ReadResolvesStep ==
  ASSUME IInv, NEW h \in Hooks, ReadResolves(h)
  PROVE  IInv'
<1>1. ControlTypes /\ ReadTypes
  BY Types DEF IInv
<1>2. /\ DataInv' /\ read' \in [Hooks -> 0..MaxPayloads] /\ ready' \in Seq(Read)
      /\ resolved' \in [Hooks -> Read \cup {NoRead}]
  BY ReadResolvesKeeps
<1>3. /\ nextOrder' = nextOrder + 1
      /\ UNCHANGED <<committed, live, stable, continuation, authorization, retired, pending, enabled,
                      offered, offeredRead, mode, awaitAuth, defer, controls, deliveries,
                      rekeyTo, rekeyFrom, consumed>>
  BY DEF ReadResolves, waitVars, rekeyVars
<1>4. ReadTypes'
  BY <1>1, <1>2, <1>3 DEF ReadTypes
<1>5. ControlTypes'
  BY <1>1, <1>3 DEF ControlTypes
<1>6. Slots'
  BY <1>3 DEF IInv, Slots
<1> QED
  BY <1>2, <1>4, <1>5, <1>6, Types DEF IInv, DataInv

\* The oldest ready read is offered, to a new next() or to one that waited.
LEMMA OfferSteps ==
  ASSUME IInv, OfferedWakes \/ TurnReads \/ WaitReads
  PROVE  IInv'
<1>1. ControlTypes /\ ReadTypes
  BY Types DEF IInv
<1>2. /\ TakeHead(ready) /\ offered \in {"none", "waiting"}
      /\ pending' \in {pending, pending \cup States}
      /\ offered = "none" => mode \in {"drain", "turn", "reading"}
      /\ UNCHANGED <<committed, live, read, stable, continuation, authorization, retired, enabled,
                      resolved, nextOrder, mode, awaitAuth, defer, controls, deliveries,
                      rekeyTo, rekeyFrom, consumed>>
  <2>1. CASE OfferedWakes
    BY <2>1 DEF OfferedWakes, worldVars, waitVars, rekeyVars
  <2>2. CASE TurnReads
    BY <2>2 DEF TurnReads, NextRead, Armed, TurnModes, worldVars, waitVars, rekeyVars
  <2>3. CASE WaitReads
    BY <2>3 DEF WaitReads, NextRead, Armed, worldVars, waitVars, rekeyVars
  <2> QED
    BY <2>1, <2>2, <2>3
<1>3. States \subseteq Hooks
  BY <1>1 DEF ControlTypes, States, Hooks
<1>4. ~Leftover
  BY <1>2 DEF Leftover
<1>5. DataInv' /\ ready' \in Seq(Read) /\ offeredRead' \in Read \cup {NoRead}
      /\ offered' \in {"waiting", "resolved"}
  BY <1>2, <1>4, TakeHeadKeeps
<1>6. ReadTypes'
  BY <1>1, <1>2, <1>3, <1>5 DEF ReadTypes
<1>7. ControlTypes'
  BY <1>1, <1>2 DEF ControlTypes
<1>8. Slots'
  <2>1. mode # "claiming"
    BY <1>2 DEF IInv, Slots
  <2> QED
    BY <1>2, <2>1 DEF IInv, Slots
<1> QED
  BY <1>5, <1>6, <1>7, <1>8, Types DEF IInv, DataInv

\* The driver consumes the offered read, in a turn or in a parked wait.
LEMMA ConsumeSteps ==
  ASSUME IInv, TurnConsumes \/ WaitTakesAuthorization \/ WaitTakesCommand
  PROVE  IInv'
<1>1. ControlTypes /\ ReadTypes
  BY Types DEF IInv
<1>2. PICK as \in {"session", "authorization"} : ConsumeNext(as)
  BY DEF TurnConsumes, WaitTakesAuthorization, WaitTakesCommand
<1>3. /\ UNCHANGED <<committed, live, read, awaitAuth, defer, rekeyTo, rekeyFrom>>
      /\ \/ mode \in {"drain", "turn"} /\ mode' = "turn"
         \/ mode = "reading" /\ mode' \in {"reading", "leaving", "routing"}
  BY DEF TurnConsumes, WaitTakesAuthorization, WaitTakesCommand, TurnModes, worldVars, rekeyVars, waitVars
<1>4. ASSUME offeredRead \in Range(ready) PROVE mode' = "leaving"
  <2>1. mode \in {"check", "reading", "leaving"} /\ offeredRead.hook = Auth
    BY <1>4, CopiedCallback
  <2>2. authorization = Auth
    BY <2>1 DEF IInv, Slots
  <2> QED
    BY <2>1, <2>2 DEF TurnConsumes, WaitTakesAuthorization, WaitTakesCommand, TurnModes
<1>5. /\ DataInv' /\ consumed' \in [Hooks -> Seq(ConsumedRead)]
      /\ resolved' \in [Hooks -> Read \cup {NoRead}]
  BY <1>2, <1>3, <1>4, ConsumeKeeps
<1>6. /\ pending' \subseteq pending /\ offered' = "none" /\ offeredRead' = NoRead
      /\ UNCHANGED <<stable, continuation, authorization, retired, enabled, ready, nextOrder>>
  BY <1>2 DEF ConsumeNext
<1>7. controls' \in Nat /\ deliveries' \in Nat
  <2>1. controls \in Nat /\ deliveries \in Nat
    BY <1>1 DEF ControlTypes
  <2> QED
    BY <2>1 DEF TurnConsumes, WaitTakesAuthorization, WaitTakesCommand, waitVars
<1>8. ReadTypes'
  BY <1>1, <1>3, <1>5, <1>6 DEF ReadTypes
<1>9. ControlTypes'
  <2>1. mode' \in Modes
    BY <1>3 DEF Modes
  <2> QED
    BY <1>1, <1>3, <1>6, <1>7, <2>1 DEF ControlTypes
<1>10. Slots'
  <2>1. awaitAuth => mode' \in WaitModes
    BY <1>3 DEF IInv, Slots, WaitModes
  <2>2. mode' \in WaitModes => rekeyTo = NoHook
    BY <1>3 DEF IInv, Slots, WaitModes
  <2>3. mode' \notin {"claiming", "disposed"} /\ mode \notin {"claiming", "disposed"}
    BY <1>3
  <2> QED
    BY <1>3, <1>6, <2>1, <2>2, <2>3 DEF IInv, Slots
<1> QED
  BY <1>5, <1>8, <1>9, <1>10, Types DEF IInv, DataInv

\* The session parks, opening the window when a challenge is open.
LEMMA ParkStep ==
  ASSUME IInv, NEW await \in BOOLEAN, NEW task \in BOOLEAN, Park(await, task)
  PROVE  IInv'
<1>1. ControlTypes /\ ReadTypes
  BY Types DEF IInv
<1>2. /\ mode = "settled" /\ mode' = "check" /\ rekeyTo = NoHook
      /\ awaitAuth' = await /\ defer' = task
      /\ UNCHANGED <<committed, live, read, controls, deliveries, rekeyTo, rekeyFrom, consumed>>
  BY DEF Park, DriverFree, worldVars, rekeyVars
<1>3. Slots /\ awaitAuth = FALSE /\ rekeyFrom = NoHook /\ authorization = Auth /\ Auth \notin enabled
  BY <1>1, <1>2 DEF IInv, Slots, ControlTypes, WaitModes
<1>4. offeredRead \notin Range(ready)
  BY <1>2, CopiedCallback
<1>5. UNCHANGED <<stable, continuation, authorization, retired>>
  BY DEF Park, OpenWindow, inboxVars
<1>6. ControlTypes'
  BY <1>1, <1>2, <1>5 DEF ControlTypes, Modes
<1>7. CASE await = TRUE
  <2>1. OpenWindow
    BY <1>7 DEF Park
  <2>2. /\ DataInv' /\ ready' \in Seq(Read) /\ offeredRead' \in Read \cup {NoRead}
        /\ offered' \in {"none", "waiting", "resolved"}
    BY <1>2, <1>7, <2>1, OpenWindowKeeps
  <2>3. /\ enabled' = enabled \cup {Auth} /\ pending' \in {pending, pending \cup {Auth}}
        /\ UNCHANGED <<resolved, nextOrder>>
    BY <2>1 DEF OpenWindow, Armed
  <2>4. ReadTypes'
    <3>1. Auth \in Hooks
      BY DEF Hooks
    <3> QED
      BY <1>1, <1>2, <2>2, <2>3, <3>1 DEF ReadTypes
  <2>5. Slots'
    <3>1. enabled' \ {Auth} \subseteq live \cup retired
      BY <1>2, <1>3, <2>3 DEF Slots
    <3> QED
      BY <1>2, <1>3, <1>5, <1>7, <2>3, <3>1 DEF Slots, WaitModes
  <2> QED
    BY <1>6, <2>2, <2>4, <2>5, Types DEF IInv, DataInv
<1>8. CASE await = FALSE
  <2>1. UNCHANGED inboxVars
    BY <1>8 DEF Park
  <2>2. UNCHANGED reads /\ UNCHANGED <<awaitAuth, enabled, pending>>
    BY <1>2, <1>3, <1>8, <2>1 DEF reads, inboxVars
  <2>3. Slots'
    BY <1>2, <1>3, <1>5, <2>2 DEF Slots, WaitModes
  <2> QED
    BY <1>2, <1>4, <1>6, <2>2, <2>3, QuietStep
<1> QED
  BY <1>7, <1>8

\* The wait ends, closing its window.
LEMMA LeaveWaitStep ==
  ASSUME IInv, LeaveWait
  PROVE  IInv'
<1>1. ControlTypes /\ ReadTypes
  BY Types DEF IInv
<1>2. /\ mode = "leaving" /\ mode' \in {"drain", "turn", "settled"}
      /\ awaitAuth' = FALSE /\ defer' = FALSE
      /\ UNCHANGED <<committed, live, read, controls, deliveries, rekeyTo, rekeyFrom, consumed>>
  BY DEF LeaveWait, worldVars, rekeyVars
<1>3. UNCHANGED <<stable, continuation, authorization, retired, pending, resolved, nextOrder,
                  offered, offeredRead>>
  BY DEF LeaveWait, CloseWindow, inboxVars
<1>4. Slots /\ rekeyTo = NoHook /\ rekeyFrom = NoHook /\ authorization = Auth
  BY <1>2 DEF IInv, Slots, WaitModes
<1>5. ControlTypes'
  <2>1. mode' \in Modes
    BY <1>2 DEF Modes
  <2> QED
    BY <1>1, <1>2, <1>3, <2>1 DEF ControlTypes
<1>6. DataInv' /\ ready' \in Seq(Read) /\ enabled' = enabled \ {Auth}
  <2>1. CASE awaitAuth
    <3>1. CloseWindow
      BY <2>1 DEF LeaveWait
    <3>2. enabled' = enabled \ {Auth}
      BY <3>1 DEF CloseWindow
    <3> QED
      BY <1>2, <3>1, <3>2, CloseWindowKeeps
  <2>2. CASE ~awaitAuth
    <3>1. UNCHANGED reads /\ UNCHANGED <<pending, enabled>>
      BY <1>2, <2>2 DEF LeaveWait, inboxVars, reads
    <3>2. Auth \notin enabled /\ ready \in Seq(Read)
      BY <1>1, <1>4, <2>2 DEF Slots, ReadTypes
    <3>3. offeredRead \notin Range(ready)
      BY <2>2, CopiedCallback
    <3>4. ~Leftover
      BY <2>2 DEF Leftover
    <3>5. /\ read' = read /\ consumed' = consumed /\ resolved' = resolved /\ ready' = ready
          /\ nextOrder' = nextOrder /\ offered' = offered /\ offeredRead' = offeredRead
          /\ pending' = pending /\ enabled' = enabled
      BY <3>1 DEF reads
    <3>6. ExactlyOnceInOrder' /\ Stashed'
      <4>1. ExactlyOnceInOrder'
        BY <3>5 DEF IInv, ExactlyOnceInOrder
      <4>2. Stashed'
        BY <3>5 DEF IInv, Stashed
      <4> QED
        BY <4>1, <4>2
    <3>7. Queue'
      <4>1. \A x \in Range(ready) : x.order < nextOrder /\ x.hook \in enabled /\ resolved[x.hook] = x
        BY <3>4 DEF IInv, Queue
      <4> QED
        BY <3>5, <4>1 DEF IInv, Queue
    <3>8. Offered'
      BY <3>3, <3>5 DEF IInv, Offered
    <3>9. Enqueued' /\ CallbacksBehind'
      BY <3>5 DEF IInv, Enqueued, CallbacksBehind
    <3> QED
      BY <3>2, <3>5, <3>6, <3>7, <3>8, <3>9 DEF DataInv
  <2> QED
    BY <2>1, <2>2
<1>7. ReadTypes'
  BY <1>1, <1>2, <1>3, <1>6 DEF ReadTypes
<1>8. Slots'
  BY <1>2, <1>3, <1>4, <1>6 DEF Slots, WaitModes
<1> QED
  BY <1>5, <1>6, <1>7, <1>8, Types DEF IInv, DataInv

LEMMA NextIInv == IInv /\ [Next]_vars => IInv'
<1> SUFFICES ASSUME IInv, [Next]_vars PROVE IInv'
  OBVIOUS
<1>1. CASE (\E h \in Hooks : Commit(h)) \/ ClaimAuthorization \/ StartDriver \/ UNCHANGED vars
  BY <1>1, CommitSteps
<1>2. CASE \E h \in Hooks : ReadResolves(h)
  BY <1>2, ReadResolvesStep
<1>3. CASE OfferedWakes \/ TurnReads \/ WaitReads
  BY <1>3, OfferSteps
<1>4. CASE ClaimStable \/ \E a \in Aliases : RekeyStart(a)
  BY <1>4, ClaimSteps
<1>5. CASE RekeyClaimed
  BY <1>5, RekeyClaimedStep
<1>6. CASE RekeyReleased \/ Dispose
  BY <1>6, ReleaseSteps
<1>7. CASE TurnConsumes \/ WaitTakesAuthorization \/ WaitTakesCommand
  BY <1>7, ConsumeSteps
<1>8. CASE TurnSettles \/ TakeControl \/ TakeBuffered \/ StartReading \/ Routed
  BY <1>8, DriverSteps
<1>9. CASE \E await, task \in BOOLEAN : Park(await, task)
  BY <1>9, ParkStep
<1>10. CASE LeaveWait
  BY <1>10, LeaveWaitStep
<1> QED
  BY <1>1, <1>2, <1>3, <1>4, <1>5, <1>6, <1>7, <1>8, <1>9, <1>10 DEF Next

\* The invariant holds of every reachable inbox: what was read from a hook is
\* consumed or stashed, what is stashed and eligible is queued or offered once,
\* and a callback's second place in the queue ends with its window.
THEOREM InboxInvariant == Spec => []IInv
<1>1. Init => IInv
  BY InitIInv
<1>2. IInv /\ [Next]_vars => IInv'
  BY NextIInv
<1> QED
  BY <1>1, <1>2, PTL DEF Spec

\* Every variable keeps its shape.
THEOREM InboxTypes == Spec => []TypeOK
<1>1. IInv => TypeOK
  BY DEF IInv
<1> QED
  BY <1>1, InboxInvariant, PTL

\* createSessionCommandInbox: the payloads consumed from a hook, a retired alias
\* included, are its first payloads, each once and in the order committed.
THEOREM ConsumedOnce == Spec => []ExactlyOnceInOrder
<1>1. IInv => ExactlyOnceInOrder
  BY DEF IInv
<1> QED
  BY <1>1, InboxInvariant, PTL

\* Between arm() and consumeNext() no read is dropped, however the aliases are
\* rekeyed and the authorization window opened and closed.
THEOREM ReadsKept == Spec => []NoReadLost
<1>1. IInv => NoReadLost
  <2> SUFFICES ASSUME IInv, NEW h \in Hooks
               PROVE  /\ read[h] = Len(consumed[h]) + (IF resolved[h] = NoRead THEN 0 ELSE 1)
                      /\ h \in enabled /\ resolved[h] # NoRead =>
                            resolved[h] = offeredRead \/ resolved[h] \in Range(ready)
    BY DEF NoReadLost
  <2>1. read[h] = Len(consumed[h]) + (IF resolved[h] = NoRead THEN 0 ELSE 1)
    BY DEF IInv, Stashed
  <2>2. h \in enabled /\ resolved[h] # NoRead =>
          resolved[h] = offeredRead \/ resolved[h] \in Range(ready)
    BY DEF IInv, Enqueued
  <2> QED
    BY <2>1, <2>2
<1> QED
  BY <1>1, InboxInvariant, PTL

\* nextWithSource: a parked wait takes no session read while an older callback
\* is eligible.
THEOREM CallbackFirst == Spec => []CallbackNotOvertaken
<1>1. IInv => CallbackNotOvertaken
  <2> SUFFICES ASSUME IInv, offered = "resolved", offeredRead.hook # Auth,
                      NEW i \in 1..Len(ready), ready[i].hook = Auth
               PROVE  offeredRead.order < ready[i].order
    BY DEF CallbackNotOvertaken
  <2>1. ready \in Seq(Read)
    BY DEF IInv, TypeOK
  <2>2. ready[i] \in Range(ready)
    BY <2>1, Indices DEF Range
  <2> QED
    BY <2>2 DEF IInv, CallbacksBehind
<1> QED
  BY <1>1, InboxInvariant, PTL
=============================================================================
