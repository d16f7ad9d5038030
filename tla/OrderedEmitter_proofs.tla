------------------------ MODULE OrderedEmitter_proofs ------------------------
(***************************************************************************)
(* Theorems about OrderedEmitter, for every set of producers and events    *)
(* and every limit.                                                        *)
(*                                                                         *)
(* That nobody sleeps through a wakeup rests on the counters: the pump may *)
(* only stop when nobody waits, that is, when an empty queue has counters  *)
(* of zero.  So the counters must be what the queued emissions add up to.  *)
(* A sum over a sequence is stated by its partial sums: f[i] is the sum of *)
(* the first i weights.                                                    *)
(***************************************************************************)
EXTENDS OrderedEmitter, SequenceLemmas

PartialSums(len, w, f) ==
  /\ f \in [0..len -> Nat] /\ f[0] = 0
  /\ \A i \in 1..len : f[i] = f[i - 1] + w[i]
  /\ \A i, j \in 0..len : i <= j => f[i] <= f[j]
AddsUp(len, w, total) == \E f : PartialSums(len, w, f) /\ f[len] = total

EventCounts(q) == [i \in 1..Len(q) |-> q[i].n]
DeltaSizes(q) == [i \in 1..Len(q) |-> q[i].size]
Counted(q, n, k) ==
  AddsUp(Len(q), EventCounts(q), n) /\ AddsUp(Len(q), DeltaSizes(q), k)

-----------------------------------------------------------------------------
(* Sums.                                                                   *)

\* No weights add up to zero, and to nothing else.
LEMMA NothingAddsUp == \A w : AddsUp(0, w, 0) /\ \A t : AddsUp(0, w, t) => t = 0
<1> SUFFICES ASSUME NEW w PROVE AddsUp(0, w, 0) /\ \A t : AddsUp(0, w, t) => t = 0
  OBVIOUS
<1>1. PartialSums(0, w, [i \in 0..0 |-> 0])
  BY DEF PartialSums
<1> QED
  BY <1>1 DEF AddsUp, PartialSums

\* One weight more adds its value to the sum.
LEMMA AppendedAddsUp ==
  ASSUME NEW len \in Nat, NEW w, NEW v, v \in [1..(len + 1) -> Nat],
         \A i \in 1..len : v[i] = w[i],
         NEW t, AddsUp(len, w, t)
  PROVE  AddsUp(len + 1, v, t + v[len + 1])
<1>1. PICK f : PartialSums(len, w, f) /\ f[len] = t
  BY DEF AddsUp
<1> DEFINE g == [i \in 0..(len + 1) |-> IF i <= len THEN f[i] ELSE f[len] + v[len + 1]]
<1>2. v[len + 1] \in Nat /\ \A i \in 0..len : f[i] \in Nat /\ f[i] <= f[len]
  BY <1>1 DEF PartialSums
<1>3. g \in [0..(len + 1) -> Nat]
  BY <1>2
<1>4. \A i \in 1..(len + 1) : g[i] = g[i - 1] + v[i]
  BY <1>1, <1>2 DEF PartialSums
<1>5. \A i, j \in 0..(len + 1) : i <= j => g[i] <= g[j]
  BY <1>1, <1>2 DEF PartialSums
<1>6. g[0] = 0 /\ g[len + 1] = t + v[len + 1]
  BY <1>1, <1>2 DEF PartialSums
<1> QED
  BY <1>3, <1>4, <1>5, <1>6 DEF AddsUp, PartialSums

\* A last weight that grows by d makes the sum grow by d.
LEMMA GrownAddsUp ==
  ASSUME NEW len \in Nat \ {0}, NEW w, NEW v, NEW d \in Nat,
         \A i \in 1..(len - 1) : v[i] = w[i], v[len] = w[len] + d,
         w[len] \in Nat,
         NEW t, AddsUp(len, w, t)
  PROVE  AddsUp(len, v, t + d)
<1>1. PICK f : PartialSums(len, w, f) /\ f[len] = t
  BY DEF AddsUp
<1> DEFINE g == [i \in 0..len |-> IF i < len THEN f[i] ELSE f[len] + d]
<1>2. \A i \in 0..len : f[i] \in Nat /\ f[i] <= f[len]
  BY <1>1 DEF PartialSums
<1>3. g \in [0..len -> Nat]
  BY <1>2
<1>4. \A i \in 1..len : g[i] = g[i - 1] + v[i]
  BY <1>1, <1>2 DEF PartialSums
<1>5. \A i, j \in 0..len : i <= j => g[i] <= g[j]
  BY <1>1, <1>2 DEF PartialSums
<1>6. g[0] = 0 /\ g[len] = t + d
  BY <1>1, <1>2 DEF PartialSums
<1> QED
  BY <1>3, <1>4, <1>5, <1>6 DEF AddsUp, PartialSums

\* Without its first weight the sum is smaller by it, and not negative.
LEMMA ShiftedAddsUp ==
  ASSUME NEW len \in Nat \ {0}, NEW w, NEW v,
         \A i \in 1..(len - 1) : v[i] = w[i + 1],
         \A i \in 1..len : w[i] \in Nat,
         NEW t, AddsUp(len, w, t)
  PROVE  AddsUp(len - 1, v, t - w[1]) /\ t - w[1] \in Nat
<1>1. PICK f : PartialSums(len, w, f) /\ f[len] = t
  BY DEF AddsUp
<1> DEFINE g == [i \in 0..(len - 1) |-> f[i + 1] - f[1]]
<1>2. f[1] = w[1] /\ \A i \in 1..len : f[i] \in Nat /\ f[1] <= f[i]
  BY <1>1 DEF PartialSums
<1>3. g \in [0..(len - 1) -> Nat]
  BY <1>2
<1>4. \A i \in 1..(len - 1) : g[i] = g[i - 1] + v[i]
  <2> SUFFICES ASSUME NEW i \in 1..(len - 1) PROVE g[i] = g[i - 1] + v[i]
    OBVIOUS
  <2>1. i \in 0..(len - 1) /\ i - 1 \in 0..(len - 1) /\ i + 1 \in 1..len /\ i \in 1..len
    OBVIOUS
  <2>2. g[i] = f[i + 1] - f[1] /\ g[i - 1] = f[i] - f[1]
    BY <2>1
  <2>3. f[i + 1] = f[i] + w[i + 1]
    BY <1>1, <2>1 DEF PartialSums
  <2> HIDE DEF g
  <2> QED
    BY <1>2, <2>1, <2>2, <2>3
<1>5. \A i, j \in 0..(len - 1) : i <= j => g[i] <= g[j]
  BY <1>1, <1>2 DEF PartialSums
<1>6. g[0] = f[1] - f[1] /\ g[len - 1] = f[len] - f[1]
  OBVIOUS
<1>7. g[0] = 0 /\ g[len - 1] = t - w[1] /\ t - w[1] \in Nat
  <2> HIDE DEF g
  <2> QED
    BY <1>1, <1>2, <1>6
<1> QED
  BY <1>3, <1>4, <1>5, <1>7 DEF AddsUp, PartialSums

-----------------------------------------------------------------------------
(* The queue.                                                              *)

\* An empty queue goes with counters of zero only.
LEMMA EmptyQueueCounted ==
  Counted(<<>>, 0, 0) /\ \A n, k : Counted(<<>>, n, k) => n = 0 /\ k = 0
BY NothingAddsUp DEF Counted

\* A pushed emission is well formed.
LEMMA EmissionIsTyped ==
  ASSUME NEW e \in Events, NEW id \in 1..MaxEmits
  PROVE  Emission(e, id) \in Emissions
BY EmitterConstants DEF Emission, Emissions

\* Folding an event counts one source event more, and its characters.
LEMMA FoldIsTyped ==
  ASSUME NEW e \in Events, NEW id \in 1..MaxEmits, NEW m \in Emissions
  PROVE  /\ Fold(m, e, id) \in Emissions
         /\ Fold(m, e, id).n = m.n + 1 /\ Fold(m, e, id).size = m.size + e.size
<1>1. /\ m.kind \in {"append", "partial", "other"} /\ m.key \in {x.key : x \in Events}
      /\ m.n \in Nat /\ m.size \in Nat /\ m.ids \in Seq(1..MaxEmits) /\ e.size \in Nat
  BY EmitterConstants DEF Emissions
<1>2. Append(m.ids, id) \in Seq(1..MaxEmits)
  BY <1>1
<1>3. <<id>> \in Seq(1..MaxEmits)
  OBVIOUS
<1> DEFINE ids == IF e.kind = "append" THEN Append(m.ids, id) ELSE <<id>>
<1>4. ids \in Seq(1..MaxEmits)
  BY <1>2, <1>3, Zenon
<1>5. m.n + 1 \in Nat /\ m.size + e.size \in Nat
  BY <1>1
<1>6. Fold(m, e, id) = [kind |-> m.kind, key |-> m.key, ids |-> ids, n |-> m.n + 1,
                        size |-> m.size + e.size]
  BY DEF Fold
<1> HIDE DEF ids
<1> QED
  BY <1>1, <1>4, <1>5, <1>6 DEF Emissions

\* What queued emissions weigh.
LEMMA Weights ==
  /\ \A m \in Emissions : m.n \in Nat /\ m.size \in Nat
  /\ \A q \in Seq(Emissions) : \A i \in 1..Len(q) : q[i].n \in Nat /\ q[i].size \in Nat
<1>1. \A m \in Emissions : m.n \in Nat /\ m.size \in Nat
  BY DEF Emissions
<1>2. \A q \in Seq(Emissions) : \A i \in 1..Len(q) : q[i] \in Emissions
  OBVIOUS
<1> QED
  BY <1>1, <1>2

\* emit pushes an emission and adds its weights to the counters.
LEMMA PushCounted ==
  ASSUME NEW q \in Seq(Emissions), NEW m \in Emissions, NEW n, NEW k, Counted(q, n, k)
  PROVE  Counted(Append(q, m), n + m.n, k + m.size)
<1> DEFINE r == Append(q, m)
<1>1. r \in Seq(Emissions) /\ Len(r) = Len(q) + 1 /\ r[Len(q) + 1] = m
      /\ \A i \in 1..Len(q) : r[i] = q[i]
  OBVIOUS
<1> HIDE DEF r
<1>2. m.n \in Nat /\ m.size \in Nat
  BY DEF Emissions
<1>3. \A i \in 1..Len(r) : r[i].n \in Nat /\ r[i].size \in Nat
  BY <1>1, Weights
<1>4. AddsUp(Len(r), EventCounts(r), n + m.n)
  <2>1. Len(q) \in Nat /\ AddsUp(Len(q), EventCounts(q), n)
    BY DEF Counted
  <2>2. EventCounts(r) \in [1..(Len(q) + 1) -> Nat]
        /\ (\A i \in 1..Len(q) : EventCounts(r)[i] = EventCounts(q)[i])
        /\ EventCounts(r)[Len(q) + 1] = m.n
    BY <1>1, <1>3 DEF EventCounts
  <2> QED
    BY <1>1, <2>1, <2>2, AppendedAddsUp
<1>5. AddsUp(Len(r), DeltaSizes(r), k + m.size)
  <2>1. Len(q) \in Nat /\ AddsUp(Len(q), DeltaSizes(q), k)
    BY DEF Counted
  <2>2. DeltaSizes(r) \in [1..(Len(q) + 1) -> Nat]
        /\ (\A i \in 1..Len(q) : DeltaSizes(r)[i] = DeltaSizes(q)[i])
        /\ DeltaSizes(r)[Len(q) + 1] = m.size
    BY <1>1, <1>3 DEF DeltaSizes
  <2> QED
    BY <1>1, <2>1, <2>2, AppendedAddsUp
<1> QED
  BY <1>4, <1>5 DEF Counted, r

\* A queue whose last element has been replaced.
LEMMA LastReplaced ==
  ASSUME NEW S, NEW q \in Seq(S), q # <<>>, NEW m \in S
  PROVE  LET r == Append(Front(q), m)
         IN /\ Len(q) \in Nat \ {0} /\ Last(q) \in S /\ Last(q) = q[Len(q)]
            /\ r \in Seq(S) /\ Len(r) = Len(q) /\ r[Len(q)] = m
            /\ \A i \in 1..(Len(q) - 1) : r[i] = q[i]
<1> DEFINE r == Append(Front(q), m)
<1>1. Len(q) \in Nat \ {0} /\ Last(q) \in S /\ Last(q) = q[Len(q)]
  BY DEF Last
<1>2. Front(q) \in Seq(S) /\ Len(Front(q)) = Len(q) - 1
      /\ \A i \in 1..(Len(q) - 1) : Front(q)[i] = q[i]
  <2> DEFINE l == Len(q) - 1
  <2>1. 1 \in Int /\ l \in Nat /\ \A i \in 1..l : q[i] \in S
    BY <1>1
  <2> HIDE DEF l
  <2>2. /\ SubSeq(q, 1, l) \in Seq(S)
        /\ Len(SubSeq(q, 1, l)) = (IF 1 <= l THEN l - 1 + 1 ELSE 0)
        /\ \A i \in 1..(l - 1 + 1) : SubSeq(q, 1, l)[i] = q[1 + i - 1]
    BY <2>1, SubSeqProperties
  <2>3. /\ SubSeq(q, 1, l) \in Seq(S)
        /\ Len(SubSeq(q, 1, l)) = l
        /\ \A i \in 1..l : SubSeq(q, 1, l)[i] = q[i]
    BY <2>1, <2>2
  <2> QED
    BY <2>3 DEF Front, l
<1>3. r \in Seq(S) /\ Len(r) = Len(q) /\ r[Len(q)] = m
      /\ \A i \in 1..(Len(q) - 1) : r[i] = q[i]
  BY <1>1, <1>2
<1> QED
  BY <1>1, <1>3

\* emit folds an event into the last emission and adds to the counters what
\* the emission grew by.
LEMMA GrowCounted ==
  ASSUME NEW q \in Seq(Emissions), q # <<>>, NEW m \in Emissions, NEW d \in Nat,
         m.n = Last(q).n + 1, m.size = Last(q).size + d,
         NEW n, NEW k, Counted(q, n, k)
  PROVE  /\ Append(Front(q), m) \in Seq(Emissions) /\ Append(Front(q), m) # <<>>
         /\ Counted(Append(Front(q), m), n + 1, k + d)
<1> DEFINE r == Append(Front(q), m)
<1>1. Len(q) \in Nat \ {0} /\ Last(q) \in Emissions /\ Last(q) = q[Len(q)]
  BY LastReplaced
<1>3. r \in Seq(Emissions) /\ Len(r) = Len(q) /\ r[Len(q)] = m
      /\ \A i \in 1..(Len(q) - 1) : r[i] = q[i]
  BY LastReplaced
<1> HIDE DEF r
<1>4. \A i \in 1..Len(q) : q[i].n \in Nat /\ q[i].size \in Nat
  BY Weights
<1>5. AddsUp(Len(r), EventCounts(r), n + 1)
  <2>1. \A i \in 1..Len(q) : EventCounts(q)[i] = q[i].n /\ EventCounts(r)[i] = r[i].n
    BY <1>3 DEF EventCounts
  <2>2. r[Len(q)].n = q[Len(q)].n + 1
    BY <1>1, <1>3
  <2>3. 1..(Len(q) - 1) \subseteq 1..Len(q) /\ Len(q) \in 1..Len(q)
    BY <1>1
  <2>4. (\A i \in 1..(Len(q) - 1) : EventCounts(r)[i] = EventCounts(q)[i])
        /\ EventCounts(r)[Len(q)] = EventCounts(q)[Len(q)] + 1
        /\ EventCounts(q)[Len(q)] \in Nat
    BY <1>3, <1>4, <2>1, <2>2, <2>3
  <2> QED
    BY <1>1, <1>3, <2>4, GrownAddsUp DEF Counted
<1>6. AddsUp(Len(r), DeltaSizes(r), k + d)
  <2>1. \A i \in 1..Len(q) : DeltaSizes(q)[i] = q[i].size /\ DeltaSizes(r)[i] = r[i].size
    BY <1>3 DEF DeltaSizes
  <2>2. r[Len(q)].size = q[Len(q)].size + d
    BY <1>1, <1>3
  <2>3. 1..(Len(q) - 1) \subseteq 1..Len(q) /\ Len(q) \in 1..Len(q)
    BY <1>1
  <2>4. (\A i \in 1..(Len(q) - 1) : DeltaSizes(r)[i] = DeltaSizes(q)[i])
        /\ DeltaSizes(r)[Len(q)] = DeltaSizes(q)[Len(q)] + d
        /\ DeltaSizes(q)[Len(q)] \in Nat
    BY <1>3, <1>4, <2>1, <2>2, <2>3
  <2> QED
    BY <1>1, <1>3, <2>4, GrownAddsUp DEF Counted
<1>7. r # <<>>
  BY <1>1, <1>3
<1> QED
  BY <1>3, <1>5, <1>6, <1>7 DEF Counted, r

\* pump shifts an emission and subtracts its weights from the counters, which
\* do not become negative.
LEMMA ShiftCounted ==
  ASSUME NEW q \in Seq(Emissions), q # <<>>, NEW n, NEW k, Counted(q, n, k)
  PROVE  /\ Head(q) \in Emissions /\ Tail(q) \in Seq(Emissions)
         /\ n - Head(q).n \in Nat /\ k - Head(q).size \in Nat
         /\ Counted(Tail(q), n - Head(q).n, k - Head(q).size)
<1> DEFINE r == Tail(q)
<1>1. Len(q) \in Nat \ {0} /\ Head(q) = q[1] /\ Head(q) \in Emissions
  OBVIOUS
<1>2. r \in Seq(Emissions) /\ Len(r) = Len(q) - 1
      /\ \A i \in 1..(Len(q) - 1) : r[i] = q[i + 1]
  OBVIOUS
<1> HIDE DEF r
<1>3. \A i \in 1..Len(q) : q[i].n \in Nat /\ q[i].size \in Nat
  BY Weights
<1>4. AddsUp(Len(r), EventCounts(r), n - Head(q).n) /\ n - Head(q).n \in Nat
  <2>1. (\A i \in 1..Len(q) : EventCounts(q)[i] = q[i].n)
        /\ \A i \in 1..(Len(q) - 1) : EventCounts(r)[i] = r[i].n
    BY <1>2 DEF EventCounts
  <2>2. 1 \in 1..Len(q) /\ \A i \in 1..(Len(q) - 1) : i + 1 \in 1..Len(q)
    BY <1>1
  <2>3. (\A i \in 1..(Len(q) - 1) : EventCounts(r)[i] = EventCounts(q)[i + 1])
        /\ EventCounts(q)[1] = Head(q).n
        /\ \A i \in 1..Len(q) : EventCounts(q)[i] \in Nat
    BY <1>1, <1>2, <1>3, <2>1, <2>2
  <2>4. AddsUp(Len(q), EventCounts(q), n)
    BY DEF Counted
  <2>5. AddsUp(Len(q) - 1, EventCounts(r), n - EventCounts(q)[1]) /\ n - EventCounts(q)[1] \in Nat
    BY <1>1, <2>3, <2>4, ShiftedAddsUp
  <2> QED
    BY <1>2, <2>3, <2>5
<1>5. AddsUp(Len(r), DeltaSizes(r), k - Head(q).size) /\ k - Head(q).size \in Nat
  <2>1. (\A i \in 1..Len(q) : DeltaSizes(q)[i] = q[i].size)
        /\ \A i \in 1..(Len(q) - 1) : DeltaSizes(r)[i] = r[i].size
    BY <1>2 DEF DeltaSizes
  <2>2. 1 \in 1..Len(q) /\ \A i \in 1..(Len(q) - 1) : i + 1 \in 1..Len(q)
    BY <1>1
  <2>3. (\A i \in 1..(Len(q) - 1) : DeltaSizes(r)[i] = DeltaSizes(q)[i + 1])
        /\ DeltaSizes(q)[1] = Head(q).size
        /\ \A i \in 1..Len(q) : DeltaSizes(q)[i] \in Nat
    BY <1>1, <1>2, <1>3, <2>1, <2>2
  <2>4. AddsUp(Len(q), DeltaSizes(q), k)
    BY DEF Counted
  <2>5. AddsUp(Len(q) - 1, DeltaSizes(r), k - DeltaSizes(q)[1]) /\ k - DeltaSizes(q)[1] \in Nat
    BY <1>1, <2>3, <2>4, ShiftedAddsUp
  <2> QED
    BY <1>2, <2>3, <2>5
<1> QED
  BY <1>1, <1>2, <1>4, <1>5 DEF Counted, r

\* Pushed or folded, an event adds one and its characters to the counters.
LEMMA QueuedCounted ==
  ASSUME pending \in Seq(Emissions), NEW e \in Events, NEW id \in 1..MaxEmits,
         NEW n, NEW k, Counted(pending, n, k)
  PROVE  /\ Queued(e, id) \in Seq(Emissions) /\ Queued(e, id) # <<>>
         /\ Counted(Queued(e, id), n + 1, k + e.size)
<1>1. CASE pending # <<>> /\ Merges(Last(pending), e)
  <2> DEFINE m == Fold(Last(pending), e, id)
  <2>1. Last(pending) \in Emissions /\ e.size \in Nat
    BY <1>1, EmitterConstants DEF Last
  <2>2. m \in Emissions /\ m.n = Last(pending).n + 1 /\ m.size = Last(pending).size + e.size
    BY <2>1, FoldIsTyped
  <2>3. Queued(e, id) = Append(Front(pending), m)
    BY <1>1 DEF Queued
  <2> HIDE DEF m
  <2>4. /\ Append(Front(pending), m) \in Seq(Emissions) /\ Append(Front(pending), m) # <<>>
        /\ Counted(Append(Front(pending), m), n + 1, k + e.size)
    BY <1>1, <2>1, <2>2, GrowCounted
  <2> QED
    BY <2>3, <2>4
<1>2. CASE ~(pending # <<>> /\ Merges(Last(pending), e))
  <2> DEFINE m == Emission(e, id)
  <2>1. m \in Emissions /\ m.n = 1 /\ m.size = e.size
    BY EmissionIsTyped DEF Emission
  <2>2. Queued(e, id) = Append(pending, m)
    BY <1>2 DEF Queued
  <2> HIDE DEF m
  <2>3. Append(pending, m) \in Seq(Emissions) /\ Append(pending, m) # <<>>
    BY <2>1
  <2> QED
    BY <2>1, <2>2, <2>3, PushCounted
<1> QED
  BY <1>1, <1>2

-----------------------------------------------------------------------------
(* The inductive invariant.                                                *)

CountersExact == Counted(pending, pendingSourceEvents, pendingDeltaCharacters)
IInv == TypeOK /\ CountersExact /\ NoLostWakeup

Callers == {"idle", "waiting", "woken", "threw"}

\* The pump takes the head of the queue and wakes whoever has room now.
LEMMA PumpKeeps ==
  ASSUME NEW q \in Seq(Emissions), q # <<>>, NEW n, NEW k, Counted(q, n, k),
         at \in [Producers -> Callers], Pump(q, n, k, at)
  PROVE  /\ pending' \in Seq(Emissions) /\ active' \in Seq(Emissions) /\ Len(active') <= 1
         /\ pendingSourceEvents' \in Nat /\ pendingDeltaCharacters' \in Nat
         /\ at' \in [Producers -> Callers] /\ pumping' = TRUE
         /\ CountersExact'
         /\ \A p \in Producers : at'[p] = "waiting"
              => ~HasCapacity(pendingSourceEvents', pendingDeltaCharacters')
<1> DEFINE events == n - Head(q).n
           characters == k - Head(q).size
<1>1. /\ pumping' = TRUE /\ active' = <<Head(q)>> /\ pending' = Tail(q)
      /\ pendingSourceEvents' = events /\ pendingDeltaCharacters' = characters
      /\ at' = Woken(at, events, characters)
  BY DEF Pump
<1>2. /\ Head(q) \in Emissions /\ Tail(q) \in Seq(Emissions)
      /\ events \in Nat /\ characters \in Nat
      /\ Counted(Tail(q), events, characters)
  BY ShiftCounted
<1> HIDE DEF events, characters
<1>3. at' \in [Producers -> Callers]
      /\ \A p \in Producers : at'[p] = "waiting" => ~HasCapacity(events, characters)
  BY <1>1 DEF Woken, Callers
<1>4. <<Head(q)>> \in Seq(Emissions) /\ Len(<<Head(q)>>) <= 1
  BY <1>2
<1>5. CountersExact'
  BY <1>1, <1>2 DEF CountersExact
<1> QED
  BY <1>1, <1>2, <1>3, <1>4, <1>5

\* A new emitter has an empty queue and nobody waits.
LEMMA InitIInv == Init => IInv
<1> SUFFICES ASSUME Init PROVE IInv
  OBVIOUS
<1>1. TypeOK
  <2>1. <<>> \in Seq(Emissions) /\ <<>> \in Seq(Events) /\ Len(<<>>) <= 1
    OBVIOUS
  <2>2. at \in [Producers -> {"idle", "waiting", "woken", "threw"}]
    BY DEF Init
  <2> QED
    BY <2>1, <2>2 DEF Init, TypeOK
<1>2. CountersExact
  BY EmptyQueueCounted DEF Init, CountersExact
<1>3. NoLostWakeup
  BY DEF Init, NoLostWakeup
<1> QED
  BY <1>1, <1>2, <1>3 DEF IInv

\* A step that leaves the queue, the counters and the pump alone and makes
\* nobody wait keeps the invariant, but for the types of what it changes.
LEMMA QuietKeeps ==
  ASSUME IInv,
         UNCHANGED <<pending, active, written, pendingSourceEvents,
                     pendingDeltaCharacters, pumping, accepted>>,
         at' \in [Producers -> Callers],
         \A p \in Producers : at'[p] = "waiting" => at[p] = "waiting",
         drain' \in {"open", "waiting", "woken", "drained", "threw"},
         drain' = "waiting" => pumping,
         failed' \in BOOLEAN, closeRequested' \in BOOLEAN
  PROVE  IInv'
<1>1. TypeOK'
  BY DEF IInv, TypeOK, Callers
<1>2. CountersExact'
  BY DEF IInv, CountersExact
<1>3. NoLostWakeup'
  BY DEF IInv, NoLostWakeup, HasCapacity
<1> QED
  BY <1>1, <1>2, <1>3 DEF IInv

\* emit keeps the invariant: behind a running pump, where a full queue stays
\* full, and when it starts the pump itself.
LEMMA EmitKeeps ==
  ASSUME IInv, NEW p \in Producers, NEW e \in Events, Emit(p, e)
  PROVE  IInv'
<1> DEFINE id == Len(accepted) + 1
           q == Queued(e, id)
           n == pendingSourceEvents + 1
           k == pendingDeltaCharacters + e.size
<1>1. /\ pending \in Seq(Emissions) /\ at \in [Producers -> Callers]
      /\ accepted \in Seq(Events) /\ MaxEmits \in Nat /\ e.size \in Nat
      /\ pendingSourceEvents \in Nat /\ pendingDeltaCharacters \in Nat
      /\ Counted(pending, pendingSourceEvents, pendingDeltaCharacters)
  BY EmitterConstants DEF IInv, TypeOK, CountersExact, Callers
<1>2. id \in 1..MaxEmits
  BY <1>1 DEF Emit
<1>3. q \in Seq(Emissions) /\ q # <<>> /\ Counted(q, n, k) /\ n \in Nat /\ k \in Nat
  BY <1>1, <1>2, QueuedCounted
<1>4. accepted' \in Seq(Events) /\ UNCHANGED <<written, failed, closeRequested, drain>>
  BY <1>1 DEF Emit
<1>5. CASE pumping
  <2>1. /\ pending' = q /\ pendingSourceEvents' = n /\ pendingDeltaCharacters' = k
        /\ at' = [at EXCEPT ![p] = IF HasCapacity(n, k) THEN "idle" ELSE "waiting"]
        /\ UNCHANGED <<pumping, active>>
    BY <1>5 DEF Emit
  <2>2. at' \in [Producers -> Callers]
    BY <1>1, <2>1 DEF Callers
  <2>3. ASSUME NEW r \in Producers, at'[r] = "waiting" PROVE ~HasCapacity(n, k)
    <3>1. CASE r = p
      BY <1>1, <2>1, <2>3, <3>1
    <3>2. CASE r # p
      <4>1. at[r] = "waiting"
        BY <1>1, <2>1, <2>3, <3>2
      <4>2. ~HasCapacity(pendingSourceEvents, pendingDeltaCharacters)
        BY <4>1 DEF IInv, NoLostWakeup
      <4> QED
        BY <1>1, <4>2, EmitterConstants DEF HasCapacity
    <3> QED
      BY <3>1, <3>2
  <2> HIDE DEF q, n, k
  <2>4. TypeOK'
    BY <1>3, <1>4, <2>1, <2>2 DEF IInv, TypeOK, Callers
  <2>5. CountersExact'
    BY <1>3, <2>1 DEF CountersExact
  <2>6. NoLostWakeup'
    BY <1>4, <1>5, <2>1, <2>3 DEF IInv, NoLostWakeup
  <2> QED
    BY <2>4, <2>5, <2>6 DEF IInv
<1>6. CASE ~pumping
  <2>1. Pump(q, n, k, at)
    BY <1>6 DEF Emit
  <2> HIDE DEF q, n, k
  <2>2. /\ pending' \in Seq(Emissions) /\ active' \in Seq(Emissions) /\ Len(active') <= 1
        /\ pendingSourceEvents' \in Nat /\ pendingDeltaCharacters' \in Nat
        /\ at' \in [Producers -> Callers] /\ pumping' = TRUE
        /\ CountersExact'
        /\ \A r \in Producers : at'[r] = "waiting"
             => ~HasCapacity(pendingSourceEvents', pendingDeltaCharacters')
    BY <1>1, <1>3, <2>1, PumpKeeps
  <2>3. TypeOK'
    BY <1>4, <2>2 DEF IInv, TypeOK, Callers
  <2>4. NoLostWakeup'
    BY <2>2 DEF NoLostWakeup, HasCapacity
  <2> QED
    BY <2>2, <2>3, <2>4 DEF IInv
<1> QED
  BY <1>5, <1>6

\* The pump goes on with the next emission, or stops: then the queue is empty,
\* its counters are zero, and nobody waits for room.
LEMMA WriteSucceedsKeeps == IInv /\ WriteSucceeds => IInv'
<1> SUFFICES ASSUME IInv, WriteSucceeds PROVE IInv'
  OBVIOUS
<1>1. /\ pending \in Seq(Emissions) /\ at \in [Producers -> Callers]
      /\ written' \in Seq(Emissions)
      /\ Counted(pending, pendingSourceEvents, pendingDeltaCharacters)
  BY DEF IInv, TypeOK, CountersExact, Callers, WriteSucceeds
<1>2. UNCHANGED <<failed, closeRequested, accepted>>
  BY DEF WriteSucceeds
<1>3. CASE pending # <<>>
  <2>1. Pump(pending, pendingSourceEvents, pendingDeltaCharacters, at) /\ UNCHANGED drain
    BY <1>3 DEF WriteSucceeds
  <2>2. /\ pending' \in Seq(Emissions) /\ active' \in Seq(Emissions) /\ Len(active') <= 1
        /\ pendingSourceEvents' \in Nat /\ pendingDeltaCharacters' \in Nat
        /\ at' \in [Producers -> Callers] /\ pumping' = TRUE
        /\ CountersExact'
        /\ \A r \in Producers : at'[r] = "waiting"
             => ~HasCapacity(pendingSourceEvents', pendingDeltaCharacters')
    BY <1>1, <1>3, <2>1, PumpKeeps
  <2>3. TypeOK'
    BY <1>1, <1>2, <2>1, <2>2 DEF IInv, TypeOK, Callers
  <2>4. NoLostWakeup'
    BY <2>2 DEF NoLostWakeup, HasCapacity
  <2> QED
    BY <2>2, <2>3, <2>4 DEF IInv
<1>4. CASE pending = <<>>
  <2>1. /\ pumping' = FALSE /\ active' = <<>>
        /\ drain' = IF drain = "waiting" THEN "woken" ELSE drain
        /\ UNCHANGED <<pending, pendingSourceEvents, pendingDeltaCharacters, at>>
    BY <1>4 DEF WriteSucceeds
  <2>2. pendingSourceEvents = 0 /\ pendingDeltaCharacters = 0
    BY <1>1, <1>4, EmptyQueueCounted
  <2>3. \A r \in Producers : at[r] # "waiting"
    BY <2>2, EmitterConstants DEF IInv, NoLostWakeup, HasCapacity
  <2>4. <<>> \in Seq(Emissions) /\ Len(<<>>) <= 1
    OBVIOUS
  <2>5. TypeOK'
    BY <1>1, <1>2, <2>1, <2>4 DEF IInv, TypeOK
  <2>6. CountersExact'
    BY <2>1 DEF IInv, CountersExact
  <2>7. NoLostWakeup'
    BY <1>4, <2>1, <2>3 DEF NoLostWakeup
  <2> QED
    BY <2>5, <2>6, <2>7 DEF IInv
<1> QED
  BY <1>3, <1>4

\* A failed write empties the queue and leaves nobody waiting.
LEMMA WriteFailsKeeps == IInv /\ WriteFails => IInv'
<1> SUFFICES ASSUME IInv, WriteFails PROVE IInv'
  OBVIOUS
<1>1. /\ failed' = TRUE /\ pending' = <<>> /\ active' = <<>> /\ pumping' = FALSE
      /\ pendingSourceEvents' = 0 /\ pendingDeltaCharacters' = 0
      /\ at' = Woken(at, 0, 0)
      /\ drain' = IF drain = "waiting" THEN "woken" ELSE drain
      /\ UNCHANGED <<written, closeRequested, accepted>>
  BY DEF WriteFails
<1>2. HasCapacity(0, 0)
  BY EmitterConstants DEF HasCapacity
<1>3. at' \in [Producers -> Callers] /\ \A r \in Producers : at'[r] # "waiting"
  BY <1>1, <1>2 DEF IInv, TypeOK, Woken, Callers
<1>4. <<>> \in Seq(Emissions) /\ Len(<<>>) <= 1
  OBVIOUS
<1>5. TypeOK'
  BY <1>1, <1>3, <1>4 DEF IInv, TypeOK, Callers
<1>6. CountersExact'
  BY <1>1, EmptyQueueCounted DEF CountersExact
<1>7. NoLostWakeup'
  BY <1>1, <1>3 DEF NoLostWakeup
<1> QED
  BY <1>5, <1>6, <1>7 DEF IInv

\* Every step keeps the invariant.
LEMMA NextIInv == IInv /\ [Next]_vars => IInv'
<1> SUFFICES ASSUME IInv, [Next]_vars PROVE IInv'
  OBVIOUS
<1>1. /\ at \in [Producers -> Callers] /\ failed \in BOOLEAN /\ closeRequested \in BOOLEAN
      /\ drain \in {"open", "waiting", "woken", "drained", "threw"}
      /\ (drain = "waiting" => pumping) /\ (pending # <<>> => pumping)
  BY DEF IInv, TypeOK, NoLostWakeup, Callers
<1>2. ASSUME NEW p \in Producers, EmitThrows(p) \/ EmitResumes(p) PROVE IInv'
  <2>1. /\ at' \in [Producers -> Callers]
        /\ \A r \in Producers : at'[r] = "waiting" => at[r] = "waiting"
        /\ UNCHANGED <<pending, active, written, pendingSourceEvents,
                       pendingDeltaCharacters, pumping, accepted, failed,
                       closeRequested, drain>>
    BY <1>1, <1>2 DEF EmitThrows, EmitResumes, Callers
  <2> QED
    BY <1>1, <2>1, QuietKeeps
<1>3. ASSUME NEW p \in Producers, NEW e \in Events, Emit(p, e) PROVE IInv'
  BY <1>3, EmitKeeps
<1>4. CASE WriteSucceeds \/ WriteFails
  BY <1>4, WriteSucceedsKeeps, WriteFailsKeeps
<1>5. CASE Close \/ DrainResumes
  <2>1. /\ drain' \in {"open", "waiting", "woken", "drained", "threw"}
        /\ (drain' = "waiting" => pumping) /\ closeRequested' \in BOOLEAN
        /\ UNCHANGED <<pending, active, written, pendingSourceEvents,
                       pendingDeltaCharacters, pumping, accepted, failed, at>>
    BY <1>1, <1>5 DEF Close, DrainResumes
  <2> QED
    BY <1>1, <2>1, QuietKeeps
<1>6. CASE UNCHANGED vars
  BY <1>1, <1>6, QuietKeeps DEF vars
<1> QED
  BY <1>2, <1>3, <1>4, <1>5, <1>6 DEF Next

-----------------------------------------------------------------------------
\* The counters of the emitter are exactly what its queue adds up to, at every
\* moment, through folding, pumping and failing.
THEOREM CountersAreExact == Spec => []CountersExact
<1>1. IInv => CountersExact
  BY DEF IInv
<1> QED
  BY <1>1, InitIInv, NextIInv, PTL DEF Spec

\* Whoever waits in emit finds the queue full and the pump running, whoever
\* waits in closeAndDrain finds the pump running: no wakeup is lost.
THEOREM NoWakeupLost == Spec => []NoLostWakeup
<1>1. IInv => NoLostWakeup
  BY DEF IInv
<1> QED
  BY <1>1, InitIInv, NextIInv, PTL DEF Spec

\* Every variable of the emitter keeps its type.
THEOREM EmitterTypeCorrect == Spec => []TypeOK
<1>1. IInv => TypeOK
  BY DEF IInv
<1> QED
  BY <1>1, InitIInv, NextIInv, PTL DEF Spec
-----------------------------------------------------------------------------
(* The order of the stream.  E stands for what has been and will be written *)
(* and acc for what emit accepted: the ids in E rise, each under the key of *)
(* the event it stands for, and an accepted event that E does not deliver   *)
(* has been overtaken.  When a partial replaces the last emission, the one  *)
(* event that is lost is the last one accepted.                             *)

Rising(ids) == \A i, j \in DOMAIN ids : i < j => ids[i] < ids[j]
InStream(E, a) == \E i \in 1..Len(E) : a \in Range(E[i].ids)
OvertakenIn(acc, a) ==
  /\ acc[a].kind = "partial" /\ a < Len(acc)
  /\ acc[a + 1].kind = "partial" /\ acc[a + 1].key = acc[a].key
Labelled(m, acc) ==
  \A a \in Range(m.ids) : a \in 1..Len(acc) /\ acc[a].kind = m.kind /\ acc[a].key = m.key
InSequence(E, acc) ==
  /\ \A i, j \in 1..Len(E) : i < j => \A a \in Range(E[i].ids), b \in Range(E[j].ids) : a < b
  /\ \A i \in 1..Len(E) : Rising(E[i].ids) /\ Labelled(E[i], acc)
Covered(E, acc) == \A a \in 1..Len(acc) : InStream(E, a) \/ OvertakenIn(acc, a)
CoveredSoFar(E, acc) ==
  \A a, b \in 1..Len(acc) : a <= b /\ InStream(E, b) => InStream(E, a) \/ OvertakenIn(acc, a)
Tip(q, acc) ==
  q # <<>> /\ q[Len(q)].kind = "partial" => Range(q[Len(q)].ids) \subseteq {Len(acc)}

DispatchInv ==
  /\ InSequence(Emitted, accepted) /\ CoveredSoFar(Emitted, accepted)
  /\ ~failed => Covered(Emitted, accepted)
  /\ failed => pending = <<>> /\ active = <<>>
  /\ Tip(pending, accepted)

\* The invariant is the property.
LEMMA DispatchIsOrdered == TypeOK /\ DispatchInv => OrderedDispatch
<1> SUFFICES ASSUME TypeOK, DispatchInv PROVE OrderedDispatch
  OBVIOUS
<1>1. Emitted \in Seq(Emissions)
  BY ConcatProperties DEF TypeOK, Emitted
<1>2. DOMAIN Emitted = 1..Len(Emitted) /\ DOMAIN accepted = 1..Len(accepted)
  BY <1>1 DEF TypeOK
<1>3. \A a : Delivers(a) <=> InStream(Emitted, a)
  BY <1>2 DEF Delivers, InStream, Range
<1>4. \A a : Overtaken(a) <=> OvertakenIn(accepted, a)
  BY DEF Overtaken, OvertakenIn
<1>5. \A m \in Range(Emitted) : Rising(m.ids) /\ Labelled(m, accepted)
  BY <1>2 DEF Range, DispatchInv, InSequence
<1>6. \A i \in DOMAIN accepted :
        (failed => \E j \in DOMAIN accepted : i <= j /\ Delivers(j)) => Delivers(i) \/ Overtaken(i)
  BY <1>2, <1>3, <1>4 DEF DispatchInv, Covered, CoveredSoFar
<1>7. \A i, j \in DOMAIN Emitted : i < j =>
        \A a \in Range(Emitted[i].ids), b \in Range(Emitted[j].ids) : a < b
  BY <1>2 DEF DispatchInv, InSequence
<1> QED
  BY <1>2, <1>5, <1>6, <1>7 DEF OrderedDispatch, Rising, Labelled

\* What was true of the accepted events stays true when there is one more.
LEMMA AcceptedGrows ==
  ASSUME NEW acc \in Seq(Events), NEW e \in Events
  PROVE  /\ Append(acc, e) \in Seq(Events) /\ Len(Append(acc, e)) = Len(acc) + 1
         /\ Append(acc, e)[Len(acc) + 1] = e
         /\ \A m : Labelled(m, acc) => Labelled(m, Append(acc, e))
         /\ \A a \in 1..Len(acc) : OvertakenIn(acc, a) => OvertakenIn(Append(acc, e), a)
<1> DEFINE new == Append(acc, e)
<1>1. /\ new \in Seq(Events) /\ Len(new) = Len(acc) + 1 /\ new[Len(acc) + 1] = e /\ Len(acc) \in Nat
      /\ \A i \in 1..Len(acc) : new[i] = acc[i]
  OBVIOUS
<1> HIDE DEF new
<1>2. \A m : Labelled(m, acc) => Labelled(m, new)
  BY <1>1 DEF Labelled
<1>3. ASSUME NEW a \in 1..Len(acc), OvertakenIn(acc, a) PROVE OvertakenIn(new, a)
  <2>1. a + 1 \in 1..Len(acc) /\ a < Len(new)
    BY <1>1, <1>3 DEF OvertakenIn
  <2> QED
    BY <1>1, <1>3, <2>1 DEF OvertakenIn
<1> QED
  BY <1>1, <1>2, <1>3 DEF new

\* One id is in order.
LEMMA RisingOfOne == \A a : Rising(<<a>>)
<1>1. \A a : DOMAIN <<a>> = 1..1
  OBVIOUS
<1>2. \A i, j \in 1..1 : ~(i < j)
  OBVIOUS
<1> QED
  BY <1>1, <1>2 DEF Rising

\* A new emission at the end of the stream.
LEMMA PushInSequence ==
  ASSUME NEW E \in Seq(Emissions), NEW acc \in Seq(Events), NEW e \in Events,
         InSequence(E, acc), Covered(E, acc),
         NEW F \in Seq(Emissions), Len(F) = Len(E) + 1, \A i \in 1..Len(E) : F[i] = E[i],
         F[Len(E) + 1] = Emission(e, Len(acc) + 1)
  PROVE  InSequence(F, Append(acc, e)) /\ Covered(F, Append(acc, e))
<1> DEFINE new == Append(acc, e)
           id == Len(acc) + 1
           m == Emission(e, id)
<1>1. /\ new \in Seq(Events) /\ Len(new) = id /\ new[id] = e /\ Len(acc) \in Nat
      /\ \A x : Labelled(x, acc) => Labelled(x, new)
      /\ \A a \in 1..Len(acc) : OvertakenIn(acc, a) => OvertakenIn(new, a)
  BY AcceptedGrows
<1>2. m.ids = <<id>> /\ m.kind = e.kind /\ m.key = e.key
  BY DEF Emission
<1> HIDE DEF new, m
<1>3. Range(m.ids) = {id} /\ Rising(m.ids)
  <2>1. Range(<<id>>) = {id}
    BY RangeOfFew
  <2>2. Rising(<<id>>)
    BY RisingOfOne
  <2> QED
    BY <1>2, <2>1, <2>2
<1>4. Labelled(m, new)
  <2>1. id \in 1..Len(new)
    BY <1>1
  <2> QED
    BY <1>1, <1>2, <1>3, <2>1 DEF Labelled
<1>5. Len(E) \in Nat /\ \A i \in 1..Len(F) : i \in 1..Len(E) \/ i = Len(E) + 1
  OBVIOUS
<1>6. \A i \in 1..Len(F) : Rising(F[i].ids) /\ Labelled(F[i], new)
  BY <1>1, <1>3, <1>4, <1>5 DEF InSequence, m
<1>7. ASSUME NEW i \in 1..Len(F), NEW j \in 1..Len(F), i < j,
             NEW a \in Range(F[i].ids), NEW b \in Range(F[j].ids)
      PROVE  a < b
  <2>1. i \in 1..Len(E) /\ a \in Range(E[i].ids)
    BY <1>5, <1>7
  <2>2. a \in 1..Len(acc)
    BY <2>1 DEF InSequence, Labelled
  <2>3. CASE j = Len(E) + 1
    BY <1>1, <1>3, <1>7, <2>2, <2>3 DEF m
  <2>4. CASE j \in 1..Len(E)
    BY <1>7, <2>1, <2>4 DEF InSequence
  <2> QED
    BY <1>5, <2>3, <2>4
<1>8. Covered(F, new)
  <2>1. InStream(F, id)
    BY <1>3, <1>5 DEF InStream, m
  <2>2. \A a : InStream(E, a) => InStream(F, a)
    BY <1>5 DEF InStream
  <2>3. \A a \in 1..Len(new) : a \in 1..Len(acc) \/ a = id
    BY <1>1
  <2> QED
    BY <1>1, <2>1, <2>2, <2>3 DEF Covered
<1>9. InSequence(F, new)
  BY <1>6, <1>7 DEF InSequence
<1> QED
  BY <1>8, <1>9 DEF new

\* An event folded into the last emission of the stream: a delta joins the
\* others, a partial takes the place of the one accepted just before it.
LEMMA FoldInSequence ==
  ASSUME NEW E \in Seq(Emissions), E # <<>>, NEW acc \in Seq(Events), NEW e \in Events,
         InSequence(E, acc), Covered(E, acc), Merges(E[Len(E)], e), Tip(E, acc),
         NEW F \in Seq(Emissions), Len(F) = Len(E), \A i \in 1..(Len(E) - 1) : F[i] = E[i],
         F[Len(E)] = Fold(E[Len(E)], e, Len(acc) + 1)
  PROVE  InSequence(F, Append(acc, e)) /\ Covered(F, Append(acc, e))
<1> DEFINE new == Append(acc, e)
           id == Len(acc) + 1
           l == E[Len(E)]
           m == Fold(l, e, id)
<1>1. /\ new \in Seq(Events) /\ Len(new) = id /\ new[id] = e /\ Len(acc) \in Nat
      /\ \A x : Labelled(x, acc) => Labelled(x, new)
      /\ \A a \in 1..Len(acc) : OvertakenIn(acc, a) => OvertakenIn(new, a)
      /\ \A a \in 1..Len(acc) : new[a] = acc[a]
  <2>1. \A a \in 1..Len(acc) : new[a] = acc[a]
    OBVIOUS
  <2> QED
    BY <2>1, AcceptedGrows
<1>2. /\ Len(E) \in Nat \ {0} /\ Len(E) \in 1..Len(E)
      /\ \A i \in 1..Len(F) : i \in 1..(Len(E) - 1) \/ i = Len(E)
      /\ \A i \in 1..(Len(E) - 1) : i \in 1..Len(E)
  OBVIOUS
<1>3. l \in Emissions /\ l.kind = e.kind /\ l.key = e.key /\ e.kind \in {"append", "partial"}
  BY <1>2, EmitterConstants DEF Merges
<1>4. l.ids \in Seq(1..MaxEmits) /\ Rising(l.ids) /\ Labelled(l, acc)
  BY <1>2, <1>3 DEF Emissions, InSequence
<1>5. /\ m.kind = e.kind /\ m.key = e.key
      /\ m.ids = IF e.kind = "append" THEN Append(l.ids, id) ELSE <<id>>
  BY <1>3 DEF Fold
<1>6. /\ Range(m.ids) = (IF e.kind = "append" THEN Range(l.ids) ELSE {}) \cup {id}
      /\ Rising(m.ids)
  <2> HIDE DEF l, m
  <2>1. CASE e.kind = "append"
    <3>1. l.ids \in Seq(Int) /\ id \in Int
      BY <1>1, <1>4, EmitterConstants, SeqMonotonic
    <3>2. Range(m.ids) = Range(l.ids) \cup {id}
      BY <1>5, <2>1, <3>1, RangeOfAppend
    <3>3. /\ DOMAIN l.ids = 1..Len(l.ids) /\ Len(l.ids) \in Nat /\ DOMAIN m.ids = 1..(Len(l.ids) + 1)
          /\ (\A i \in 1..Len(l.ids) : m.ids[i] = l.ids[i]) /\ m.ids[Len(l.ids) + 1] = id
      BY <1>5, <2>1, <3>1, Appended
    <3>4. \A i \in 1..Len(l.ids) : l.ids[i] < id /\ l.ids[i] \in Int
      <4>1. \A i \in 1..Len(l.ids) : l.ids[i] \in Range(l.ids)
        BY <3>3 DEF Range
      <4>2. \A a \in Range(l.ids) : a \in 1..Len(acc)
        BY <1>4 DEF Labelled
      <4> QED
        BY <1>1, <4>1, <4>2
    <3>5. Rising(m.ids)
      BY <1>4, <3>3, <3>4, SMTT(30) DEF Rising
    <3> QED
      BY <2>1, <3>2, <3>5
  <2>2. CASE e.kind # "append"
    <3>1. m.ids = <<id>>
      BY <1>5, <2>2
    <3>2. Range(<<id>>) = {id}
      BY RangeOfFew
    <3> QED
      BY <2>2, <3>1, <3>2, RisingOfOne
  <2> QED
    BY <2>1, <2>2
<1> HIDE DEF new, m, l
<1>7. Labelled(m, new)
  BY <1>1, <1>3, <1>4, <1>5, <1>6 DEF Labelled
<1>8. \A i \in 1..Len(F) : Rising(F[i].ids) /\ Labelled(F[i], new)
  BY <1>1, <1>2, <1>6, <1>7 DEF InSequence, m, l
<1>9. ASSUME NEW i \in 1..Len(F), NEW j \in 1..Len(F), i < j,
             NEW a \in Range(F[i].ids), NEW b \in Range(F[j].ids)
      PROVE  a < b
  <2>1. i \in 1..(Len(E) - 1) /\ i \in 1..Len(E) /\ a \in Range(E[i].ids)
    BY <1>2, <1>9
  <2>2. a \in 1..Len(acc)
    BY <2>1 DEF InSequence, Labelled
  <2>3. CASE b = id
    BY <1>1, <2>2, <2>3
  <2>4. CASE j = Len(E) /\ b \in Range(l.ids)
    BY <1>2, <1>9, <2>1, <2>4 DEF InSequence, l
  <2>5. CASE j \in 1..(Len(E) - 1)
    BY <1>2, <1>9, <2>1, <2>5 DEF InSequence
  <2>6. j = Len(E) => b \in Range(m.ids)
    BY <1>9 DEF m, l
  <2> QED
    BY <1>2, <1>6, <2>3, <2>4, <2>5, <2>6
<1>10. Covered(F, new)
  <2>1. InStream(F, id)
    BY <1>2, <1>6 DEF InStream, m, l
  <2>2. ASSUME NEW a \in 1..Len(acc), InStream(E, a) PROVE InStream(F, a) \/ OvertakenIn(new, a)
    <3>1. PICK i \in 1..Len(E) : a \in Range(E[i].ids)
      BY <2>2 DEF InStream
    <3>2. CASE i \in 1..(Len(E) - 1)
      BY <1>2, <3>1, <3>2 DEF InStream
    <3>3. CASE i = Len(E) /\ e.kind = "append"
      <4>1. a \in Range(m.ids)
        BY <1>6, <3>1, <3>3 DEF l
      <4> QED
        BY <1>2, <4>1 DEF InStream, m, l
    <3>4. CASE i = Len(E) /\ e.kind = "partial"
      <4>1. a = Len(acc)
        BY <1>3, <3>1, <3>4 DEF Tip, l
      <4>2. acc[a].kind = "partial" /\ acc[a].key = e.key
        BY <1>3, <1>4, <3>1, <3>4 DEF Labelled, l
      <4>3. a + 1 = id
        BY <4>1
      <4> QED
        BY <1>1, <3>4, <4>1, <4>2, <4>3 DEF OvertakenIn
    <3> QED
      BY <1>2, <1>3, <3>1, <3>2, <3>3, <3>4
  <2>3. \A a \in 1..Len(new) : a \in 1..Len(acc) \/ a = id
    BY <1>1
  <2> QED
    BY <1>1, <2>1, <2>2, <2>3 DEF Covered
<1>11. InSequence(F, new)
  BY <1>8, <1>9 DEF InSequence
<1> QED
  BY <1>10, <1>11 DEF new

-----------------------------------------------------------------------------
(* How each step moves the stream.                                         *)

\* The elements of a stream and where they come from.
LEMMA Joined ==
  ASSUME NEW S, NEW p \in Seq(S), NEW q \in Seq(S)
  PROVE  /\ p \o q \in Seq(S) /\ Len(p) \in Nat /\ Len(q) \in Nat
         /\ Len(p \o q) = Len(p) + Len(q)
         /\ \A i \in 1..Len(p) : (p \o q)[i] = p[i]
         /\ \A i \in 1..Len(q) : (p \o q)[Len(p) + i] = q[i]
         /\ \A i \in 1..Len(p \o q) : i \in 1..Len(p) \/ i - Len(p) \in 1..Len(q)
<1>1. /\ p \o q \in Seq(S) /\ Len(p \o q) = Len(p) + Len(q)
      /\ \A i \in 1..Len(p) + Len(q) : (p \o q)[i] = IF i <= Len(p) THEN p[i] ELSE q[i - Len(p)]
  BY ConcatProperties
<1>2. Len(p) \in Nat /\ Len(q) \in Nat
  OBVIOUS
<1>3. ASSUME NEW i \in 1..Len(q) PROVE (p \o q)[Len(p) + i] = q[i]
  <2>1. Len(p) + i \in 1..Len(p) + Len(q) /\ ~(Len(p) + i <= Len(p)) /\ Len(p) + i - Len(p) = i
    BY <1>2
  <2> QED
    BY <1>1, <2>1
<1>4. \A i \in 1..Len(p) : (p \o q)[i] = p[i]
  BY <1>1, <1>2
<1>5. \A i \in 1..Len(p \o q) : i \in 1..Len(p) \/ i - Len(p) \in 1..Len(q)
  BY <1>1, <1>2
<1> QED
  BY <1>1, <1>2, <1>3, <1>4, <1>5

\* A queue with one more element makes the stream longer.
LEMMA StreamPushed ==
  ASSUME NEW S, NEW p \in Seq(S), NEW q \in Seq(S), NEW r \in Seq(S),
         Len(r) = Len(q) + 1, \A i \in 1..Len(q) : r[i] = q[i]
  PROVE  /\ Len(p \o r) = Len(p \o q) + 1 /\ (p \o r)[Len(p \o q) + 1] = r[Len(q) + 1]
         /\ \A i \in 1..Len(p \o q) : (p \o r)[i] = (p \o q)[i]
<1> DEFINE E == p \o q
           F == p \o r
<1>1. /\ Len(p) \in Nat /\ Len(q) \in Nat /\ Len(E) = Len(p) + Len(q)
      /\ \A i \in 1..Len(p) : E[i] = p[i]
      /\ \A i \in 1..Len(q) : E[Len(p) + i] = q[i]
      /\ \A i \in 1..Len(E) : i \in 1..Len(p) \/ i - Len(p) \in 1..Len(q)
  BY Joined
<1>2. /\ Len(F) = Len(p) + Len(r)
      /\ \A i \in 1..Len(p) : F[i] = p[i]
      /\ \A i \in 1..Len(r) : F[Len(p) + i] = r[i]
  BY ONLY p \in Seq(S), r \in Seq(S), Joined
<1> HIDE DEF E, F
<1>3. Len(F) = Len(E) + 1 /\ F[Len(E) + 1] = r[Len(q) + 1]
  <2>1. Len(q) + 1 \in 1..Len(r) /\ Len(p) + (Len(q) + 1) = Len(E) + 1
    BY <1>1
  <2> QED
    BY <1>1, <1>2, <2>1
<1>4. ASSUME NEW i \in 1..Len(E) PROVE F[i] = E[i]
  <2>1. CASE i \in 1..Len(p)
    BY <1>1, <1>2, <2>1
  <2>2. CASE i - Len(p) \in 1..Len(q)
    <3>1. i - Len(p) \in 1..Len(r) /\ Len(p) + (i - Len(p)) = i
      BY <1>1, <2>2
    <3>2. F[Len(p) + (i - Len(p))] = r[i - Len(p)] /\ E[Len(p) + (i - Len(p))] = q[i - Len(p)]
      BY <1>1, <1>2, <2>2, <3>1
    <3> QED
      BY <2>2, <3>1, <3>2
  <2> QED
    BY <1>1, <2>1, <2>2
<1> QED
  BY <1>3, <1>4 DEF E, F

\* A queue whose last element is replaced changes the last of the stream.
LEMMA StreamReplaced ==
  ASSUME NEW S, NEW p \in Seq(S), NEW q \in Seq(S), NEW r \in Seq(S),
         q # <<>>, Len(r) = Len(q), \A i \in 1..(Len(q) - 1) : r[i] = q[i]
  PROVE  /\ Len(p \o r) = Len(p \o q) /\ (p \o r)[Len(p \o q)] = r[Len(q)] /\ p \o q # <<>>
         /\ (p \o q)[Len(p \o q)] = q[Len(q)]
         /\ \A i \in 1..(Len(p \o q) - 1) : (p \o r)[i] = (p \o q)[i]
<1> DEFINE E == p \o q
           F == p \o r
<1>1. /\ Len(p) \in Nat /\ Len(q) \in Nat /\ Len(E) = Len(p) + Len(q) /\ E \in Seq(S)
      /\ \A i \in 1..Len(p) : E[i] = p[i]
      /\ \A i \in 1..Len(q) : E[Len(p) + i] = q[i]
      /\ \A i \in 1..Len(E) : i \in 1..Len(p) \/ i - Len(p) \in 1..Len(q)
  BY Joined
<1>2. /\ Len(F) = Len(p) + Len(r)
      /\ \A i \in 1..Len(p) : F[i] = p[i]
      /\ \A i \in 1..Len(r) : F[Len(p) + i] = r[i]
  BY ONLY p \in Seq(S), r \in Seq(S), Joined
<1>3. Len(q) \in Nat \ {0} /\ Len(q) \in 1..Len(q)
  OBVIOUS
<1> HIDE DEF E, F
<1>4. Len(F) = Len(E) /\ F[Len(E)] = r[Len(q)] /\ E # <<>> /\ E[Len(E)] = q[Len(q)]
  <2>1. Len(E) # 0
    BY <1>1, <1>3
  <2>2. E # <<>>
    BY <1>1, <2>1
  <2> QED
    BY <1>1, <1>2, <1>3, <2>2
<1>5. ASSUME NEW i \in 1..(Len(E) - 1) PROVE F[i] = E[i]
  <2>1. CASE i \in 1..Len(p)
    BY <1>1, <1>2, <2>1
  <2>2. CASE i - Len(p) \in 1..Len(q)
    <3>1. /\ i - Len(p) \in 1..Len(r) /\ Len(p) + (i - Len(p)) = i
          /\ i - Len(p) \in 1..(Len(q) - 1)
      BY <1>1, <1>3, <2>2
    <3> QED
      BY <1>1, <1>2, <2>2, <3>1, ZenonT(40)
  <2>3. i \in 1..Len(E)
    BY <1>1
  <2> QED
    BY <1>1, <2>1, <2>2, <2>3
<1> QED
  BY <1>4, <1>5 DEF E, F

\* emit keeps the order, whether the event is folded, queued or written at once.
LEMMA EmitInOrder ==
  ASSUME IInv, DispatchInv, NEW p \in Producers, NEW e \in Events, Emit(p, e)
  PROVE  DispatchInv'
<1> DEFINE id == Len(accepted) + 1
           w == written \o active
<1>1. /\ pending \in Seq(Emissions) /\ active \in Seq(Emissions) /\ written \in Seq(Emissions)
      /\ accepted \in Seq(Events) /\ MaxEmits \in Nat
  BY EmitterConstants DEF IInv, TypeOK
<1>2. /\ id \in 1..MaxEmits /\ ~failed /\ accepted' = Append(accepted, e)
      /\ written' = written /\ failed' = failed
  BY <1>1 DEF Emit
<1>3. Len(accepted') = id
  BY <1>1, <1>2
<1>4. w \in Seq(Emissions)
  BY <1>1, Joined
<1>5. InSequence(Emitted, accepted) /\ Covered(Emitted, accepted) /\ Tip(pending, accepted)
  BY <1>2 DEF DispatchInv
<1>6. Emitted = w \o pending
  BY DEF Emitted
<1> HIDE DEF w
<1>7. SUFFICES InSequence(Emitted', accepted') /\ Covered(Emitted', accepted') /\ Tip(pending', accepted')
  <2>1. Covered(Emitted', accepted') => CoveredSoFar(Emitted', accepted')
    BY DEF Covered, CoveredSoFar
  <2> QED
    BY <1>2, <1>7, <2>1 DEF DispatchInv
<1>8. CASE pumping /\ pending # <<>> /\ Merges(Last(pending), e)
  <2> DEFINE m == Fold(Last(pending), e, id)
             q == Append(Front(pending), m)
  <2>1. pending' = q /\ active' = active
    BY <1>8 DEF Emit, Queued
  <2>2. m.ids = (IF e.kind = "append" THEN Append(Last(pending).ids, id) ELSE <<id>>)
        /\ m.kind = e.kind /\ e.kind # "other"
    BY <1>8 DEF Fold, Merges
  <2>3. m \in Emissions
    BY <1>1, <1>2, <1>8, FoldIsTyped, LastReplaced
  <2> HIDE DEF m
  <2>4. /\ Len(pending) \in Nat \ {0} /\ Last(pending) = pending[Len(pending)]
        /\ q \in Seq(Emissions) /\ Len(q) = Len(pending) /\ q[Len(pending)] = m
        /\ \A i \in 1..(Len(pending) - 1) : q[i] = pending[i]
    BY <1>1, <1>8, <2>3, LastReplaced
  <2> HIDE DEF q
  <2>5. /\ Len(w \o q) = Len(Emitted) /\ (w \o q)[Len(Emitted)] = m /\ Emitted # <<>>
        /\ Emitted[Len(Emitted)] = pending[Len(pending)]
        /\ \A i \in 1..(Len(Emitted) - 1) : (w \o q)[i] = Emitted[i]
    <3>1. /\ Len(w \o q) = Len(w \o pending) /\ (w \o q)[Len(w \o pending)] = m
          /\ w \o pending # <<>> /\ (w \o pending)[Len(w \o pending)] = pending[Len(pending)]
          /\ \A i \in 1..(Len(w \o pending) - 1) : (w \o q)[i] = (w \o pending)[i]
      <4>1. /\ Len(w \o q) = Len(w \o pending) /\ (w \o q)[Len(w \o pending)] = q[Len(pending)]
            /\ w \o pending # <<>> /\ (w \o pending)[Len(w \o pending)] = pending[Len(pending)]
            /\ \A i \in 1..(Len(w \o pending) - 1) : (w \o q)[i] = (w \o pending)[i]
        <5>1. pending \in Seq(Emissions) /\ pending # <<>>
          BY <1>1, <1>8
        <5>2. /\ q \in Seq(Emissions) /\ Len(q) = Len(pending)
              /\ \A i \in 1..(Len(pending) - 1) : q[i] = pending[i]
          BY <2>4
        <5>3. \A x \in Seq(Emissions) :
                Len(x) = Len(pending) /\ (\A i \in 1..(Len(pending) - 1) : x[i] = pending[i])
                => /\ Len(w \o x) = Len(w \o pending) /\ (w \o x)[Len(w \o pending)] = x[Len(pending)]
                   /\ w \o pending # <<>> /\ (w \o pending)[Len(w \o pending)] = pending[Len(pending)]
                   /\ \A i \in 1..(Len(w \o pending) - 1) : (w \o x)[i] = (w \o pending)[i]
          BY <1>4, <5>1, StreamReplaced, ZenonT(30)
        <5> QED
          BY <5>2, <5>3, ZenonT(30)
      <4> QED
        BY <2>4, <4>1
    <3> QED
      BY <1>6, <3>1
  <2>6. Emitted' = w \o q
    BY <1>2, <2>1 DEF Emitted, w
  <2>7. Emitted \in Seq(Emissions) /\ w \o q \in Seq(Emissions)
    BY <1>1, <1>4, <1>6, <2>4, Joined
  <2>8. Tip(Emitted, accepted)
    BY <1>5, <1>8, <2>5 DEF Tip
  <2>9. InSequence(w \o q, Append(accepted, e)) /\ Covered(w \o q, Append(accepted, e))
    BY <1>1, <1>5, <1>8, <2>4, <2>5, <2>7, <2>8, FoldInSequence DEF m
  <2>10. Tip(q, accepted')
    <3>1. e.kind = "partial" => m.ids = <<id>>
      BY <2>2
    <3>2. Range(<<id>>) = {id}
      BY RangeOfFew
    <3> QED
      BY <1>3, <2>2, <2>4, <3>1, <3>2 DEF Tip
  <2> QED
    BY <1>2, <2>1, <2>6, <2>9, <2>10
<1>9. CASE pumping /\ ~(pending # <<>> /\ Merges(Last(pending), e))
  <2> DEFINE m == Emission(e, id)
             q == Append(pending, m)
  <2>1. pending' = q /\ active' = active
    BY <1>9 DEF Emit, Queued
  <2>2. m \in Emissions /\ m.ids = <<id>>
    BY <1>2, EmissionIsTyped DEF Emission
  <2> HIDE DEF m
  <2>3. /\ q \in Seq(Emissions) /\ Len(q) = Len(pending) + 1 /\ q[Len(pending) + 1] = m
        /\ \A i \in 1..Len(pending) : q[i] = pending[i]
    BY <1>1, <2>2
  <2> HIDE DEF q
  <2>4. /\ Len(w \o q) = Len(Emitted) + 1 /\ (w \o q)[Len(Emitted) + 1] = m
        /\ \A i \in 1..Len(Emitted) : (w \o q)[i] = Emitted[i]
    <3>1. /\ Len(w \o q) = Len(w \o pending) + 1 /\ (w \o q)[Len(w \o pending) + 1] = m
          /\ \A i \in 1..Len(w \o pending) : (w \o q)[i] = (w \o pending)[i]
      <4>1. /\ Len(w \o q) = Len(w \o pending) + 1 /\ (w \o q)[Len(w \o pending) + 1] = q[Len(pending) + 1]
            /\ \A i \in 1..Len(w \o pending) : (w \o q)[i] = (w \o pending)[i]
        BY <1>1, <1>4, <2>3, StreamPushed, ZenonT(30)
      <4> QED
        BY <2>3, <4>1
    <3> QED
      BY <1>6, <3>1
  <2>5. Emitted' = w \o q
    BY <1>2, <2>1 DEF Emitted, w
  <2>6. Emitted \in Seq(Emissions) /\ w \o q \in Seq(Emissions)
    BY <1>1, <1>4, <1>6, <2>3, Joined
  <2>7. InSequence(w \o q, Append(accepted, e)) /\ Covered(w \o q, Append(accepted, e))
    BY <1>1, <1>5, <2>4, <2>6, PushInSequence DEF m
  <2>8. Tip(q, accepted')
    <3>1. Range(<<id>>) = {id}
      BY RangeOfFew
    <3> QED
      BY <1>3, <2>2, <2>3, <3>1 DEF Tip
  <2> QED
    BY <1>2, <2>1, <2>5, <2>7, <2>8
<1>10. CASE ~pumping
  <2> DEFINE m == Emission(e, id)
  <2>1. pending = <<>> /\ active = <<>>
    BY <1>10 DEF IInv, NoLostWakeup
  <2>2. Queued(e, id) = Append(<<>>, m)
    BY <2>1 DEF Queued
  <2>3. active' = <<Head(Queued(e, id))>> /\ pending' = Tail(Queued(e, id))
    BY <1>10 DEF Emit, Pump
  <2>4. m \in Emissions
    BY <1>2, EmissionIsTyped
  <2> HIDE DEF m
  <2>5. Append(<<>>, m) = <<m>> /\ Head(<<m>>) = m /\ Tail(<<m>>) = <<>>
    OBVIOUS
  <2>6. active' = <<m>> /\ pending' = <<>>
    BY <2>2, <2>3, <2>5
  <2>7. /\ <<>> \in Seq(Emissions) /\ Len(<<>>) = 0 /\ <<m>> \in Seq(Emissions)
        /\ Len(<<m>>) = Len(<<>>) + 1 /\ <<m>>[Len(<<>>) + 1] = m
        /\ \A i \in 1..Len(<<>>) : <<m>>[i] = <<>>[i]
    BY <2>4
  <2>8. written \o <<>> = written /\ Emitted = written
    BY <1>1, <2>1, ConcatEmptySeq DEF Emitted
  <2>9. written \o <<m>> \in Seq(Emissions)
    BY <1>1, <2>7, Joined
  <2>10. Emitted' = written \o <<m>>
    BY <1>2, <2>6, <2>9, ConcatEmptySeq DEF Emitted
  <2>11. /\ Len(written \o <<m>>) = Len(written) + 1 /\ (written \o <<m>>)[Len(written) + 1] = m
         /\ \A i \in 1..Len(written) : (written \o <<m>>)[i] = written[i]
    BY <1>1, <2>7, <2>8, StreamPushed
  <2>12. /\ InSequence(written \o <<m>>, Append(accepted, e))
         /\ Covered(written \o <<m>>, Append(accepted, e))
    BY <1>1, <1>5, <2>8, <2>9, <2>11, PushInSequence DEF m
  <2>13. Tip(pending', accepted')
    BY <2>6 DEF Tip
  <2> QED
    BY <1>2, <2>10, <2>12, <2>13
<1> QED
  BY <1>8, <1>9, <1>10

\* A write that succeeds moves its emission and leaves the stream as it was.
LEMMA WriteSucceedsInOrder ==
  ASSUME IInv, DispatchInv, WriteSucceeds
  PROVE  DispatchInv'
<1>1. /\ pending \in Seq(Emissions) /\ active \in Seq(Emissions) /\ written \in Seq(Emissions)
  BY DEF IInv, TypeOK
<1>2. /\ active # <<>> /\ written' = written \o active
      /\ failed' = failed /\ accepted' = accepted
  BY DEF WriteSucceeds
<1>3. ~failed
  BY <1>2 DEF DispatchInv
<1> DEFINE w == written \o active
<1>4. w \in Seq(Emissions)
  BY <1>1, Joined
<1>5. Emitted = w \o pending /\ Emitted' = (w \o active') \o pending'
  BY <1>2 DEF Emitted
<1> HIDE DEF w
<1>6. Emitted' = Emitted /\ Tip(pending', accepted)
  <2>1. CASE pending # <<>>
    <3>1. active' = <<Head(pending)>> /\ pending' = Tail(pending)
      BY <2>1 DEF WriteSucceeds, Pump
    <3>2. /\ Head(pending) \in Emissions /\ Tail(pending) \in Seq(Emissions)
          /\ <<Head(pending)>> \in Seq(Emissions) /\ <<Head(pending)>> \o Tail(pending) = pending
      BY <1>1, <2>1
    <3>3. Emitted' = w \o (<<Head(pending)>> \o Tail(pending))
      BY <1>4, <1>5, <3>1, <3>2, ConcatAssociative, SMTT(30)
    <3>4. Tail(pending) # <<>> => Tail(pending)[Len(Tail(pending))] = pending[Len(pending)]
      BY <1>1, <2>1
    <3>5. Tip(pending', accepted)
      BY <2>1, <3>1, <3>4 DEF DispatchInv, Tip
    <3> QED
      BY <1>5, <3>2, <3>3, <3>5
  <2>2. CASE pending = <<>>
    <3>1. active' = <<>> /\ pending' = <<>>
      BY <2>2 DEF WriteSucceeds
    <3>2. w \o <<>> = w
      BY <1>4, ConcatEmptySeq
    <3> QED
      BY <1>5, <2>2, <3>1, <3>2 DEF Tip
  <2> QED
    BY <2>1, <2>2
<1> QED
  BY <1>2, <1>3, <1>6 DEF DispatchInv

\* A failed write cuts the stream behind what was written: nothing before the
\* cut is missing.
LEMMA WriteFailsInOrder ==
  ASSUME IInv, DispatchInv, WriteFails
  PROVE  DispatchInv'
<1>1. /\ pending \in Seq(Emissions) /\ active \in Seq(Emissions) /\ written \in Seq(Emissions)
      /\ accepted \in Seq(Events)
  BY DEF IInv, TypeOK
<1>2. /\ pending' = <<>> /\ active' = <<>> /\ written' = written /\ failed' = TRUE
      /\ accepted' = accepted
  BY DEF WriteFails
<1>3. Emitted' = written
  BY <1>1, <1>2, ConcatEmptySeq DEF Emitted
<1>4. /\ Len(written) \in Nat /\ Len(Emitted) \in Nat /\ Len(written) <= Len(Emitted)
      /\ \A i \in 1..Len(written) : Emitted[i] = written[i]
  <2>1. active \o pending \in Seq(Emissions) /\ Emitted = written \o (active \o pending)
    BY <1>1, Joined, ConcatAssociative, SMTT(30) DEF Emitted
  <2> QED
    BY <1>1, <2>1, Joined
<1>5. InSequence(written, accepted)
  <2>1. \A i \in 1..Len(written) : i \in 1..Len(Emitted)
    BY <1>4
  <2> QED
    BY <1>4, <2>1 DEF DispatchInv, InSequence
<1>6. ASSUME NEW a \in 1..Len(accepted), NEW b \in 1..Len(accepted), a <= b, InStream(written, b)
      PROVE  InStream(written, a) \/ OvertakenIn(accepted, a)
  <2>1. PICK j \in 1..Len(written) : b \in Range(written[j].ids)
    BY <1>6 DEF InStream
  <2>2. j \in 1..Len(Emitted) /\ b \in Range(Emitted[j].ids)
    BY <1>4, <2>1
  <2>3. InStream(Emitted, a) \/ OvertakenIn(accepted, a)
    BY <1>6, <2>2 DEF DispatchInv, CoveredSoFar, InStream
  <2>4. ASSUME NEW i \in 1..Len(Emitted), a \in Range(Emitted[i].ids) PROVE i \in 1..Len(written)
    <3>1. ~(j < i)
      <4>1. j < i => b < a
        BY <2>2, <2>4 DEF DispatchInv, InSequence
      <4> QED
        BY <1>1, <1>6, <4>1
    <3> QED
      BY <1>4, <2>1, <2>4, <3>1
  <2> QED
    BY <1>4, <2>3, <2>4 DEF InStream
<1>7. CoveredSoFar(written, accepted)
  BY <1>6 DEF CoveredSoFar
<1> QED
  BY <1>2, <1>3, <1>5, <1>7 DEF DispatchInv, Tip

\* Every step keeps the order of the stream.
LEMMA NextInOrder == IInv /\ DispatchInv /\ [Next]_vars => DispatchInv'
<1> SUFFICES ASSUME IInv, DispatchInv, [Next]_vars PROVE DispatchInv'
  OBVIOUS
<1>1. ASSUME NEW p \in Producers, NEW e \in Events, Emit(p, e) PROVE DispatchInv'
  BY <1>1, EmitInOrder
<1>2. CASE WriteSucceeds
  BY <1>2, WriteSucceedsInOrder
<1>3. CASE WriteFails
  BY <1>3, WriteFailsInOrder
<1>4. ASSUME UNCHANGED <<pending, active, written, failed, accepted>> PROVE DispatchInv'
  <2>1. Emitted' = Emitted
    BY <1>4 DEF Emitted
  <2> QED
    BY <1>4, <2>1 DEF DispatchInv
<1>5. CASE Close \/ DrainResumes \/ UNCHANGED vars
  BY <1>4, <1>5 DEF Close, DrainResumes, vars
<1>6. ASSUME NEW p \in Producers, EmitThrows(p) \/ EmitResumes(p) PROVE DispatchInv'
  BY <1>4, <1>6 DEF EmitThrows, EmitResumes
<1> QED
  BY <1>1, <1>2, <1>3, <1>5, <1>6 DEF Next

\* A new emitter has nothing in its stream.
LEMMA InitInOrder == Init => DispatchInv
<1> SUFFICES ASSUME Init PROVE DispatchInv
  OBVIOUS
<1>1. /\ pending = <<>> /\ active = <<>> /\ written = <<>> /\ accepted = <<>> /\ ~failed
  BY DEF Init
<1>2. <<>> \in Seq(Emissions) /\ <<>> \o <<>> = <<>> /\ 1..Len(<<>>) = {}
  OBVIOUS
<1>3. Emitted = <<>>
  BY <1>1, <1>2 DEF Emitted
<1> QED
  BY <1>1, <1>2, <1>3 DEF DispatchInv, InSequence, Covered, CoveredSoFar, Tip

\* Through any interleaving of producers, folding, writes and a failed write,
\* events come out in the order emit accepted them, each once, under their own
\* key, and none is missing but a partial the next one replaced.
THEOREM DispatchInOrder == Spec => []OrderedDispatch
<1>1. IInv /\ DispatchInv => OrderedDispatch
  BY DispatchIsOrdered DEF IInv
<1>2. Init => IInv /\ DispatchInv
  BY InitIInv, InitInOrder
<1>3. (IInv /\ DispatchInv) /\ [Next]_vars => (IInv /\ DispatchInv)'
  BY NextIInv, NextInOrder
<1> QED
  BY <1>1, <1>2, <1>3, PTL DEF Spec
=============================================================================
