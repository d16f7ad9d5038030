--------------------------- MODULE OrderedEmitter ---------------------------
(***************************************************************************)
(* harness/ordered-stream-emitter.ts: the queue between the model stream   *)
(* and the durable event sink.  Emits are queued, adjacent appends and     *)
(* same-call partials waiting behind the active write are folded, one pump *)
(* writes at a time, and a full queue makes emit wait.                     *)
(*                                                                         *)
(* JavaScript runs each piece of code between two awaits atomically, so an *)
(* action is one such piece: emit up to its wait, including the first part *)
(* of the pump it starts; the pump between two writes; a woken waiter.     *)
(***************************************************************************)
EXTENDS Integers, Sequences, FiniteSets, SequencesExt

CONSTANTS
  Producers,      \* concurrent callers of emit
  Events,         \* the events they emit: [kind, key, size]
  MaxPending,     \* maxPendingEvents
  MaxCharacters,  \* MAX_PENDING_DELTA_CHARACTERS
  MaxEmits        \* bound: accepted emits

\* An event is an append (its key: type, call and coordinates; size: the length
\* of its delta), a partial (its key: the call; no delta) or anything else.
ASSUME EmitterConstants ==
  /\ MaxPending \in Nat \ {0} /\ MaxCharacters \in Nat \ {0} /\ MaxEmits \in Nat
  /\ \A e \in Events : /\ e.kind \in {"append", "partial", "other"}
                       /\ e.size \in Nat /\ (e.kind # "append" => e.size = 0)

VARIABLES
  pending,        \* queued emissions, see Emission
  active,         \* <<>> or the emission being written
  written,        \* emissions the sink has accepted, in order
  pendingSourceEvents, pendingDeltaCharacters,
  pumping, failed, closeRequested,
  at,             \* at[p]: what producer p's emit is doing
  drain,          \* what closeAndDrain is doing
  accepted        \* history: the events emit accepted, in order

vars == <<pending, active, written, pendingSourceEvents, pendingDeltaCharacters,
          pumping, failed, closeRequested, at, drain, accepted>>

\* ids: the accepted events (their positions) the emission will deliver;
\* n: sourceEvents, the emits folded into it.
Emission(e, id) == [kind |-> e.kind, key |-> e.key, ids |-> <<id>>, n |-> 1,
                    size |-> e.size]

\* Wrong variant: events of one kind fold whatever they belong to.
MergesByKind(left, e) == left.kind = e.kind /\ e.kind # "other"

\* mergeAdjacentEmissions: appends of one key concatenate their deltas, a
\* partial replaces the one before it.
Merges(left, e) == left.kind = e.kind /\ left.key = e.key /\ e.kind # "other"
Fold(left, e, id) ==
  [kind |-> left.kind, key |-> left.key,
   ids |-> IF e.kind = "append" THEN Append(left.ids, id) ELSE <<id>>,
   n |-> left.n + 1, size |-> left.size + e.size]

\* The queue with an event: folded into its last emission, or behind it.
Queued(e, id) ==
  IF pending # <<>> /\ Merges(Last(pending), e)
  THEN Append(Front(pending), Fold(Last(pending), e, id))
  ELSE Append(pending, Emission(e, id))

HasCapacity(events, characters) == events < MaxPending /\ characters < MaxCharacters

\* Wrong variant: waiters are only settled once the queue is empty.
WokenWhenEmpty(state, events, characters) ==
  [p \in Producers |-> IF state[p] = "waiting" /\ events = 0 THEN "woken" ELSE state[p]]

\* settleCapacityWaiters, for the counters after the step.
Woken(state, events, characters) ==
  [p \in Producers |->
     IF state[p] = "waiting" /\ HasCapacity(events, characters) THEN "woken" ELSE state[p]]

-----------------------------------------------------------------------------
\* The synchronous part of pump, on a queue q with counters n and k: take the
\* head, settle capacity waiters, start writing.
Pump(q, n, k, state) ==
  LET head == Head(q)
      events == n - head.n
      characters == k - head.size
  IN /\ pumping' = TRUE
     /\ active' = <<head>>
     /\ pending' = Tail(q)
     /\ pendingSourceEvents' = events
     /\ pendingDeltaCharacters' = characters
     /\ at' = Woken(state, events, characters)

\* emit accepts an event; a pump that is not running starts with it.  A queue
\* at its limit makes the caller wait.
Emit(p, e) ==
  /\ at[p] = "idle"
  /\ ~failed /\ ~closeRequested
  /\ Len(accepted) < MaxEmits
  /\ LET q == Queued(e, Len(accepted) + 1)
         n == pendingSourceEvents + 1
         k == pendingDeltaCharacters + e.size
     IN IF pumping
        THEN /\ pending' = q
             /\ pendingSourceEvents' = n
             /\ pendingDeltaCharacters' = k
             /\ at' = [at EXCEPT ![p] = IF HasCapacity(n, k) THEN "idle" ELSE "waiting"]
             /\ UNCHANGED <<pumping, active>>
        ELSE Pump(q, n, k, at)
  /\ accepted' = Append(accepted, e)
  /\ UNCHANGED <<written, failed, closeRequested, drain>>

\* emit after a failure or a close throws.
EmitThrows(p) ==
  /\ at[p] = "idle"
  /\ failed \/ closeRequested
  /\ at' = [at EXCEPT ![p] = "threw"]
  /\ UNCHANGED <<pending, active, written, pendingSourceEvents,
                 pendingDeltaCharacters, pumping, failed, closeRequested, drain,
                 accepted>>

\* A caller settled by settleCapacityWaiters runs on.
EmitResumes(p) ==
  /\ at[p] = "woken"
  /\ at' = [at EXCEPT ![p] = IF failed THEN "threw" ELSE "idle"]
  /\ UNCHANGED <<pending, active, written, pendingSourceEvents,
                 pendingDeltaCharacters, pumping, failed, closeRequested, drain,
                 accepted>>

\* The sink accepted the write: the pump takes the next emission, or stops and
\* settles the idle waiter.
WriteSucceeds ==
  /\ active # <<>>
  /\ written' = written \o active
  /\ IF pending # <<>>
     THEN /\ Pump(pending, pendingSourceEvents, pendingDeltaCharacters, at)
          /\ UNCHANGED drain
     ELSE /\ pumping' = FALSE /\ active' = <<>>
          /\ drain' = IF drain = "waiting" THEN "woken" ELSE drain
          /\ UNCHANGED <<pending, pendingSourceEvents, pendingDeltaCharacters, at>>
  /\ UNCHANGED <<failed, closeRequested, accepted>>

\* The write threw: the queue is dropped and everyone is woken.
WriteFails ==
  /\ active # <<>>
  /\ failed' = TRUE
  /\ pending' = <<>> /\ active' = <<>>
  /\ pendingSourceEvents' = 0 /\ pendingDeltaCharacters' = 0
  /\ at' = Woken(at, 0, 0)
  /\ pumping' = FALSE
  /\ drain' = IF drain = "waiting" THEN "woken" ELSE drain
  /\ UNCHANGED <<written, closeRequested, accepted>>

\* closeAndDrain; its pump finds a running pump or an empty queue.
Close ==
  /\ drain = "open"
  /\ closeRequested' = TRUE
  /\ drain' = IF pumping \/ pending # <<>> THEN "waiting"
              ELSE IF failed THEN "threw" ELSE "drained"
  /\ UNCHANGED <<pending, active, written, pendingSourceEvents,
                 pendingDeltaCharacters, pumping, failed, at, accepted>>

\* Wrong variant: after a failed write closeAndDrain never settles.
DrainResumesUnlessFailed ==
  /\ drain = "woken" /\ ~failed
  /\ drain' = "drained"
  /\ UNCHANGED <<pending, active, written, pendingSourceEvents,
                 pendingDeltaCharacters, pumping, failed, closeRequested, at,
                 accepted>>

\* The idle waiter of closeAndDrain runs on, and throws what the pump caught.
DrainResumes ==
  /\ drain = "woken"
  /\ drain' = IF failed THEN "threw" ELSE "drained"
  /\ UNCHANGED <<pending, active, written, pendingSourceEvents,
                 pendingDeltaCharacters, pumping, failed, closeRequested, at,
                 accepted>>

-----------------------------------------------------------------------------
Init ==
  /\ pending = <<>> /\ active = <<>> /\ written = <<>>
  /\ pendingSourceEvents = 0 /\ pendingDeltaCharacters = 0
  /\ pumping = FALSE /\ failed = FALSE /\ closeRequested = FALSE
  /\ at = [p \in Producers |-> "idle"] /\ drain = "open"
  /\ accepted = <<>>

Next ==
  \/ \E p \in Producers : EmitThrows(p) \/ EmitResumes(p)
  \/ \E p \in Producers, e \in Events : Emit(p, e)
  \/ WriteSucceeds \/ WriteFails
  \/ Close \/ DrainResumes

Spec == Init /\ [][Next]_vars

\* Promise callbacks run, and every write settles one way or the other.
Fairness ==
  /\ \A p \in Producers : WF_vars(EmitResumes(p))
  /\ WF_vars(DrainResumes)
  /\ WF_vars(WriteSucceeds \/ WriteFails)

FairSpec == Spec /\ Fairness

-----------------------------------------------------------------------------
(* Properties.                                                             *)

Emissions == [kind : {"append", "partial", "other"}, key : {e.key : e \in Events},
              ids : Seq(1..MaxEmits), n : Nat, size : Nat]

\* Type invariant.
TypeOK ==
  /\ pending \in Seq(Emissions) /\ active \in Seq(Emissions) /\ written \in Seq(Emissions)
  /\ Len(active) <= 1
  /\ pendingSourceEvents \in Nat /\ pendingDeltaCharacters \in Nat
  /\ pumping \in BOOLEAN /\ failed \in BOOLEAN /\ closeRequested \in BOOLEAN
  /\ at \in [Producers -> {"idle", "waiting", "woken", "threw"}]
  /\ drain \in {"open", "waiting", "woken", "drained", "threw"}
  /\ accepted \in Seq(Events)

\* What has come out so far and, unless a write failed, is still to come.
Emitted == written \o active \o pending
Delivers(i) == \E m \in Range(Emitted) : i \in Range(m.ids)

\* An accepted event may be missing only if it is a partial overtaken by the
\* next partial of the same call.
Overtaken(i) == /\ accepted[i].kind = "partial"
                /\ i < Len(accepted)
                /\ accepted[i + 1].kind = "partial"
                /\ accepted[i + 1].key = accepted[i].key

\* "preserving FIFO dispatch": events come out in the order they were accepted,
\* nothing is repeated, and nothing but overtaken partials is left out, up to
\* the write that failed, after which nothing more comes out; and no delta goes
\* out under another event's key.
OrderedDispatch ==
  /\ \A i, j \in DOMAIN Emitted : i < j =>
       \A a \in Range(Emitted[i].ids), b \in Range(Emitted[j].ids) : a < b
  /\ \A m \in Range(Emitted) : \A i, j \in DOMAIN m.ids : i < j => m.ids[i] < m.ids[j]
  /\ \A i \in DOMAIN accepted :
       (failed => \E j \in DOMAIN accepted : i <= j /\ Delivers(j))
         => Delivers(i) \/ Overtaken(i)
  /\ \A m \in Range(Emitted) : \A i \in Range(m.ids) :
       i \in DOMAIN accepted /\ accepted[i].kind = m.kind /\ accepted[i].key = m.key

\* No lost wakeup: whoever waits for capacity finds the queue full, whoever
\* waits for it to drain finds it busy, and the pump that will wake them runs.
NoLostWakeup ==
  /\ (\E p \in Producers : at[p] = "waiting") =>
       pumping /\ ~HasCapacity(pendingSourceEvents, pendingDeltaCharacters)
  /\ drain = "waiting" => pumping
  /\ pending # <<>> \/ active # <<>> => pumping

\* Every emit that waits resumes and closeAndDrain finishes.
WaitersResume ==
  /\ \A p \in Producers : at[p] = "waiting" ~> at[p] # "waiting"
  /\ drain \in {"waiting", "woken"} ~> drain \in {"drained", "threw"}
=============================================================================
