--------------------------- MODULE TaskRun_proofs ---------------------------
(***************************************************************************)
(* Theorems about TaskRun, for every set of tasks, every number of         *)
(* cancellations and every number of retried steps.                        *)
(*                                                                         *)
(* What the parent hears is decided by the durable steps a payload queues, *)
(* long before they are performed.  So the argument is about the queue     *)
(* todo: its steps are in an order (the view is published before the end   *)
(* is announced, nothing follows the announcement of an end but another    *)
(* one) and each of them is true of the run that queued it (a wake only of *)
(* an acknowledged run, an end only of a finished one, with its status).   *)
(* Handling any payload establishes both; performing one step, by whomever *)
(* it is interrupted or retried, keeps them.                               *)
(*                                                                         *)
(* The second part follows the reports of an executor from its hook to the *)
(* parent: none is behind a later one and none is dropped while the task   *)
(* can still complete, so a completed task has handed over all of them.    *)
(* The last part follows its questions the same way: the open one is in    *)
(* the hook of the body or is what the run shows.                          *)
(***************************************************************************)
EXTENDS TaskRun, SequenceLemmas

\* A step that announces an end; what may follow what in a list of steps; the
\* list is in that order; a step is true of the run r that queued it.
EndWake(x) == x.op = "wake" /\ IsEnd(x.d)
Before(x, y) ==
  /\ EndWake(x) => EndWake(y)
  /\ ~(x.op = "view" /\ y.op = "view")
  /\ x.op # "answer" /\ y.op # "answer"
InOrder(s) == \A i, j \in DOMAIN s : i < j => Before(s[i], s[j])
StepOK(x, r) ==
  /\ x.op = "wake" => r.acked /\ ~r.rejected
  /\ EndWake(x) => x.d = wakeTaskParentStep(r.status) /\ isFinished(r)
  /\ x.op = "view" => x.view.status = r.status
HasEnd(s) == \E x \in Range(s) : EndWake(x)
HasView(s) == \E x \in Range(s) : x.op = "view"

-----------------------------------------------------------------------------
(* The inductive invariant.                                                *)
\* The parent's step has made the task its own.
Indexed == parent.pc \in {"indexed", "acked"}

\* What the parent has sent fits the decision it has taken.
CommandsInv ==
  /\ \A c \in Range(commands) :
       /\ c.kind = "ready" => Indexed
       /\ c.kind = "reject-dispatch" => parent.pc = "rejected"
       /\ c.kind = "complete" => ~task.workflow
  /\ task.workflow => parent.settled

\* The run believes only what the parent decided; only a cancelled task may be
\* terminal before its executor has settled.
RunInv ==
  /\ run.acked /\ ~run.rejected => Indexed
  /\ run.rejected => parent.pc = "rejected" /\ run.acked /\ isTerminalTaskStatus(run.status)
  /\ ~task.workflow => run.settled
  /\ isTerminalTaskStatus(run.status) /\ ~run.settled => run.status = "cancelled"
  /\ run.result # NoResult => run.result.kind # "none"

\* The body is started once, and the run knows that it was: it reads its result,
\* holds it, or has applied it.
BodyInv ==
  /\ body.starts <= 1
  /\ body.starts = 1 => Indexed /\ (run.reading \/ run.result # NoResult \/ run.settled)
  /\ body.pc # "none" => body.starts = 1
  /\ body.pc = "returned" => body.result.kind # "none"

\* A read that landed has something to claim.
ReaderInv ==
  /\ reader["workflow"] = "landed" => workflow # <<>>
  /\ reader["commands"] = "landed" => commands # <<>>
  /\ reader["body"] = "landed" => body.pc = "returned"

\* The steps in hand are in order and true of the run; the published view is the
\* run's status unless a newer view is among them, and never terminal before it.
TodoInv ==
  /\ InOrder(todo)
  /\ \A x \in Range(todo) : StepOK(x, run)
  /\ HasView(todo) => ~isTerminalTaskStatus(view.status)
  /\ ~HasView(todo) => view.status = run.status

\* Ends are announced with the published status, of a finished run, and nothing
\* but ends comes after them, in the inbox or in the steps in hand; a finished run
\* has announced its end or is about to.
EndInv ==
  /\ \A d \in Ends : d = wakeTaskParentStep(view.status)
  /\ Ends # {} => isTerminalTaskStatus(view.status)
  /\ Running /\ Ends # {} => isFinished(run) /\ \A x \in Range(todo) : EndWake(x)
  /\ Running /\ isFinished(run) /\ ~run.rejected => Ends # {} \/ HasEnd(todo)
  /\ run.phase = "finished" /\ ~run.rejected => Ends # {}
  /\ \A i, j \in DOMAIN inbox : i < j /\ IsEnd(inbox[i]) => IsEnd(inbox[j])
  /\ HeardEnd # {} => \A d \in Range(inbox) : IsEnd(d)

\* Only an acknowledged task is cancelled.  A killed run's end has been announced,
\* or the caller who killed it, or who found it gone, is still going to.
CancelInv ==
  /\ cancel.pc # "idle" => parent.pc = "acked"
  /\ cancel.pc \in {"stopping", "waking"} => view.status = "cancelled"
  /\ cancel.pc = "waking" => ~Running
  /\ cancel.pc = "returned" => isTerminalTaskStatus(view.status)
  /\ run.phase = "killed" =>
       /\ view.status = "cancelled"
       /\ \/ Ends # {} \/ cancel.pc = "waking"
          \/ cancel.pc \in {"sent", "stopping"} /\ cancel.delivery = "unreachable"

\* The inductive invariant.
IInv ==
  /\ TypeOK /\ CommandsInv /\ RunInv /\ BodyInv /\ ReaderInv /\ TodoInv /\ EndInv /\ CancelInv
  /\ SilentUntilIndexed /\ EndIsLast /\ CancelIsTold

-----------------------------------------------------------------------------
(* Lists of durable steps.                                                 *)

\* A step that may follow all the others keeps the order.
LEMMA AppendInOrder ==
  ASSUME NEW S, NEW s \in Seq(S), NEW x \in S, InOrder(s), \A y \in Range(s) : Before(y, x)
  PROVE  InOrder(Append(s, x))
<1>1. \A i \in 1..Len(s) : Before(s[i], x)
  BY Indices DEF Range
<1> QED
  BY <1>1, Appended DEF InOrder

\* Performing the first step keeps the order of the others.
LEMMA TailInOrder ==
  ASSUME NEW S, NEW s \in Seq(S), s # <<>>, InOrder(s)
  PROVE  InOrder(Tail(s)) /\ \A x \in Range(Tail(s)) : Before(Head(s), x)
BY Shifted DEF InOrder, Range

\* Two ordered lists make one when the second may follow the first.
LEMMA ConcatInOrder ==
  ASSUME NEW S, NEW s \in Seq(S), NEW t \in Seq(S), InOrder(s), InOrder(t),
         \A x \in Range(s), y \in Range(t) : Before(x, y)
  PROVE  InOrder(s \o t)
<1>1. /\ DOMAIN s = 1..Len(s) /\ DOMAIN t = 1..Len(t) /\ Len(s) \in Nat /\ Len(t) \in Nat
      /\ DOMAIN (s \o t) = 1..(Len(s) + Len(t))
      /\ \A i \in 1..(Len(s) + Len(t)) : (s \o t)[i] = IF i <= Len(s) THEN s[i] ELSE t[i - Len(s)]
  BY ConcatProperties
<1>2. \A i \in 1..Len(s), j \in 1..Len(t) : Before(s[i], t[j])
  BY <1>1 DEF Range
<1> QED
  BY <1>1, <1>2 DEF InOrder

\* Steps that may follow each other either way are in order.
LEMMA UniformInOrder ==
  ASSUME NEW S, NEW s \in Seq(S), \A x, y \in Range(s) : Before(x, y)
  PROVE  InOrder(s)
BY DEF InOrder, Range

\* No step, or one, is in order.
LEMMA FewInOrder == InOrder(<<>>) /\ \A x : InOrder(<<x>>)
BY DEF InOrder

-----------------------------------------------------------------------------
(* What handling a payload does.                                           *)
\* The commands applyTaskTransition knows.
Transitions == [kind : {"ready", "reject-dispatch", "cancel", "complete", "fail",
                        "require-input", "answered"}, q : Nat]

\* Released updates wake the parent, and none of them is an end.
LEMMA FlushedSteps ==
  ASSUME NEW r \in RunState
  PROVE  /\ FlushedUpdates(r) \in Seq(DurableStep)
         /\ \A x \in Range(FlushedUpdates(r)) : x.op = "wake" /\ x.d.kind = "update"
<1>1. r.updates \in Seq(Report) /\ DOMAIN FlushedUpdates(r) = DOMAIN r.updates
  BY DEF RunState, FlushedUpdates, Map
<1>2. \A i \in DOMAIN r.updates :
        FlushedUpdates(r)[i] = Wake(wakeTaskUpdateParentStep(r.updates[i]))
  BY DEF FlushedUpdates, Map
<1>3. \A u \in Report : /\ Wake(wakeTaskUpdateParentStep(u)) \in DurableStep
                        /\ Wake(wakeTaskUpdateParentStep(u)).op = "wake"
                        /\ Wake(wakeTaskUpdateParentStep(u)).d.kind = "update"
  BY DEF Report, Wake, Step, wakeTaskUpdateParentStep, DurableStep, Delivery, View, Statuses
<1>4. \A i \in DOMAIN r.updates : r.updates[i] \in Report
  BY <1>1
<1>5. FlushedUpdates(r) \in [DOMAIN r.updates -> DurableStep]
  BY <1>1, <1>2, <1>3, <1>4 DEF FlushedUpdates, Map
<1> QED
  BY <1>1, <1>2, <1>3, <1>4, <1>5, MapIsSequence DEF Range

\* So do released messages and owner requests, unless the dispatch was rejected.
LEMMA PendingSteps ==
  ASSUME NEW r \in RunState, NEW rejects \in BOOLEAN
  PROVE  /\ flushPendingTraffic(r, rejects) \in Seq(DurableStep)
         /\ \A x \in Range(flushPendingTraffic(r, rejects)) :
               /\ x.op = "wake" /\ x.d.kind \in {"message", "owner"}
               /\ ~r.rejected /\ ~rejects
<1> DEFINE ms == Map(LAMBDA m : Wake(wakeTaskMessageParentStep(m)), r.messages)
           os == Map(LAMBDA n : Wake(wakeTaskOwnerRequestParent(n)), r.owners)
<1>1. r.messages \in Seq(Report) /\ r.owners \in Seq(Nat)
  BY DEF RunState
<1>2. \A u \in Report : /\ Wake(wakeTaskMessageParentStep(u)) \in DurableStep
                        /\ Wake(wakeTaskMessageParentStep(u)).op = "wake"
                        /\ Wake(wakeTaskMessageParentStep(u)).d.kind = "message"
  BY DEF Report, Wake, Step, wakeTaskMessageParentStep, DurableStep, Delivery, View, Statuses
<1>3. \A n \in Nat : /\ Wake(wakeTaskOwnerRequestParent(n)) \in DurableStep
                     /\ Wake(wakeTaskOwnerRequestParent(n)).op = "wake"
                     /\ Wake(wakeTaskOwnerRequestParent(n)).d.kind = "owner"
  BY DEF Wake, Step, wakeTaskOwnerRequestParent, DurableStep, Delivery, View, Statuses
<1>4. ms \in Seq(DurableStep) /\ \A x \in Range(ms) : x.op = "wake" /\ x.d.kind = "message"
  <2>1. \A i \in DOMAIN r.messages : r.messages[i] \in Report
    BY <1>1
  <2>2. ms \in [DOMAIN r.messages -> DurableStep]
    BY <1>2, <2>1 DEF Map
  <2>3. \A i \in DOMAIN r.messages : ms[i] = Wake(wakeTaskMessageParentStep(r.messages[i]))
    BY DEF Map
  <2> HIDE DEF ms
  <2> QED
    BY <1>1, <1>2, <2>1, <2>2, <2>3, MapIsSequence DEF Range
<1>5. os \in Seq(DurableStep) /\ \A x \in Range(os) : x.op = "wake" /\ x.d.kind = "owner"
  <2>1. \A i \in DOMAIN r.owners : r.owners[i] \in Nat
    BY <1>1
  <2>2. os \in [DOMAIN r.owners -> DurableStep]
    BY <1>3, <2>1 DEF Map
  <2>3. \A i \in DOMAIN r.owners : os[i] = Wake(wakeTaskOwnerRequestParent(r.owners[i]))
    BY DEF Map
  <2> HIDE DEF os
  <2> QED
    BY <1>1, <1>3, <2>1, <2>2, <2>3, MapIsSequence DEF Range
<1> HIDE DEF ms, os
<1>6. CASE r.rejected \/ rejects
  <2>1. flushPendingTraffic(r, rejects) = <<>>
    BY <1>6 DEF flushPendingTraffic
  <2>2. <<>> \in Seq(DurableStep) /\ Range(<<>>) = {}
    BY RangeOfFew
  <2> QED
    BY <2>1, <2>2
<1>7. CASE ~(r.rejected \/ rejects)
  <2>1. flushPendingTraffic(r, rejects) = ms \o os
    BY <1>7 DEF flushPendingTraffic, ms, os
  <2>2. Range(ms \o os) = Range(ms) \cup Range(os) /\ ms \o os \in Seq(DurableStep)
    BY <1>4, <1>5, RangeConcatenation, ConcatProperties
  <2> QED
    BY <1>4, <1>5, <1>7, <2>1, <2>2
<1> QED
  BY <1>6, <1>7

\* applyTaskTransition moves the status and the open questions and nothing else.
LEMMA TransitionMoves ==
  ASSUME NEW r \in RunState, NEW c \in Transitions
  PROVE  LET v == applyTaskTransition(r, c)
         IN /\ v = [r EXCEPT !.status = v.status, !.requests = v.requests]
            /\ v.status \in Statuses /\ v.requests \in SUBSET Nat /\ v \in RunState
            /\ c.kind \in {"complete", "fail", "reject-dispatch", "cancel"}
                 => isTerminalTaskStatus(v.status)
            /\ c.kind \in {"require-input", "answered"} => ~isTerminalTaskStatus(v.status)
            /\ c.kind = "require-input" => v.status = "input_required"
            /\ c.kind = "ready" => v = r
            /\ v.status = "cancelled" => c.kind = "cancel" \/ r.status = "cancelled"
            /\ c.kind = "cancel" => v.status = "cancelled"
<1> DEFINE v == applyTaskTransition(r, c)
<1>1. ASSUME NEW t \in Statuses, NEW Q \in SUBSET Nat
      PROVE  Moved(r, t, Q) \in RunState /\ Moved(r, t, Q).status = t /\ Moved(r, t, Q).requests = Q
  BY DEF RunState, Moved
<1>2. /\ r.status \in Statuses /\ r.requests \in SUBSET Nat /\ r = Moved(r, r.status, r.requests)
      /\ c.q \in Nat
      /\ c.kind \in {"ready", "reject-dispatch", "cancel", "complete", "fail", "require-input", "answered"}
  BY DEF RunState, Transitions, Moved
<1>3. /\ {"completed", "failed", "cancelled"} \subseteq Statuses
      /\ \A t \in {"completed", "failed", "cancelled"} : isTerminalTaskStatus(t)
      /\ {"working", "input_required"} \subseteq Statuses
      /\ ~isTerminalTaskStatus("working") /\ ~isTerminalTaskStatus("input_required")
  BY DEF Statuses, TerminalStatuses, isTerminalTaskStatus
<1>4. /\ c.kind = "complete" => v = Moved(r, "completed", {})
      /\ c.kind \in {"fail", "reject-dispatch"} => v = Moved(r, "failed", {})
      /\ c.kind = "cancel" => v = Moved(r, "cancelled", {})
      /\ c.kind = "require-input" => v = Moved(r, "input_required", {c.q})
      /\ c.kind = "answered" => v = Moved(r, IF r.requests = {c.q} THEN "working" ELSE "input_required",
                                           r.requests \ {c.q})
      /\ c.kind = "ready" => v = r
  BY <1>2 DEF applyTaskTransition
<1> HIDE DEF v
<1>5. \E t \in Statuses, Q \in SUBSET Nat :
         /\ v = Moved(r, t, Q)
         /\ c.kind \in {"complete", "fail", "reject-dispatch", "cancel"} => isTerminalTaskStatus(t)
         /\ c.kind \in {"require-input", "answered"} => ~isTerminalTaskStatus(t)
         /\ c.kind = "require-input" => t = "input_required"
         /\ c.kind = "ready" => t = r.status
         /\ t = "cancelled" => c.kind = "cancel" \/ r.status = "cancelled"
         /\ c.kind = "cancel" => t = "cancelled"
  <2>1. CASE c.kind \in {"complete", "fail", "reject-dispatch", "cancel"}
    BY <1>3, <1>4, <2>1
  <2>2. CASE c.kind = "require-input"
    BY <1>2, <1>3, <1>4, <2>2
  <2>3. CASE c.kind = "answered"
    BY <1>2, <1>3, <1>4, <2>3
  <2>4. CASE c.kind = "ready"
    BY <1>2, <1>4, <2>4
  <2> QED
    BY <1>2, <2>1, <2>2, <2>3, <2>4
<1>6. v \in RunState /\ v = Moved(r, v.status, v.requests)
      /\ v.status \in Statuses /\ v.requests \in SUBSET Nat
  <2>1. PICK t \in Statuses, Q \in SUBSET Nat : v = Moved(r, t, Q)
    BY <1>5
  <2>2. v \in RunState /\ v.status = t /\ v.requests = Q
    BY <1>1, <2>1
  <2> QED
    BY <2>1, <2>2
<1>7. v = [r EXCEPT !.status = v.status, !.requests = v.requests]
  BY <1>6 DEF Moved
<1>8. /\ c.kind \in {"complete", "fail", "reject-dispatch", "cancel"} => isTerminalTaskStatus(v.status)
      /\ c.kind \in {"require-input", "answered"} => ~isTerminalTaskStatus(v.status)
      /\ c.kind = "require-input" => v.status = "input_required"
      /\ v.status = "cancelled" => c.kind = "cancel" \/ r.status = "cancelled"
      /\ c.kind = "cancel" => v.status = "cancelled"
  BY <1>1, <1>5
<1>9. c.kind = "ready" => v = r
  BY <1>4
<1> QED
  BY <1>6, <1>7, <1>8, <1>9, Zenon DEF v

\* What ApplyCommand is applied to, and what it makes of it.
Applicable(r, c) ==
  /\ r.rejected => r.acked /\ (isTerminalTaskStatus(r.status) \/ c.kind = "reject-dispatch")
  /\ c.kind = "ready" => r.acked /\ ~r.rejected /\ (isTerminalTaskStatus(r.status) => r.settled)
  /\ c.kind \in {"complete", "fail", "reject-dispatch"} => r.settled
  /\ c.kind = "reject-dispatch" => r.rejected
  /\ isTerminalTaskStatus(r.status) /\ ~r.settled => r.status = "cancelled"
  /\ c.kind = "require-input" => r.ask # 0
Kept(r, s) ==
  /\ s.phase = r.phase /\ s.acked = r.acked /\ s.rejected = r.rejected
  /\ s.reading = r.reading /\ s.result = r.result /\ s.index = r.index
  /\ r.settled => s.settled
Applied(r, c, a) ==
  /\ a.run \in RunState /\ Kept(r, a.run)
  /\ a.run.rejected => isTerminalTaskStatus(a.run.status)
  /\ isTerminalTaskStatus(a.run.status) /\ ~a.run.settled => a.run.status = "cancelled"
  /\ a.steps \in Seq(DurableStep) /\ InOrder(a.steps)
  /\ \A x \in Range(a.steps) : x.op \in {"view", "abort", "wake"} /\ StepOK(x, a.run)
  /\ \/ HasView(a.steps) /\ ~isTerminalTaskStatus(r.status)
     \/ ~HasView(a.steps) /\ a.run.status = r.status
  /\ isFinished(a.run) /\ ~a.run.rejected /\ (c.kind = "ready" \/ ~isFinished(r))
       => HasEnd(a.steps)
  /\ isTerminalTaskStatus(r.status) /\ c.kind # "ready" => a.steps = <<>>

\* applyPayload of a command: every way through it queues steps in order that are
\* true of the run it leaves, publishes a view exactly when the status may have
\* moved, and announces the end of a run it finishes.
LEMMA ApplyCommandFacts ==
  ASSUME NEW r \in RunState, NEW c \in Transitions, Applicable(r, c), task.agent \in BOOLEAN
  PROVE  Applied(r, c, ApplyCommand(r, c))
<1> DEFINE
      v == applyTaskTransition(r, c)
      settled == r.settled \/ (c.kind = "cancel" /\ ~r.reading)
      flushes == ~isTerminalTaskStatus(v.status) /\ r.acked
      asks == r.ask # 0 /\ r.acked /\ v.status = "input_required"
      wakes == /\ ~r.rejected /\ r.acked
               /\ c.kind # "cancel" \/ settled
               /\ \/ isTerminalTaskStatus(v.status)
                  \/ /\ ~isReadyTaskStatus(r.status)
                     /\ isReadyTaskStatus(v.status)
                     /\ r.ask = 0
      a == ApplyCommand(r, c)
<1>1. CASE c.kind = "ready" /\ isTerminalTaskStatus(r.status)
  <2> DEFINE e == Wake(wakeTaskParentStep(r.status))
  <2>1. a = [run |-> [r EXCEPT !.updates = <<>>], steps |-> Append(FlushedUpdates(r), e)]
    BY <1>1 DEF ApplyCommand
  <2>2. /\ e \in DurableStep /\ e.op = "wake" /\ IsEnd(e.d)
        /\ e.d = wakeTaskParentStep(r.status)
    BY <1>1 DEF Wake, Step, wakeTaskParentStep, DurableStep, Delivery, View, Statuses,
                isTerminalTaskStatus, TerminalStatuses, IsEnd
  <2>3. /\ a.run \in RunState /\ Kept(r, a.run) /\ a.run.status = r.status
        /\ a.run.settled = r.settled
    <3>1. a.run = [r EXCEPT !.updates = <<>>] /\ <<>> \in Seq(Report)
      BY <2>1
    <3> QED
      BY <3>1 DEF RunState, Kept
  <2>4. isFinished(a.run) /\ a.run.acked /\ ~a.run.rejected
    BY <1>1, <2>3 DEF isFinished, Applicable, Kept
  <2> HIDE DEF e
  <2>5. /\ a.steps \in Seq(DurableStep) /\ Range(a.steps) = Range(FlushedUpdates(r)) \cup {e}
        /\ a.steps = Append(FlushedUpdates(r), e)
    BY <2>1, <2>2, FlushedSteps, RangeOfAppend, AppendProperties
  <2>6. \A x \in Range(FlushedUpdates(r)) : x.op = "wake" /\ ~IsEnd(x.d)
    BY FlushedSteps DEF IsEnd, isTerminalTaskStatus, TerminalStatuses
  <2>7. InOrder(FlushedUpdates(r))
    BY <2>6, FlushedSteps, UniformInOrder DEF Before, EndWake
  <2>8. InOrder(a.steps)
    BY <2>2, <2>5, <2>6, <2>7, FlushedSteps, AppendInOrder DEF Before, EndWake
  <2>9. \A x \in Range(a.steps) : x.op = "wake" /\ StepOK(x, a.run)
    BY <2>2, <2>3, <2>4, <2>5, <2>6 DEF StepOK, EndWake
  <2> QED
    BY <1>1, <2>2, <2>3, <2>4, <2>5, <2>8, <2>9 DEF Applied, HasView, HasEnd, EndWake, isFinished
<1>2. CASE ~(c.kind = "ready" /\ isTerminalTaskStatus(r.status)) /\ ~Accepts(r, c)
  <2>1. a = [run |-> r, steps |-> <<>>]
    BY <1>2 DEF ApplyCommand
  <2>2. <<>> \in Seq(DurableStep) /\ Range(<<>>) = {} /\ InOrder(<<>>)
    BY RangeOfFew, FewInOrder
  <2>3. Kept(r, r)
    BY DEF Kept
  <2>4. c.kind # "ready"
    BY <1>2 DEF Accepts
  <2>5. r.rejected => isTerminalTaskStatus(r.status)
    BY <1>2 DEF Accepts, Applicable
  <2> QED
    BY <2>1, <2>2, <2>3, <2>4, <2>5 DEF Applied, HasView, HasEnd, Applicable
<1>3. CASE ~(c.kind = "ready" /\ isTerminalTaskStatus(r.status)) /\ Accepts(r, c)
  <2> DEFINE
        s == [v EXCEPT !.settled = settled, !.updates = IF flushes THEN <<>> ELSE @,
                       !.ask = IF asks \/ v.status # "input_required" THEN 0 ELSE @]
        s1 == <<appendTaskViewStep(v)>>
        s2 == IF c.kind = "cancel" THEN <<Step("abort", Nothing)>> ELSE <<>>
        s3 == IF flushes THEN FlushedUpdates(r) ELSE <<>>
        s4 == IF asks THEN <<Wake(wakeWorkflowTaskInputRequestParentStep(r.ask))>>
              ELSE IF wakes THEN <<Wake(wakeTaskParentStep(v.status))>> ELSE <<>>
  <2>1. a = [run |-> s, steps |-> s1 \o s2 \o s3 \o s4]
    BY <1>3 DEF ApplyCommand
  <2>2. /\ v = [r EXCEPT !.status = v.status, !.requests = v.requests] /\ v \in RunState
        /\ v.status \in Statuses
        /\ c.kind \in {"complete", "fail", "reject-dispatch", "cancel"}
             => isTerminalTaskStatus(v.status)
        /\ c.kind \in {"require-input", "answered"} => ~isTerminalTaskStatus(v.status)
        /\ c.kind = "require-input" => v.status = "input_required"
        /\ c.kind = "ready" => v = r
        /\ v.status = "cancelled" => c.kind = "cancel" \/ r.status = "cancelled"
        /\ c.kind = "cancel" => v.status = "cancelled"
    BY TransitionMoves
  <2> HIDE DEF v
  <2>3. ~isTerminalTaskStatus(r.status) /\ (c.kind = "answered" => r.status = "input_required")
    BY <1>3 DEF Accepts
  <2>4. /\ s \in RunState /\ Kept(r, s) /\ s.status = v.status /\ s.settled = settled
    <3>1. settled \in BOOLEAN
      BY DEF RunState
    <3>2. r.updates \in Seq(Report) /\ <<>> \in Seq(Report)
      BY DEF RunState
    <3> QED
      BY <2>2, <3>1, <3>2, ZenonT(40) DEF RunState, Kept
  <2>5. s.rejected => isTerminalTaskStatus(s.status)
    BY <2>2, <2>3, <2>4 DEF Applicable, Kept
  <2>6. isTerminalTaskStatus(s.status) /\ ~s.settled => s.status = "cancelled"
    BY <2>2, <2>3, <2>4 DEF Applicable, Transitions
  <2>7. /\ s1 \in Seq(DurableStep) /\ InOrder(s1)
        /\ \A x \in Range(s1) : x.op = "view" /\ StepOK(x, s)
        /\ HasView(s1)
    <3>1. /\ appendTaskViewStep(v) \in DurableStep
          /\ appendTaskViewStep(v).op = "view" /\ appendTaskViewStep(v).view.status = v.status
      BY <2>2 DEF appendTaskViewStep, DurableStep, Nothing, Delivery, View, RunState
    <3> QED
      BY <2>4, <3>1, RangeOfFew, FewInOrder DEF StepOK, EndWake, HasView
  <2>8. /\ s2 \in Seq(DurableStep) /\ InOrder(s2)
        /\ \A x \in Range(s2) : x.op = "abort" /\ StepOK(x, s)
    <3>1. Step("abort", Nothing) \in DurableStep /\ Step("abort", Nothing).op = "abort"
      BY DEF Step, DurableStep, Nothing, Delivery, View, Statuses
    <3> QED
      BY <3>1, RangeOfFew, FewInOrder DEF StepOK, EndWake
  <2>9. /\ s3 \in Seq(DurableStep) /\ InOrder(s3)
        /\ \A x \in Range(s3) : x.op = "wake" /\ ~IsEnd(x.d) /\ StepOK(x, s)
    <3>1. CASE flushes
      <4>1. s.acked /\ ~s.rejected
        BY <2>4, <2>5, <3>1 DEF Kept, RunState
      <4>2. \A x \in Range(s3) : x.op = "wake" /\ ~IsEnd(x.d)
        BY <3>1, FlushedSteps DEF IsEnd, isTerminalTaskStatus, TerminalStatuses
      <4>3. s3 \in Seq(DurableStep)
        BY <3>1, FlushedSteps
      <4> HIDE DEF s3
      <4> QED
        BY <4>1, <4>2, <4>3, UniformInOrder DEF StepOK, EndWake, Before
    <3>2. CASE ~flushes
      BY <3>2, RangeOfFew, FewInOrder
    <3> QED
      BY <3>1, <3>2
  <2>10. wakes /\ isTerminalTaskStatus(v.status) => isFinished(s)
    <3> HIDE DEF s
    <3>1. isTerminalTaskStatus(v.status) /\ (c.kind # "cancel" \/ settled) => settled
      BY <2>2, <2>3 DEF Applicable, Transitions
    <3> QED
      BY <2>4, <3>1 DEF isFinished, Kept
  <2>11. wakes /\ ~asks => isTerminalTaskStatus(v.status)
    BY <2>2, <2>3 DEF Applicable, Transitions, isReadyTaskStatus
  <2>12. /\ s4 \in Seq(DurableStep) /\ InOrder(s4)
         /\ \A x \in Range(s4) : x.op = "wake" /\ StepOK(x, s)
         /\ isFinished(s) /\ ~s.rejected => HasEnd(s4)
    <3>1. CASE asks
      <4> DEFINE q == Wake(wakeWorkflowTaskInputRequestParentStep(r.ask))
      <4>1. q \in DurableStep /\ q.op = "wake" /\ ~IsEnd(q.d)
        BY DEF Wake, Step, wakeWorkflowTaskInputRequestParentStep, DurableStep, Delivery, View,
               Statuses, RunState, IsEnd, isTerminalTaskStatus, TerminalStatuses
      <4>2. s4 = <<q>>
        BY <3>1
      <4> HIDE DEF q
      <4>3. s.acked /\ ~s.rejected /\ ~isFinished(s)
        BY <2>4, <2>5, <3>1 DEF Kept, isTerminalTaskStatus, TerminalStatuses, isFinished, RunState
      <4> QED
        BY <4>1, <4>2, <4>3, RangeOfFew, FewInOrder DEF StepOK, EndWake
    <3>2. CASE ~asks /\ wakes
      <4> DEFINE q == Wake(wakeTaskParentStep(v.status))
      <4>1. q \in DurableStep /\ q.op = "wake" /\ q.d = wakeTaskParentStep(v.status) /\ IsEnd(q.d)
        BY <2>11, <3>2 DEF Wake, Step, wakeTaskParentStep, DurableStep, Delivery, View,
               Statuses, IsEnd, isTerminalTaskStatus
      <4>2. s4 = <<q>>
        BY <3>2
      <4> HIDE DEF q
      <4>3. s.acked /\ ~s.rejected /\ isFinished(s)
        BY <2>4, <2>10, <2>11, <3>2 DEF Kept
      <4> QED
        BY <2>4, <4>1, <4>2, <4>3, RangeOfFew, FewInOrder DEF StepOK, EndWake, HasEnd
    <3>3. CASE ~asks /\ ~wakes
      <4>1. ~(isFinished(s) /\ ~s.rejected)
        BY <2>2, <2>4, <3>3 DEF isFinished, Kept
      <4>2. s4 = <<>>
        BY <3>3
      <4> QED
        BY <4>1, <4>2, RangeOfFew, FewInOrder
    <3> QED
      BY <3>1, <3>2, <3>3
  <2> HIDE DEF s, s1, s2, s3, s4
  <2> DEFINE s12 == s1 \o s2
             s123 == s12 \o s3
             s1234 == s123 \o s4
  <2>13. s12 \in Seq(DurableStep) /\ InOrder(s12) /\ Range(s12) = Range(s1) \cup Range(s2)
    BY <2>7, <2>8, ConcatInOrder, ConcatProperties, RangeConcatenation DEF Before, EndWake
  <2> HIDE DEF s12
  <2>14. /\ s123 \in Seq(DurableStep) /\ InOrder(s123)
         /\ Range(s123) = Range(s1) \cup Range(s2) \cup Range(s3)
    <3>1. \A x \in Range(s12), y \in Range(s3) : Before(x, y)
      BY <2>7, <2>8, <2>9, <2>13 DEF Before, EndWake
    <3>2. InOrder(s123)
      BY <2>9, <2>13, <3>1, ConcatInOrder
    <3> QED
      BY <2>9, <2>13, <3>2, ConcatProperties, RangeConcatenation
  <2> HIDE DEF s123
  <2>15. /\ s1234 \in Seq(DurableStep) /\ InOrder(s1234)
         /\ Range(s1234) = Range(s1) \cup Range(s2) \cup Range(s3) \cup Range(s4)
    <3>1. \A x \in Range(s123), y \in Range(s4) : Before(x, y)
      BY <2>7, <2>8, <2>9, <2>12, <2>14 DEF Before, EndWake
    <3>2. InOrder(s1234)
      BY <2>12, <2>14, <3>1, ConcatInOrder
    <3> QED
      BY <2>12, <2>14, <3>2, ConcatProperties, RangeConcatenation
  <2> HIDE DEF s1234
  <2>16. a.run = s /\ a.steps = s1234
    BY <2>1 DEF s12, s123, s1234
  <2>17. HasView(a.steps) /\ (HasEnd(s4) => HasEnd(a.steps))
    BY <2>7, <2>15, <2>16 DEF HasView, HasEnd
  <2>18. \A x \in Range(a.steps) : x.op \in {"view", "abort", "wake"} /\ StepOK(x, a.run)
    BY <2>7, <2>8, <2>9, <2>12, <2>15, <2>16
  <2> QED
    BY <2>3, <2>4, <2>5, <2>6, <2>12, <2>15, <2>16, <2>17, <2>18 DEF Applied
<1> QED
  BY <1>1, <1>2, <1>3

\* What handling a payload does to the run and the steps it still has to do.
Handled ==
  /\ run' \in RunState /\ run'.phase = run.phase /\ (run.settled => run'.settled)
  /\ run'.acked /\ ~run'.rejected => Indexed
  /\ run'.rejected => parent.pc = "rejected" /\ run'.acked /\ isTerminalTaskStatus(run'.status)
  /\ isTerminalTaskStatus(run'.status) /\ ~run'.settled => run'.status = "cancelled"
  /\ todo' \in Seq(DurableStep) /\ InOrder(todo')
  /\ \A x \in Range(todo') : StepOK(x, run')
  /\ HasView(todo') => ~isTerminalTaskStatus(view.status)
  /\ ~HasView(todo') => view.status = run'.status
  /\ isFinished(run') /\ ~run'.rejected => Ends # {} \/ HasEnd(todo')
  /\ Ends # {} => isFinished(run') /\ \A x \in Range(todo') : EndWake(x)

\* The body's result is handled so, the late notice of a cancelled task included.
LEMMA SettleBodyHandles ==
  ASSUME IInv, SettleBody
  PROVE  Handled /\ run'.settled /\ run'.result = NoResult /\ run'.reading = run.reading
<1> USE DEF IInv
<1> DEFINE r == [run EXCEPT !.settled = TRUE]
           c == [kind |-> run.result.kind, q |-> 0]
           a == ApplyCommand(r, c)
           e == Wake(wakeTaskParentStep("cancelled"))
           x == IF a.run.status = "cancelled" /\ run.acked /\ ~run.rejected THEN <<e>> ELSE <<>>
<1>1. /\ Running /\ todo = <<>> /\ run.result # NoResult
      /\ run' = [a.run EXCEPT !.result = NoResult] /\ todo' = a.steps \o x
  BY DEF SettleBody, AtLoopTop, ResultDue
<1>2. run \in RunState /\ task.agent \in BOOLEAN /\ NoResult \in Result
  BY TaskConstants DEF TypeOK, NoResult, Result
<1>3. /\ r \in RunState /\ r.settled /\ r.status = run.status /\ r.acked = run.acked
      /\ r.rejected = run.rejected /\ r.phase = run.phase /\ r.reading = run.reading
  BY <1>2 DEF RunState
<1>4. c \in Transitions /\ c.kind # "ready" /\ Applicable(r, c)
  <2>1. run.result.kind \in {"complete", "fail", "cancel"}
    BY <1>1, <1>2 DEF RunState, Result, RunInv
  <2> QED
    BY <1>3, <2>1 DEF Transitions, Applicable, RunInv
<1> HIDE DEF r, c
<1>5. Applied(r, c, a)
  BY <1>2, <1>3, <1>4, ApplyCommandFacts
<1> HIDE DEF a
<1>6. /\ run' \in RunState /\ run'.phase = run.phase /\ run'.settled /\ run'.status = a.run.status
      /\ run'.acked = run.acked /\ run'.rejected = run.rejected /\ run'.result = NoResult
      /\ run'.reading = run.reading
      /\ a.run.settled /\ a.run.acked = run.acked /\ a.run.rejected = run.rejected
  BY <1>1, <1>2, <1>3, <1>5 DEF Applied, Kept, RunState
<1>7. ~HasView(todo) /\ ~HasEnd(todo) /\ view.status = run.status
  BY <1>1, RangeOfFew DEF HasView, HasEnd, TodoInv
<1>8. e \in DurableStep /\ e.op = "wake" /\ IsEnd(e.d) /\ e.d = wakeTaskParentStep("cancelled")
  BY DEF Wake, Step, wakeTaskParentStep, DurableStep, Delivery, View, Statuses, IsEnd,
         isTerminalTaskStatus, TerminalStatuses
<1> HIDE DEF e
<1>9. x \in Seq(DurableStep) /\ InOrder(x) /\ (\A y \in Range(x) : EndWake(y) /\ StepOK(y, run'))
  <2>1. CASE a.run.status = "cancelled" /\ run.acked /\ ~run.rejected
    <3>1. x = <<e>> /\ isFinished(run')
      BY <1>6, <2>1 DEF isFinished, isTerminalTaskStatus, TerminalStatuses
    <3> QED
      BY <1>6, <1>8, <2>1, <3>1, RangeOfFew, FewInOrder DEF StepOK, EndWake
  <2>2. CASE ~(a.run.status = "cancelled" /\ run.acked /\ ~run.rejected)
    BY <2>2, RangeOfFew, FewInOrder
  <2> QED
    BY <2>1, <2>2
<1>10. /\ todo' \in Seq(DurableStep) /\ InOrder(todo') /\ Range(todo') = Range(a.steps) \cup Range(x)
  <2> HIDE DEF x
  <2>1. \A y \in Range(a.steps), z \in Range(x) : Before(y, z)
    BY <1>5, <1>9 DEF Before, EndWake, Applied
  <2>2. InOrder(todo')
    BY <1>1, <1>5, <1>9, <2>1, ConcatInOrder DEF Applied
  <2> QED
    BY <1>1, <1>5, <1>9, <2>2, ConcatProperties, RangeConcatenation DEF Applied
<1>11. \A y \in Range(todo') : StepOK(y, run')
  BY <1>5, <1>6, <1>9, <1>10 DEF Applied, StepOK, isFinished
<1>12. /\ HasView(todo') => ~isTerminalTaskStatus(view.status)
       /\ ~HasView(todo') => view.status = run'.status
  BY <1>3, <1>5, <1>6, <1>7, <1>9, <1>10 DEF Applied, HasView, EndWake
<1>13. isFinished(run') /\ ~run'.rejected => Ends # {} \/ HasEnd(todo')
  <2> SUFFICES ASSUME isFinished(run'), ~run'.rejected, Ends = {} PROVE HasEnd(todo')
    OBVIOUS
  <2>1. ~isFinished(run) /\ run.acked /\ ~run.rejected /\ isFinished(a.run)
    BY <1>1, <1>6, <1>7 DEF EndInv, isFinished
  <2>2. CASE isFinished(r)
    <3>1. run.status = "cancelled"
      BY <1>3, <2>1, <2>2 DEF isFinished, RunInv
    <3>2. a.run.status = "cancelled"
      BY <1>3, <1>5, <3>1 DEF Applied, isTerminalTaskStatus, TerminalStatuses
    <3>3. e \in Range(x)
      BY <2>1, <3>2, RangeOfFew
    <3> QED
      BY <1>9, <1>10, <3>3 DEF HasEnd
  <2>3. CASE ~isFinished(r)
    BY <1>5, <1>6, <1>10, <2>1, <2>3 DEF Applied, HasEnd
  <2> QED
    BY <2>2, <2>3
<1>14. Ends # {} => isFinished(run') /\ \A y \in Range(todo') : EndWake(y)
  <2> SUFFICES ASSUME Ends # {} PROVE isFinished(run') /\ \A y \in Range(todo') : EndWake(y)
    OBVIOUS
  <2>1. isFinished(run)
    BY <1>1 DEF EndInv
  <2>2. a.steps = <<>> /\ a.run.status = run.status
    BY <1>3, <1>4, <1>5, <2>1, RangeOfFew DEF Applied, isFinished, HasView
  <2>3. isFinished(run')
    BY <1>6, <2>1, <2>2 DEF isFinished
  <2> QED
    BY <1>9, <1>10, <2>2, <2>3, RangeOfFew
<1>15. /\ run'.acked /\ ~run'.rejected => Indexed
       /\ run'.rejected => parent.pc = "rejected" /\ run'.acked /\ isTerminalTaskStatus(run'.status)
  BY <1>5, <1>6 DEF RunInv, Applied
<1> QED
  BY <1>6, <1>10, <1>11, <1>12, <1>13, <1>14, <1>15 DEF Handled

\* Reports, owner requests and answers: at most one step, and the run's status
\* stays.
PlainStep(x, r) ==
  /\ x \in DurableStep
  /\ \/ x.op \in {"progress", "answer"}
     \/ x.op = "wake" /\ ~IsEnd(x.d) /\ r.acked /\ ~r.rejected
Plain(steps, r) == steps = <<>> \/ \E x : steps = <<x>> /\ PlainStep(x, r)
Same(r, s) ==
  /\ s \in RunState /\ s.phase = r.phase /\ s.status = r.status /\ s.acked = r.acked
  /\ s.rejected = r.rejected /\ s.settled = r.settled /\ s.reading = r.reading
  /\ s.result = r.result

\* A payload that calls for at most one plain step is handled so.
LEMMA PlainHandles ==
  ASSUME IInv, Same(run, run'), Plain(todo', run), ~HasView(todo), Ends = {},
         isFinished(run) => run.rejected
  PROVE  Handled
<1> USE DEF IInv
<1>1. /\ todo' \in Seq(DurableStep) /\ InOrder(todo')
      /\ \A x \in Range(todo') : PlainStep(x, run)
  <2>1. CASE todo' = <<>>
    BY <2>1, RangeOfFew, FewInOrder
  <2>2. ASSUME NEW x, todo' = <<x>>, PlainStep(x, run)
        PROVE  /\ todo' \in Seq(DurableStep) /\ InOrder(todo')
               /\ \A y \in Range(todo') : PlainStep(y, run)
    BY <2>2, RangeOfFew, FewInOrder DEF PlainStep
  <2> QED
    BY <2>1, <2>2 DEF Plain
<1>2. \A x \in Range(todo') : StepOK(x, run') /\ x.op # "view"
  BY <1>1 DEF PlainStep, StepOK, EndWake, Same
<1>3. view.status = run'.status
  BY DEF TodoInv, Same
<1>4. isFinished(run') => run'.rejected
  BY DEF isFinished, Same
<1> QED
  BY <1>1, <1>2, <1>3, <1>4 DEF Handled, Same, HasView, RunInv

\* handleUpdate, handleMessage and handleOwnerRequest are of that kind.
LEMMA HandlersArePlain ==
  ASSUME NEW r \in RunState
  PROVE  /\ \A u \in Report : LET h == handleUpdate(r, u) IN Same(r, h.run) /\ Plain(h.steps, r)
         /\ \A u \in Report : LET h == handleMessage(r, u) IN Same(r, h.run) /\ Plain(h.steps, r)
         /\ \A n \in Nat : LET h == handleOwnerRequest(r, n) IN Same(r, h.run) /\ Plain(h.steps, r)
<1>1. \A u \in Report : /\ Append(r.updates, u) \in Seq(Report)
                        /\ Append(r.messages, u) \in Seq(Report)
  BY DEF RunState
<1>2. \A n \in Nat : Append(r.owners, n) \in Seq(Nat)
  BY DEF RunState
<1>3. /\ Same(r, r)
      /\ \A u \in Report : Same(r, [r EXCEPT !.updates = Append(@, u)])
      /\ \A u \in Report : Same(r, [r EXCEPT !.messages = Append(@, u)])
      /\ \A n \in Nat : Same(r, [r EXCEPT !.owners = Append(@, n)])
  BY <1>1, <1>2 DEF Same, RunState
<1>4. /\ \A u \in Report :
           PlainStep(Step("progress", [kind |-> "update", n |-> u.index, src |-> u.n]), r)
      /\ r.acked /\ ~r.rejected =>
           /\ \A u \in Report : PlainStep(Wake(wakeTaskUpdateParentStep(u)), r)
           /\ \A u \in Report : PlainStep(Wake(wakeTaskMessageParentStep(u)), r)
           /\ \A n \in Nat : PlainStep(Wake(wakeTaskOwnerRequestParent(n)), r)
  BY DEF PlainStep, Step, Wake, wakeTaskUpdateParentStep, wakeTaskMessageParentStep,
         wakeTaskOwnerRequestParent, Report, DurableStep, Delivery, View, Statuses, IsEnd,
         isTerminalTaskStatus, TerminalStatuses
<1>5. ASSUME NEW u \in Report
      PROVE  LET h == handleUpdate(r, u) IN Same(r, h.run) /\ Plain(h.steps, r)
  BY <1>3, <1>4 DEF handleUpdate, Plain
<1>6. ASSUME NEW u \in Report
      PROVE  LET h == handleMessage(r, u) IN Same(r, h.run) /\ Plain(h.steps, r)
  BY <1>3, <1>4 DEF handleMessage, Plain
<1>7. ASSUME NEW n \in Nat
      PROVE  LET h == handleOwnerRequest(r, n) IN Same(r, h.run) /\ Plain(h.steps, r)
  BY <1>3, <1>4 DEF handleOwnerRequest, Plain
<1> QED
  BY <1>5, <1>6, <1>7

\* When the run waits for its channels nothing is left to do and no end was told.
LEMMA RacingFacts ==
  ASSUME IInv, Racing
  PROVE  /\ Running /\ todo = <<>> /\ ~HasView(todo) /\ ~HasEnd(todo) /\ Ends = {}
         /\ ~isFinished(run) /\ view.status = run.status /\ run \in RunState
         /\ task.agent \in BOOLEAN
<1> USE DEF IInv
<1>1. Running /\ todo = <<>> /\ ~isFinished(run) /\ run \in RunState /\ task.agent \in BOOLEAN
  BY TaskConstants DEF Racing, AtLoopTop, TypeOK
<1> QED
  BY <1>1, RangeOfFew DEF HasView, HasEnd, TodoInv, EndInv

\* What the body sent is handled so.
LEMMA ClaimWorkflowHandles ==
  ASSUME IInv, ClaimWorkflow
  PROVE  Handled /\ run'.result = run.result /\ run'.reading = run.reading
<1> USE DEF IInv
<1> DEFINE m == Head(workflow)
           counted == [run EXCEPT !.index = @ + 1]
           report == [n |-> m.n, index |-> run.index]
           r == [run EXCEPT !.ask = m.n]
           c == [kind |-> "require-input", q |-> m.n]
           a == ApplyCommand(r, c)
<1>1. /\ Running /\ todo = <<>> /\ ~HasView(todo) /\ ~HasEnd(todo) /\ Ends = {}
      /\ ~isFinished(run) /\ view.status = run.status /\ run \in RunState
      /\ task.agent \in BOOLEAN
  BY RacingFacts DEF ClaimWorkflow
<1>2. m.kind \in {"update", "message", "owner", "ask"} /\ m.n \in Nat \ {0}
  <2>1. workflow \in Seq(Message)
    BY DEF TypeOK
  <2>2. workflow # <<>>
    BY DEF ClaimWorkflow, ReaderInv
  <2>3. m \in Message
    BY <2>1, <2>2, Shifted
  <2> QED
    BY <2>3 DEF Message
<1> HIDE DEF m
<1>3. counted \in RunState /\ Same(run, counted) /\ report \in Report /\ m.n \in Nat
  <2>1. run.index \in Nat
    BY <1>1 DEF RunState
  <2>2. report \in Report
    BY <1>2, <2>1 DEF Report
  <2>3. run.index + 1 \in Nat
    BY <2>1
  <2>4. counted \in RunState /\ Same(run, counted)
    BY <1>1, <2>3 DEF Same, RunState
  <2> QED
    BY <1>2, <2>2, <2>4
<1>4. CASE m.kind = "update"
  <2>1. run' = handleUpdate(counted, report).run /\ todo' = handleUpdate(counted, report).steps
    BY <1>4 DEF ClaimWorkflow, m
  <2>2. Same(counted, run') /\ Plain(todo', counted)
    BY <1>3, <2>1, HandlersArePlain
  <2>3. Same(run, run') /\ Plain(todo', run)
    BY <1>3, <2>2 DEF Same, Plain, PlainStep
  <2> QED
    BY <1>1, <2>3, PlainHandles DEF Same
<1>5. CASE m.kind = "message"
  <2>1. run' = handleMessage(counted, report).run /\ todo' = handleMessage(counted, report).steps
    BY <1>5 DEF ClaimWorkflow, m
  <2>2. Same(counted, run') /\ Plain(todo', counted)
    BY <1>3, <2>1, HandlersArePlain
  <2>3. Same(run, run') /\ Plain(todo', run)
    BY <1>3, <2>2 DEF Same, Plain, PlainStep
  <2> QED
    BY <1>1, <2>3, PlainHandles DEF Same
<1>6. CASE m.kind = "owner"
  <2>1. run' = handleOwnerRequest(run, m.n).run /\ todo' = handleOwnerRequest(run, m.n).steps
    BY <1>6 DEF ClaimWorkflow, m
  <2>2. Same(run, run') /\ Plain(todo', run)
    BY <1>1, <1>3, <2>1, HandlersArePlain
  <2> QED
    BY <1>1, <2>2, PlainHandles DEF Same
<1>7. CASE m.kind = "ask"
  <2>1. run' = a.run /\ todo' = a.steps
    BY <1>7 DEF ClaimWorkflow, m
  <2>2. /\ r \in RunState /\ r.settled = run.settled /\ r.status = run.status
        /\ r.acked = run.acked /\ r.rejected = run.rejected /\ r.phase = run.phase
        /\ r.reading = run.reading /\ r.result = run.result /\ r.ask # 0
    BY <1>1, <1>2 DEF RunState
  <2>3. c \in Transitions /\ Applicable(r, c) /\ c.kind = "require-input"
    BY <1>3, <2>2 DEF Transitions, Applicable, RunInv
  <2> HIDE DEF r, c
  <2>4. Applied(r, c, a)
    BY <1>1, <2>2, <2>3, ApplyCommandFacts
  <2>5. ~isFinished(r)
    BY <1>1, <2>2 DEF isFinished
  <2> HIDE DEF a
  <2> QED
    BY <1>1, <2>1, <2>2, <2>3, <2>4, <2>5 DEF Handled, Applied, Kept, RunInv
<1> QED
  BY <1>2, <1>4, <1>5, <1>6, <1>7

\* What ready and reject-dispatch change before their command is applied.
LEMMA AcknowledgedFacts ==
  ASSUME NEW r \in RunState, NEW rejects \in BOOLEAN, task.workflow \in BOOLEAN
  PROVE  LET a == Acknowledged(r, rejects)
         IN /\ a \in RunState /\ a.acked /\ a.rejected = (r.rejected \/ rejects)
            /\ a.settled = (r.settled \/ rejects \/ isTerminalTaskStatus(r.status))
            /\ a.phase = r.phase /\ a.status = r.status /\ a.result = r.result
            /\ a.reading = (r.reading \/ StartsBody(r, rejects \/ isTerminalTaskStatus(r.status)))
<1> DEFINE over == rejects \/ isTerminalTaskStatus(r.status)
           starts == StartsBody(r, over)
<1>1. <<>> \in Seq(Report) /\ <<>> \in Seq(Nat)
  OBVIOUS
<1>2. over \in BOOLEAN /\ starts \in BOOLEAN
  BY DEF isTerminalTaskStatus, StartsBody, RunState
<1>3. Acknowledged(r, rejects) =
        [r EXCEPT !.acked = TRUE, !.rejected = r.rejected \/ rejects, !.settled = r.settled \/ over,
                  !.reading = r.reading \/ starts, !.messages = <<>>, !.owners = <<>>]
  BY DEF Acknowledged
<1> HIDE DEF starts, over
<1>4. r.rejected \in BOOLEAN /\ r.settled \in BOOLEAN /\ r.reading \in BOOLEAN
  BY DEF RunState
<1>5. /\ (r.rejected \/ rejects) \in BOOLEAN /\ (r.settled \/ over) \in BOOLEAN
      /\ (r.reading \/ starts) \in BOOLEAN
  BY Zenon
<1> DEFINE A(x, y, z) == [r EXCEPT !.acked = TRUE, !.rejected = x, !.settled = y,
                                   !.reading = z, !.messages = <<>>, !.owners = <<>>]
<1>6. ASSUME NEW x \in BOOLEAN, NEW y \in BOOLEAN, NEW z \in BOOLEAN
      PROVE  /\ A(x, y, z) \in RunState /\ A(x, y, z).acked /\ A(x, y, z).rejected = x
             /\ A(x, y, z).settled = y /\ A(x, y, z).reading = z /\ A(x, y, z).phase = r.phase
             /\ A(x, y, z).status = r.status /\ A(x, y, z).result = r.result
  <2>1. A(x, y, z) \in RunState
    BY <1>1 DEF RunState
  <2>2. A(x, y, z).acked
    BY DEF RunState
  <2>3. A(x, y, z).rejected = x /\ A(x, y, z).settled = y /\ A(x, y, z).reading = z
    BY DEF RunState
  <2>4. /\ A(x, y, z).phase = r.phase /\ A(x, y, z).status = r.status
        /\ A(x, y, z).result = r.result
    BY DEF RunState
  <2> QED
    BY <2>1, <2>2, <2>3, <2>4, Zenon
<1> HIDE DEF A
<1> DEFINE a == Acknowledged(r, rejects)
<1>7. /\ a \in RunState /\ a.acked /\ a.rejected = (r.rejected \/ rejects)
      /\ a.settled = (r.settled \/ over) /\ a.reading = (r.reading \/ starts)
      /\ a.phase = r.phase /\ a.status = r.status /\ a.result = r.result
  <2>1. a = A(r.rejected \/ rejects, r.settled \/ over, r.reading \/ starts)
    BY <1>3, Zenon DEF A
  <2> HIDE DEF a
  <2> QED
    BY <1>5, <1>6, <2>1, Zenon
<1>8. (r.settled \/ over) = (r.settled \/ rejects \/ isTerminalTaskStatus(r.status))
  BY Zenon DEF over
<1> QED
  BY <1>7, <1>8, Zenon DEF starts, over

\* What the parent sent is handled so, and only a task it has indexed starts a
\* body, which never ran before.
LEMMA ClaimCommandHandles ==
  ASSUME IInv, ClaimCommand
  PROVE  /\ Handled /\ run'.result = run.result /\ (run.reading => run'.reading)
         /\ \/ body' = body
            \/ /\ Indexed /\ run'.reading /\ body.starts = 0
               /\ body' = [body EXCEPT !.pc = "running", !.starts = @ + 1]
<1> USE DEF IInv
<1> DEFINE c == Head(commands)
           acks == c.kind \in {"ready", "reject-dispatch"}
           rejects == c.kind = "reject-dispatch"
           over == rejects \/ isTerminalTaskStatus(run.status)
           r == IF acks THEN Acknowledged(run, rejects) ELSE run
           report == [n |-> c.n, index |-> c.n]
           t == [kind |-> c.kind, q |-> 0]
           a == ApplyCommand(r, t)
           f == IF acks THEN flushPendingTraffic(run, rejects) ELSE <<>>
<1>1. /\ Running /\ todo = <<>> /\ ~HasView(todo) /\ ~HasEnd(todo) /\ Ends = {}
      /\ ~isFinished(run) /\ view.status = run.status /\ run \in RunState
      /\ task.agent \in BOOLEAN
  BY RacingFacts DEF ClaimCommand
<1>2. c.kind \in CommandKinds /\ c.n \in Nat /\ c \in Range(commands)
  <2>1. commands \in Seq([kind : CommandKinds, n : Nat])
    BY DEF TypeOK
  <2>2. commands # <<>>
    BY DEF ClaimCommand, ReaderInv
  <2>3. c \in [kind : CommandKinds, n : Nat]
    BY <2>1, <2>2, Shifted
  <2> QED
    BY <2>1, <2>2, <2>3, RangeOfTail
<1>3. /\ c.kind = "ready" => Indexed
      /\ c.kind = "reject-dispatch" => parent.pc = "rejected"
      /\ c.kind = "complete" => ~task.workflow
  BY <1>2 DEF CommandsInv
<1>4. /\ body' = IF acks /\ StartsBody(run, over)
                   THEN [body EXCEPT !.pc = "running", !.starts = @ + 1] ELSE body
  BY DEF ClaimCommand
<1>5. /\ c.kind = "update" => /\ run' = handleUpdate(run, report).run
                              /\ todo' = <<>> \o handleUpdate(run, report).steps
      /\ c.kind = "message" => /\ run' = handleMessage(run, report).run
                               /\ todo' = <<>> \o handleMessage(run, report).steps
      /\ c.kind = "answer" => /\ run' = run
                              /\ todo' = <<>> \o resolveAnsweredCommand(run, c.n)
      /\ c.kind \notin {"update", "message", "answer"} => run' = a.run /\ todo' = f \o a.steps
  BY DEF ClaimCommand
<1> HIDE DEF c
<1>6. report \in Report
  BY <1>2 DEF Report
<1>7. \A s : Plain(s, run) => <<>> \o s = s
  BY DEF Plain
<1>8. CASE c.kind \in {"update", "message", "answer"}
  <2>1. ~acks /\ body' = body
    BY <1>4, <1>8
  <2>2. Same(run, run') /\ Plain(todo', run)
    <3>1. CASE c.kind = "update"
      BY <1>1, <1>5, <1>6, <1>7, <3>1, HandlersArePlain
    <3>2. CASE c.kind = "message"
      BY <1>1, <1>5, <1>6, <1>7, <3>2, HandlersArePlain
    <3>3. CASE c.kind = "answer"
      <4>1. PlainStep(Step("answer", [kind |-> "answer", n |-> c.n, src |-> c.n]), run)
        BY <1>2 DEF PlainStep, Step, DurableStep, Delivery, View, Statuses
      <4>2. Plain(resolveAnsweredCommand(run, c.n), run)
        BY <4>1 DEF resolveAnsweredCommand, Plain
      <4>3. Same(run, run)
        BY <1>1 DEF Same
      <4> QED
        BY <1>5, <1>7, <3>3, <4>2, <4>3
    <3> QED
      BY <1>8, <3>1, <3>2, <3>3
  <2> QED
    BY <1>1, <2>1, <2>2, PlainHandles DEF Same
<1>9. CASE c.kind \notin {"update", "message", "answer"}
  <2>1. c.kind \in {"ready", "reject-dispatch", "cancel", "complete"} /\ rejects \in BOOLEAN
    BY <1>2, <1>9 DEF CommandKinds
  <2>2. /\ r \in RunState /\ r.phase = run.phase /\ r.status = run.status
        /\ r.result = run.result /\ (run.settled => r.settled) /\ (run.reading => r.reading)
        /\ r.acked = (run.acked \/ acks) /\ r.rejected = (run.rejected \/ rejects)
        /\ acks => r.settled = (run.settled \/ over)
        /\ acks => r.reading = (run.reading \/ StartsBody(run, over))
        /\ ~acks => r = run
    <3>1. CASE acks
      <4>1. r = Acknowledged(run, rejects) /\ task.workflow \in BOOLEAN
        BY <3>1, TaskConstants DEF TypeOK
      <4> DEFINE k == Acknowledged(run, rejects)
      <4>2. /\ k \in RunState /\ k.acked /\ k.rejected = (run.rejected \/ rejects)
            /\ k.settled = (run.settled \/ over)
            /\ k.phase = run.phase /\ k.status = run.status /\ k.result = run.result
            /\ k.reading = (run.reading \/ StartsBody(run, over))
        BY <1>1, <2>1, <4>1, AcknowledgedFacts, ZenonT(40)
      <4>3. /\ run.acked \in BOOLEAN /\ run.rejected \in BOOLEAN /\ run.settled \in BOOLEAN
            /\ run.reading \in BOOLEAN /\ k.acked \in BOOLEAN
        BY <1>1, <4>2 DEF RunState
      <4> HIDE DEF k
      <4>4. r = k
        BY <4>1 DEF k
      <4> QED
        BY <3>1, <4>2, <4>3, <4>4
    <3>2. CASE ~acks
      <4>1. ~rejects /\ r = run
        BY <3>2
      <4> QED
        BY <1>1, <3>2, <4>1 DEF RunState
    <3> QED
      BY <3>1, <3>2
  <2> HIDE DEF r
  <2>3. run.rejected => ~Indexed /\ run.acked /\ isTerminalTaskStatus(run.status)
    BY DEF RunInv, Indexed
  <2>4. t \in Transitions /\ Applicable(r, t) /\ t.kind = c.kind
    <3>1. t \in Transitions /\ t.kind = c.kind
      BY <2>1 DEF Transitions
    <3>2. r.rejected => r.acked /\ (isTerminalTaskStatus(r.status) \/ c.kind = "reject-dispatch")
      BY <2>2, <2>3
    <3>3. c.kind = "ready" => r.acked /\ ~r.rejected /\ (isTerminalTaskStatus(r.status) => r.settled)
      BY <1>3, <2>2, <2>3
    <3>4. c.kind \in {"complete", "fail", "reject-dispatch"} => r.settled
      BY <1>3, <2>1, <2>2 DEF RunInv
    <3>5. isTerminalTaskStatus(r.status) /\ ~r.settled => r.status = "cancelled"
      BY <2>2 DEF RunInv
    <3> HIDE DEF t
    <3> QED
      BY <2>1, <2>2, <3>1, <3>2, <3>3, <3>4, <3>5 DEF Applicable
  <2> HIDE DEF t
  <2>5. Applied(r, t, a)
    BY <1>1, <2>2, <2>4, ApplyCommandFacts
  <2> HIDE DEF a
  <2>6. run' = a.run /\ todo' = f \o a.steps
    BY <1>5, <1>9
  <2>7. /\ f \in Seq(DurableStep) /\ InOrder(f)
        /\ \A x \in Range(f) : x.op = "wake" /\ ~EndWake(x) /\ a.run.acked /\ ~a.run.rejected
    <3>1. CASE acks
      <4>1. f \in Seq(DurableStep) /\ \A x \in Range(f) : /\ x.op = "wake" /\ ~EndWake(x)
                                                         /\ ~run.rejected /\ ~rejects
        BY <1>1, <2>1, <3>1, PendingSteps DEF EndWake, IsEnd, isTerminalTaskStatus, TerminalStatuses
      <4>2. InOrder(f)
        BY <4>1, UniformInOrder DEF Before
      <4> QED
        BY <2>2, <2>5, <3>1, <4>1, <4>2 DEF Applied, Kept
    <3>2. CASE ~acks
      BY <3>2, RangeOfFew, FewInOrder
    <3> QED
      BY <3>1, <3>2
  <2> HIDE DEF f
  <2>8. /\ todo' \in Seq(DurableStep) /\ InOrder(todo')
        /\ Range(todo') = Range(f) \cup Range(a.steps)
    <3>1. \A x \in Range(f), y \in Range(a.steps) : Before(x, y)
      BY <2>5, <2>7 DEF Applied, Before
    <3>2. InOrder(todo')
      BY <2>5, <2>6, <2>7, <3>1, ConcatInOrder DEF Applied
    <3> QED
      BY <2>5, <2>6, <2>7, <3>2, ConcatProperties, RangeConcatenation DEF Applied
  <2>9. \A x \in Range(todo') : StepOK(x, run')
    BY <2>5, <2>6, <2>7, <2>8 DEF Applied, StepOK
  <2>10. /\ HasView(todo') => ~isTerminalTaskStatus(view.status)
         /\ ~HasView(todo') => view.status = run'.status
    BY <1>1, <2>2, <2>5, <2>6, <2>7, <2>8 DEF Applied, HasView
  <2>11. isFinished(run') /\ ~run'.rejected => HasEnd(todo')
    <3>1. c.kind = "ready" \/ ~isFinished(r) \/ r.rejected
      BY <1>1, <2>1, <2>2
    <3> QED
      BY <2>4, <2>5, <2>6, <2>8, <3>1 DEF Applied, Kept, HasEnd
  <2>12. /\ run'.acked /\ ~run'.rejected => Indexed
         /\ run'.rejected => parent.pc = "rejected" /\ run'.acked /\ isTerminalTaskStatus(run'.status)
    BY <1>3, <2>2, <2>5, <2>6 DEF Applied, Kept, RunInv
  <2>13. Handled
    BY <1>1, <2>2, <2>5, <2>6, <2>8, <2>9, <2>10, <2>11, <2>12 DEF Handled, Applied, Kept
  <2>14. run'.result = run.result /\ (run.reading => run'.reading) /\ run'.reading = r.reading
    BY <2>2, <2>5, <2>6 DEF Applied, Kept
  <2>15. acks /\ StartsBody(run, over) => Indexed /\ run'.reading /\ body.starts = 0
    <3> SUFFICES ASSUME acks, StartsBody(run, over) PROVE Indexed /\ run'.reading /\ body.starts = 0
      OBVIOUS
    <3>1. c.kind = "ready" /\ ~run.reading /\ run.result = NoResult /\ ~run.settled
      BY <2>1 DEF StartsBody
    <3>2. body.starts \in Nat
      BY DEF TypeOK, BodyState
    <3>3. body.starts = 0
      BY <3>1, <3>2 DEF BodyInv
    <3>4. r.reading
      BY <2>2
    <3> QED
      BY <1>3, <2>14, <3>1, <3>3, <3>4
  <2> QED
    BY <1>4, <2>13, <2>14, <2>15
<1> QED
  BY <1>8, <1>9

\* A delivered answer is handled so.
LEMMA DeliverAnswerHandles ==
  ASSUME IInv, DeliverAnswer
  PROVE  Handled /\ run'.result = run.result /\ run'.reading = run.reading
<1> USE DEF IInv
<1> DEFINE c == [kind |-> "answered", q |-> Current.d.n]
           a == ApplyCommand(run, c)
<1>1. /\ Running /\ todo # <<>> /\ Current.op = "answer" /\ run' = a.run /\ todo' = a.steps
  BY DEF DeliverAnswer, Performs
<1>2. /\ run \in RunState /\ task.agent \in BOOLEAN /\ todo \in Seq(DurableStep)
  BY TaskConstants DEF TypeOK
<1>3. Current \in DurableStep /\ Range(todo) = {Current}
  <2>1. /\ Current \in DurableStep /\ Range(todo) = {Current} \cup Range(Tail(todo))
        /\ \A x \in Range(Tail(todo)) : Before(Current, x)
    BY <1>1, <1>2, Shifted, RangeOfTail, TailInOrder DEF Current, TodoInv
  <2> QED
    BY <1>1, <2>1 DEF Before
<1>4. ~HasView(todo) /\ ~HasEnd(todo) /\ Ends = {} /\ view.status = run.status
  BY <1>1, <1>3 DEF HasView, HasEnd, EndWake, EndInv, TodoInv
<1>5. isFinished(run) => run.rejected
  BY <1>1, <1>4 DEF EndInv
<1>6. c \in Transitions /\ Applicable(run, c) /\ c.kind = "answered"
  BY <1>3 DEF DurableStep, Delivery, Transitions, Applicable, RunInv
<1> HIDE DEF c
<1>7. Applied(run, c, a)
  BY <1>2, <1>6, ApplyCommandFacts
<1> HIDE DEF a
<1> QED
  BY <1>1, <1>4, <1>5, <1>6, <1>7 DEF Handled, Applied, Kept, RunInv

-----------------------------------------------------------------------------
(* The groups of actions.                                                  *)
Handling == SettleBody \/ ClaimWorkflow \/ ClaimCommand \/ DeliverAnswer
Reading == Arm \/ \E c \in Channels : Land(c)
Popping == PublishView \/ AbortBody \/ AppendProgress \/ WakeParent \/ AnswerUnreachable
Deciding == StepCommits \/ StepFails \/ acknowledgeDelegatedTasksStep
Cancelling ==
  CancelSends \/ CancelSees \/ CancelTimesOut \/ (\E f \in BOOLEAN : CancelStops(f)) \/ CancelCrashes

\* Every step belongs to one of these groups.
LEMMA StepGroups ==
  ASSUME [Next]_vars
  PROVE  \/ Handling \/ Finish \/ ClaimBody \/ Reading \/ Popping \/ BodyStep
         \/ ToolReports \/ ToolCompletes \/ Deciding \/ ParentReceives
         \/ (\E q \in proxied : UserAnswers(q)) \/ Cancelling \/ CancelWakes
         \/ UNCHANGED vars
BY DEF Next, RunStep, ParentStep, CancelProceeds, Handling, Reading, Popping, Deciding, Cancelling

\* What the steps of a group leave alone.
LEMMA GroupFrames ==
  /\ Handling => Running /\ UNCHANGED <<task, view, progress, parent, cancel, inbox, told, proxied, retries>>
  /\ Reading => UNCHANGED <<task, run, todo, workflow, commands, view, progress, body, parent, cancel,
                            inbox, told, proxied, retries>>
  /\ Popping => /\ Running /\ todo # <<>>
                /\ UNCHANGED <<task, run, reader, workflow, commands, parent, cancel, told, proxied>>
  /\ BodyStep => UNCHANGED <<task, run, todo, reader, commands, view, progress, parent, cancel,
                             inbox, told, proxied>>
  /\ Deciding => UNCHANGED <<task, run, todo, reader, workflow, view, progress, body, cancel, inbox,
                             told, proxied>>
  /\ Cancelling => UNCHANGED <<task, todo, reader, workflow, view, progress, body, parent, told,
                               proxied, inbox>>
<1>1. Handling => Running /\ UNCHANGED <<task, view, progress, parent, cancel, inbox, told, proxied, retries>>
  BY DEF Handling, SettleBody, ClaimWorkflow, ClaimCommand, DeliverAnswer, others, AtLoopTop, Racing,
         Performs
<1>2. Reading => UNCHANGED <<task, run, todo, workflow, commands, view, progress, body, parent, cancel,
                             inbox, told, proxied, retries>>
  BY DEF Reading, Arm, Land, others
<1>3. Popping => /\ Running /\ todo # <<>>
                 /\ UNCHANGED <<task, run, reader, workflow, commands, parent, cancel, told, proxied>>
  BY DEF Popping, PublishView, AbortBody, AppendProgress, WakeParent, AnswerUnreachable, others, Performs
<1>4. BodyStep => UNCHANGED <<task, run, todo, reader, commands, view, progress, parent, cancel,
                              inbox, told, proxied>>
  BY DEF BodyStep, BodyReports, BodyAsks, BodyOwnerRequest, BodyResends, BodyReturns, BodyThrows,
         bodyOthers
<1>5. Deciding => UNCHANGED <<parentOthers, cancel, inbox>>
  BY DEF Deciding, StepCommits, StepFails, acknowledgeDelegatedTasksStep
<1>6. Cancelling => UNCHANGED <<cancelOthers, inbox>>
  BY DEF Cancelling, CancelSends, CancelSees, CancelTimesOut, CancelStops, CancelCrashes
<1> QED
  BY <1>1, <1>2, <1>3, <1>4, <1>5, <1>6 DEF parentOthers, cancelOthers

\* What the body sends is in the hook, and its step under way.
LEMMA Sent ==
  ASSUME NEW m \in Message, NEW b \in BodyState, workflow \in Seq(Message), Sends(m, b)
  PROVE  /\ workflow' = Append(workflow, m) /\ workflow' \in Seq(Message)
         /\ \E F \in SUBSET Message :
              /\ F \subseteq b.flight \cup {m} /\ m \in F /\ body' = [b EXCEPT !.flight = F]
              /\ \A f \in F : f = m \/ f.kind = "ask" \/ m.kind = "ask"
<1> DEFINE F == {f \in b.flight : ~task.agent /\ (f.kind = "ask" \/ m.kind = "ask")} \cup {m}
<1>1. b.flight \subseteq Message
  BY DEF BodyState
<1>2. /\ F \in SUBSET Message /\ F \subseteq b.flight \cup {m} /\ m \in F
      /\ \A f \in F : f = m \/ f.kind = "ask" \/ m.kind = "ask"
  BY <1>1
<1>3. body' = [b EXCEPT !.flight = F] /\ workflow' = Append(workflow, m)
  BY DEF Sends
<1>4. Append(workflow, m) \in Seq(Message)
  BY QueueClosed
<1> QED
  BY <1>2, <1>3, <1>4

\* A step of the body makes it say one thing more, say a thing again, or end.
LEMMA BodySteps ==
  ASSUME IInv, BodyStep
  PROVE  /\ Running /\ body' \in BodyState
         /\ workflow' = workflow \/ \E m \in Message : workflow' = Append(workflow, m)
         /\ retries' \in {retries, retries + 1}
         /\ body'.starts = body.starts /\ body'.answered = body.answered /\ body'.aborted = body.aborted
         /\ \/ body'.pc = body.pc /\ body'.result = body.result
            \/ body.pc = "running" /\ body'.pc = "returned" /\ body'.result.kind # "none"
<1>1. workflow \in Seq(Message) /\ body \in BodyState
  BY DEF IInv, TypeOK
<1>2. CASE BodyReports
  <2>1. /\ body.sent + 1 \in Nat \ {0} /\ body.yields \in Nat /\ body.yields + 1 \in Nat
    BY <1>1 DEF BodyState
  <2>2. PICK k \in {"update", "message"}, y \in Nat :
          Sends([kind |-> k, n |-> body.sent + 1], [body EXCEPT !.sent = @ + 1, !.yields = y])
    BY <1>2, <2>1 DEF BodyReports
  <2>3. /\ [kind |-> k, n |-> body.sent + 1] \in Message
        /\ [body EXCEPT !.sent = @ + 1, !.yields = y] \in BodyState
    BY <1>1, <2>1 DEF Message, BodyState
  <2>4. /\ \E m \in Message : workflow' = Append(workflow, m)
        /\ \E F \in SUBSET Message : body' = [body EXCEPT !.sent = @ + 1, !.yields = y, !.flight = F]
    <3> DEFINE b == [body EXCEPT !.sent = @ + 1, !.yields = y]
               m == [kind |-> k, n |-> body.sent + 1]
    <3>1. \A F : [b EXCEPT !.flight = F] = [body EXCEPT !.sent = @ + 1, !.yields = y, !.flight = F]
      OBVIOUS
    <3>2. b \in BodyState /\ m \in Message /\ Sends(m, b)
      BY <2>2, <2>3
    <3> HIDE DEF b, m
    <3>3. /\ workflow' = Append(workflow, m)
          /\ \E F \in SUBSET Message : body' = [b EXCEPT !.flight = F]
      BY <1>1, <3>2, Sent
    <3> QED
      BY <3>1, <3>2, <3>3
  <2> QED
    BY <1>1, <1>2, <2>1, <2>4 DEF BodyState, BodyReports, Executing, bodyOthers
<1>3. CASE BodyAsks
  <2>1. body.asked + 1 \in Nat \ {0}
    BY <1>1 DEF BodyState
  <2>2. Sends([kind |-> "ask", n |-> body.asked + 1], [body EXCEPT !.asked = @ + 1])
    BY <1>3 DEF BodyAsks
  <2>3. [kind |-> "ask", n |-> body.asked + 1] \in Message /\ [body EXCEPT !.asked = @ + 1] \in BodyState
    BY <1>1, <2>1 DEF Message, BodyState
  <2>4. /\ \E m \in Message : workflow' = Append(workflow, m)
        /\ \E F \in SUBSET Message : body' = [body EXCEPT !.asked = @ + 1, !.flight = F]
    BY <1>1, <2>2, <2>3, Sent
  <2> QED
    BY <1>1, <1>3, <2>1, <2>4 DEF BodyState, BodyAsks, Executing, bodyOthers
<1>4. CASE BodyOwnerRequest
  <2>1. body.owned + 1 \in Nat \ {0} /\ body.owned + 1 \in 0..2
    BY <1>1, <1>4 DEF BodyState, BodyOwnerRequest
  <2>2. Sends([kind |-> "owner", n |-> body.owned + 1], [body EXCEPT !.owned = @ + 1])
    BY <1>4 DEF BodyOwnerRequest
  <2>3. [kind |-> "owner", n |-> body.owned + 1] \in Message /\ [body EXCEPT !.owned = @ + 1] \in BodyState
    BY <1>1, <2>1 DEF Message, BodyState
  <2>4. /\ \E m \in Message : workflow' = Append(workflow, m)
        /\ \E F \in SUBSET Message : body' = [body EXCEPT !.owned = @ + 1, !.flight = F]
    BY <1>1, <2>2, <2>3, Sent
  <2> QED
    BY <1>1, <1>4, <2>1, <2>4 DEF BodyState, BodyOwnerRequest, Executing, bodyOthers
<1>5. CASE BodyResends
  <2>1. PICK m \in body.flight :
          /\ workflow' = Append(workflow, m)
          /\ body' = [body EXCEPT !.again = IF m.kind \in {"update", "message"} THEN @ + 1 ELSE @]
    BY <1>5 DEF BodyResends
  <2>2. m \in Message /\ body.again \in Nat /\ body.again + 1 \in Nat
    BY <1>1 DEF BodyState
  <2>3. body' = [body EXCEPT !.again = @ + 1] \/ body' = [body EXCEPT !.again = @]
    BY <2>1
  <2>4. /\ body' \in BodyState /\ body'.starts = body.starts /\ body'.answered = body.answered
        /\ body'.aborted = body.aborted /\ body'.pc = body.pc /\ body'.result = body.result
    BY <1>1, <2>2, <2>3 DEF BodyState
  <2>5. Running /\ retries' = retries + 1
    BY <1>5 DEF BodyResends
  <2> QED
    BY <2>1, <2>2, <2>4, <2>5
<1>6. CASE BodyReturns \/ BodyThrows
  <2>1. /\ workflow' = workflow /\ body.pc = "running" /\ Running /\ retries' = retries
        /\ \E k \in {"complete", "fail", "cancel"} :
             body' = [body EXCEPT !.pc = "returned", !.flight = Unawaited(@),
                                  !.result = [kind |-> k, reports |-> body.yields]]
    BY <1>6 DEF BodyReturns, BodyThrows, Executing, bodyOthers
  <2>2. /\ Unawaited(body.flight) \subseteq Message
        /\ \A k \in {"complete", "fail", "cancel"} : [kind |-> k, reports |-> body.yields] \in Result
    BY <1>1 DEF Unawaited, Result, BodyState
  <2>3. \E F \in SUBSET Message, x \in Result :
          x.kind # "none" /\ body' = [body EXCEPT !.pc = "returned", !.flight = F, !.result = x]
    BY <2>1, <2>2
  <2> QED
    BY <1>1, <2>1, <2>3 DEF BodyState
<1> QED
  BY <1>2, <1>3, <1>4, <1>5, <1>6 DEF BodyStep

\* Every handler is handled.
LEMMA HandlingIsHandled ==
  ASSUME IInv, Handling
  PROVE  /\ Handled
         /\ \/ run'.settled /\ run'.result = NoResult
            \/ run'.result = run.result /\ (run.reading => run'.reading)
         /\ \/ body' = body
            \/ /\ Indexed /\ run'.reading /\ body.starts = 0
               /\ body' = [body EXCEPT !.pc = "running", !.starts = @ + 1]
            \/ \E q : body' = [body EXCEPT !.answered = @ \cup {q}]
<1>1. CASE SettleBody
  BY <1>1, SettleBodyHandles DEF SettleBody
<1>2. CASE ClaimWorkflow
  BY <1>2, ClaimWorkflowHandles DEF ClaimWorkflow
<1>3. CASE ClaimCommand
  BY <1>3, ClaimCommandHandles
<1>4. CASE DeliverAnswer
  BY <1>4, DeliverAnswerHandles DEF DeliverAnswer
<1> QED
  BY <1>1, <1>2, <1>3, <1>4 DEF Handling

-----------------------------------------------------------------------------
(* Every step preserves the invariant, part by part.                       *)

\* Every step preserves CommandsInv.
LEMMA CommandsPreserved == IInv /\ [Next]_vars => CommandsInv'
<1> SUFFICES ASSUME IInv, [Next]_vars PROVE CommandsInv'
  OBVIOUS
<1> USE DEF IInv
<1> DEFINE Fine(c) == /\ c.kind = "ready" => Indexed'
                      /\ c.kind = "reject-dispatch" => parent'.pc = "rejected"
                      /\ c.kind = "complete" => ~task.workflow
<1>1. /\ commands \in Seq([kind : CommandKinds, n : Nat]) /\ task \in Tasks
      /\ task.workflow \in BOOLEAN
      /\ parent \in [pc : {"step", "indexed", "acked", "rejected"}, settled : BOOLEAN, sent : Nat]
  BY TaskConstants DEF TypeOK
<1>2. /\ task' = task /\ (parent.settled => parent'.settled)
      /\ parent'.pc # parent.pc => parent.pc \in {"step", "indexed"}
      /\ parent.pc = "indexed" => parent'.pc \in {"indexed", "acked"}
  <2>1. CASE Deciding
    BY <1>1, <2>1 DEF Deciding, StepCommits, StepFails, acknowledgeDelegatedTasksStep, parentOthers
  <2>2. CASE ToolReports \/ ToolCompletes
    BY <1>1, <2>2 DEF ToolReports, ToolCompletes, parentOthers
  <2>3. CASE UNCHANGED <<task, parent>>
    BY <2>3
  <2> QED
    BY <2>1, <2>2, <2>3, StepGroups, GroupFrames
       DEF Finish, ClaimBody, others, ParentReceives, UserAnswers, CancelWakes, cancelOthers, vars
<1>3. \A c \in Range(commands) : Fine(c)
  BY <1>2 DEF CommandsInv, Indexed
<1>4. \/ commands' = commands
      \/ commands # <<>> /\ commands' = Tail(commands)
      \/ \E c \in [kind : CommandKinds, n : Nat] : Fine(c) /\ commands' = Append(commands, c)
  <2>1. CASE Handling
    BY <2>1 DEF Handling, SettleBody, ClaimWorkflow, ClaimCommand, DeliverAnswer, ReaderInv
  <2>2. CASE ToolReports
    <3>1. PICK kind \in {"update", "message"} :
            commands' = Append(commands, [kind |-> kind, n |-> parent.sent + 1])
      BY <2>2 DEF ToolReports, sendTaskCommand
    <3>2. parent.sent + 1 \in Nat
      BY <1>1
    <3>3. [kind |-> kind, n |-> parent.sent + 1] \in [kind : CommandKinds, n : Nat]
      BY <3>2 DEF CommandKinds
    <3> QED
      BY <3>1, <3>3
  <2>3. CASE ToolCompletes
    BY <1>1, <2>3 DEF ToolCompletes, sendTaskCommand, CommandKinds, CommandsInv
  <2>4. CASE StepCommits
    BY <1>1, <2>4 DEF StepCommits, sendTaskCommand, CommandKinds
  <2>5. CASE StepFails
    BY <1>1, <2>5 DEF StepFails, sendTaskCommand, CommandKinds
  <2>6. CASE acknowledgeDelegatedTasksStep
    BY <1>1, <2>6 DEF acknowledgeDelegatedTasksStep, sendTaskCommand, CommandKinds, Indexed
  <2>7. CASE \E q \in proxied : UserAnswers(q)
    BY <1>1, <2>7 DEF UserAnswers, sendTaskCommand, CommandKinds, TypeOK
  <2>8. CASE Cancelling
    BY <1>1, <2>8 DEF Cancelling, CancelSends, CancelSees, CancelTimesOut, CancelStops, CancelCrashes,
                      sendTaskCommand, CommandKinds
  <2>9. CASE UNCHANGED commands
    BY <2>9
  <2> QED
    BY <2>1, <2>2, <2>3, <2>4, <2>5, <2>6, <2>7, <2>8, <2>9, StepGroups, GroupFrames
       DEF Deciding, Finish, ClaimBody, ParentReceives, CancelWakes, vars
<1> HIDE DEF Fine
<1>5. \A c \in Range(commands') : Fine(c)
  <2>1. CASE commands' = commands
    BY <1>3, <2>1
  <2>2. CASE commands # <<>> /\ commands' = Tail(commands)
    <3>1. Range(commands) = {Head(commands)} \cup Range(commands')
      BY <1>1, <2>2, RangeOfTail
    <3> QED
      BY <1>3, <3>1
  <2>3. ASSUME NEW c \in [kind : CommandKinds, n : Nat], Fine(c), commands' = Append(commands, c)
        PROVE  \A x \in Range(commands') : Fine(x)
    <3>1. Range(commands') = Range(commands) \cup {c}
      <4> DEFINE C == [kind : CommandKinds, n : Nat]
      <4>1. commands \in Seq(C) /\ c \in C
        BY <1>1
      <4> HIDE DEF C
      <4> QED
        BY <2>3, <4>1, RangeOfAppend
    <3> QED
      BY <1>3, <2>3, <3>1
  <2> QED
    BY <1>4, <2>1, <2>2, <2>3
<1> QED
  BY <1>2, <1>5 DEF CommandsInv, Fine

\* The parent decides once.
LEMMA ParentMoves ==
  ASSUME IInv, [Next]_vars
  PROVE  /\ task' = task /\ (Indexed => Indexed')
         /\ parent.pc = "rejected" => parent'.pc = "rejected"
         /\ parent.pc = "acked" => parent'.pc = "acked"
<1> USE DEF IInv
<1>1. parent \in [pc : {"step", "indexed", "acked", "rejected"}, settled : BOOLEAN, sent : Nat]
  BY DEF TypeOK
<1>2. CASE Deciding
  BY <1>1, <1>2 DEF Deciding, StepCommits, StepFails, acknowledgeDelegatedTasksStep, parentOthers, Indexed
<1>3. CASE ToolReports \/ ToolCompletes
  BY <1>1, <1>3 DEF ToolReports, ToolCompletes, parentOthers, Indexed
<1>4. CASE UNCHANGED <<task, parent>>
  BY <1>4 DEF Indexed
<1> QED
  BY <1>2, <1>3, <1>4, StepGroups, GroupFrames
     DEF Finish, ClaimBody, others, ParentReceives, UserAnswers, CancelWakes, cancelOthers, vars

\* Every step preserves RunInv.
LEMMA RunPreserved == IInv /\ [Next]_vars => RunInv'
<1> SUFFICES ASSUME IInv, [Next]_vars PROVE RunInv'
  OBVIOUS
<1> USE DEF IInv
<1>1. run \in RunState
  BY DEF TypeOK
<1>2. CASE Handling
  <2>1. /\ Handled /\ run'.result \in {NoResult, run.result} /\ UNCHANGED <<task, parent>>
    BY <1>2, HandlingIsHandled, GroupFrames
  <2>2. Indexed' = Indexed
    BY <2>1 DEF Indexed
  <2> QED
    BY <2>1, <2>2 DEF Handled, RunInv
<1>3. CASE Finish \/ \E f \in BOOLEAN : CancelStops(f)
  <2>1. /\ UNCHANGED <<task, parent>>
        /\ run' = run \/ \E p : run' = [run EXCEPT !.phase = p]
    BY <1>3 DEF Finish, CancelStops, cancelOthers, others
  <2>2. /\ run'.acked = run.acked /\ run'.rejected = run.rejected /\ run'.settled = run.settled
        /\ run'.status = run.status /\ run'.result = run.result
    BY <1>1, <2>1 DEF RunState
  <2> QED
    BY <2>1, <2>2, ParentMoves DEF RunInv
<1>4. CASE ClaimBody
  <2>1. /\ UNCHANGED <<task, parent>> /\ body.result.kind # "none"
        /\ run' = [run EXCEPT !.reading = FALSE, !.result = body.result]
    BY <1>4 DEF ClaimBody, others, ReaderInv, BodyInv
  <2> QED
    BY <1>1, <2>1 DEF RunInv, Indexed, RunState
<1>5. CASE UNCHANGED run
  BY <1>5, ParentMoves DEF RunInv
<1> QED
  BY <1>2, <1>3, <1>4, <1>5, StepGroups, GroupFrames
     DEF ToolReports, ToolCompletes, parentOthers, ParentReceives, UserAnswers, Cancelling,
         CancelSends, CancelSees, CancelTimesOut, CancelCrashes, CancelWakes, vars

\* Every step preserves BodyInv.
LEMMA BodyPreserved == IInv /\ [Next]_vars => BodyInv'
<1> SUFFICES ASSUME IInv, [Next]_vars PROVE BodyInv'
  OBVIOUS
<1> USE DEF IInv
<1>1. run \in RunState /\ body \in BodyState
  BY DEF TypeOK
<1>2. Indexed => Indexed'
  BY ParentMoves
<1>3. CASE Handling
  <2>1. /\ Handled
        /\ \/ run'.settled
           \/ run'.result = run.result /\ (run.reading => run'.reading)
    BY <1>3, HandlingIsHandled
  <2>2. run.reading \/ run.result # NoResult \/ run.settled
          => run'.reading \/ run'.result # NoResult \/ run'.settled
    BY <2>1 DEF Handled
  <2>3. CASE \/ body' = body
             \/ \E q : body' = [body EXCEPT !.answered = @ \cup {q}]
    <3>1. /\ body'.starts = body.starts /\ body'.pc = body.pc /\ body'.result = body.result
      BY <1>1, <2>3 DEF BodyState
    <3> QED
      BY <1>2, <2>2, <3>1 DEF BodyInv
  <2>4. CASE /\ Indexed /\ run'.reading /\ body.starts = 0
             /\ body' = [body EXCEPT !.pc = "running", !.starts = @ + 1]
    <3>1. /\ body'.starts = 1 /\ body'.pc = "running" /\ body'.result = body.result
      BY <1>1, <2>4 DEF BodyState
    <3> QED
      BY <1>2, <2>4, <3>1 DEF BodyInv
  <2> QED
    BY <1>3, <2>3, <2>4, HandlingIsHandled
<1>4. CASE ClaimBody
  <2>1. /\ body' = body /\ body.result.kind # "none"
        /\ run' = [run EXCEPT !.reading = FALSE, !.result = body.result]
    BY <1>4 DEF ClaimBody, ReaderInv, BodyInv
  <2>2. run'.result # NoResult
    BY <1>1, <2>1 DEF RunState, NoResult
  <2> QED
    BY <1>2, <2>1, <2>2 DEF BodyInv
<1>5. CASE BodyStep
  <2>1. /\ run' = run /\ body'.starts = body.starts
        /\ \/ body'.pc = body.pc /\ body'.result = body.result
           \/ body.pc = "running" /\ body'.pc = "returned" /\ body'.result.kind # "none"
    BY <1>5, BodySteps, GroupFrames
  <2> QED
    BY <1>2, <2>1 DEF BodyInv
<1>6. CASE Popping
  <2>1. /\ run' = run /\ (body' = body \/ body' = [body EXCEPT !.aborted = TRUE])
    BY <1>6, GroupFrames DEF Popping, PublishView, AbortBody, AppendProgress, WakeParent, AnswerUnreachable
  <2>2. body'.starts = body.starts /\ body'.pc = body.pc /\ body'.result = body.result
    BY <1>1, <2>1 DEF BodyState
  <2> QED
    BY <1>2, <2>1, <2>2 DEF BodyInv
<1>7. CASE Finish \/ Cancelling
  <2>1. body' = body /\ (run' = run \/ \E p : run' = [run EXCEPT !.phase = p])
    BY <1>7, GroupFrames DEF Finish, Cancelling, CancelSends, CancelSees, CancelTimesOut, CancelCrashes,
                             CancelStops
  <2>2. run'.reading = run.reading /\ run'.result = run.result /\ run'.settled = run.settled
    BY <1>1, <2>1 DEF RunState
  <2> QED
    BY <1>2, <2>1, <2>2 DEF BodyInv
<1>8. CASE UNCHANGED <<run, body>>
  BY <1>2, <1>8 DEF BodyInv
<1> QED
  BY <1>3, <1>4, <1>5, <1>6, <1>7, <1>8, StepGroups, GroupFrames
     DEF ToolReports, ToolCompletes, parentOthers, ParentReceives, UserAnswers, CancelWakes, cancelOthers, vars

\* Every step preserves ReaderInv.
LEMMA ReaderPreserved == IInv /\ [Next]_vars => ReaderInv'
<1> SUFFICES ASSUME IInv, [Next]_vars PROVE ReaderInv'
  OBVIOUS
<1> USE DEF IInv
<1> DEFINE C == [kind : CommandKinds, n : Nat]
<1>1. /\ reader \in [Channels -> {"idle", "pending", "landed"}]
      /\ workflow \in Seq(Message) /\ commands \in Seq(C)
  BY DEF TypeOK
<1>2. \A x : Append(workflow, x) # <<>> /\ Append(commands, x) # <<>>
  BY <1>1
<1> HIDE DEF C
<1>3. CASE SettleBody
  BY <1>3 DEF SettleBody, ReaderInv
<1>4. CASE ClaimWorkflow
  BY <1>1, <1>4 DEF ClaimWorkflow, ReaderInv, Channels
<1>5. CASE ClaimCommand
  <2>1. /\ reader' = [reader EXCEPT !["commands"] = "idle"] /\ workflow' = workflow
        /\ body' = body \/ body.starts = 0
    BY <1>5, ClaimCommandHandles DEF ClaimCommand
  <2>2. reader["body"] = "landed" => body' = body
    BY <2>1 DEF ReaderInv, BodyInv
  <2> QED
    BY <1>1, <2>1, <2>2 DEF ReaderInv, Channels
<1>6. CASE DeliverAnswer
  <2>1. UNCHANGED <<reader, workflow, commands>> /\ body'.pc = body.pc
    BY <1>6 DEF DeliverAnswer, TypeOK, BodyState
  <2> QED
    BY <2>1 DEF ReaderInv
<1>7. CASE ClaimBody
  BY <1>1, <1>7 DEF ClaimBody, ReaderInv, Channels
<1>8. CASE Arm
  <2>1. \A c \in Channels : reader'[c] = "landed" => reader[c] = "landed"
    BY <1>1, <1>8 DEF Arm
  <2> QED
    BY <1>8, <2>1 DEF Arm, ReaderInv, Channels
<1>9. ASSUME NEW c \in Channels, Land(c) PROVE ReaderInv'
  BY <1>1, <1>9 DEF Land, ReaderInv, Channels
<1>10. CASE Popping
  <2>1. UNCHANGED <<reader, workflow, commands>> /\ body'.pc = body.pc
    BY <1>10, GroupFrames DEF Popping, PublishView, AbortBody, AppendProgress, WakeParent,
                              AnswerUnreachable, TypeOK, BodyState
  <2> QED
    BY <2>1 DEF ReaderInv
<1>11. CASE BodyStep
  <2>1. /\ UNCHANGED <<reader, commands>> /\ (body.pc = "returned" => body'.pc = "returned")
        /\ workflow' = workflow \/ \E x : workflow' = Append(workflow, x)
    BY <1>11, BodySteps, GroupFrames
  <2> QED
    BY <1>2, <2>1 DEF ReaderInv
<1>12. CASE ToolReports \/ ToolCompletes \/ Deciding \/ (\E q \in proxied : UserAnswers(q)) \/ Cancelling
  <2>1. /\ UNCHANGED <<reader, workflow, body>>
        /\ commands' = commands \/ \E x : commands' = Append(commands, x)
    BY <1>12, GroupFrames DEF ToolReports, ToolCompletes, Deciding, StepCommits, StepFails,
         acknowledgeDelegatedTasksStep, UserAnswers, Cancelling, CancelSends, CancelSees, CancelTimesOut,
         CancelCrashes, CancelStops, sendTaskCommand, parentOthers
  <2> QED
    BY <1>2, <2>1 DEF ReaderInv
<1>13. CASE UNCHANGED <<reader, workflow, commands, body>>
  BY <1>13 DEF ReaderInv
<1> QED
  BY <1>3, <1>4, <1>5, <1>6, <1>7, <1>8, <1>9, <1>10, <1>11, <1>12, <1>13, StepGroups
     DEF Handling, Reading, Finish, ParentReceives, CancelWakes, cancelOthers, vars

\* Every step preserves TodoInv.
LEMMA TodoPreserved == IInv /\ [Next]_vars => TodoInv'
<1> SUFFICES ASSUME IInv, [Next]_vars PROVE TodoInv'
  OBVIOUS
<1> USE DEF IInv
<1>1. run \in RunState /\ todo \in Seq(DurableStep)
  BY DEF TypeOK
<1>2. CASE Handling
  BY <1>2, HandlingIsHandled, GroupFrames DEF Handled, TodoInv
<1>3. CASE Popping
  <2>1. /\ run' = run /\ todo # <<>>
        /\ \/ PublishView
           \/ Current.op # "view" /\ view' = view /\ todo' \in {todo, Tail(todo), <<>>}
              /\ (todo' = <<>> => todo' = Tail(todo) \/ AnswerUnreachable)
    BY <1>3, GroupFrames DEF Popping, AbortBody, AppendProgress, WakeParent, AnswerUnreachable, Performs,
                             DoneOrAgain, others
  <2>2. /\ Range(todo) = {Current} \cup Range(Tail(todo)) /\ InOrder(Tail(todo))
        /\ \A x \in Range(Tail(todo)) : Before(Current, x)
    BY <1>1, <2>1, RangeOfTail, TailInOrder DEF Current, TodoInv
  <2>3. CASE todo' = Tail(todo) /\ view' = view /\ Current.op # "view"
    <3>1. HasView(todo') <=> HasView(todo)
      BY <2>2, <2>3 DEF HasView
    <3> QED
      BY <2>1, <2>2, <2>3, <3>1 DEF TodoInv
  <2>4. CASE PublishView
    <3>1. /\ todo' = Tail(todo) /\ view' = Current.view /\ Current.op = "view"
      BY <2>4 DEF PublishView, Performs
    <3>2. ~HasView(todo')
      BY <2>2, <3>1 DEF HasView, Before
    <3>3. view'.status = run.status
      BY <2>2, <3>1 DEF TodoInv, StepOK
    <3> QED
      BY <2>1, <2>2, <3>1, <3>2, <3>3 DEF TodoInv
  <2>5. CASE UNCHANGED <<todo, view>>
    BY <2>1, <2>5 DEF TodoInv
  <2>6. CASE AnswerUnreachable
    <3>1. /\ todo' = <<>> /\ view' = view /\ Current.op = "answer"
      BY <2>6 DEF AnswerUnreachable, Performs
    <3>2. ~HasView(todo) /\ ~HasView(todo') /\ Range(todo') = {} /\ InOrder(todo')
      BY <2>2, <3>1, RangeOfFew, FewInOrder DEF HasView, Before
    <3> QED
      BY <2>1, <3>1, <3>2 DEF TodoInv
  <2> QED
    BY <2>1, <2>3, <2>4, <2>5, <2>6
<1>4. CASE Finish \/ ClaimBody \/ \E f \in BOOLEAN : CancelStops(f)
  <2>1. /\ UNCHANGED <<todo, view>>
        /\ \/ run' = run \/ (\E p : run' = [run EXCEPT !.phase = p])
           \/ run' = [run EXCEPT !.reading = FALSE, !.result = body.result]
    BY <1>4 DEF Finish, ClaimBody, CancelStops, cancelOthers
  <2>2. /\ run'.acked = run.acked /\ run'.rejected = run.rejected /\ run'.settled = run.settled
        /\ run'.status = run.status
    BY <1>1, <2>1 DEF RunState
  <2> QED
    BY <2>1, <2>2 DEF TodoInv, StepOK, isFinished
<1>5. CASE UNCHANGED <<run, todo, view>>
  BY <1>5 DEF TodoInv
<1> QED
  BY <1>2, <1>3, <1>4, <1>5, StepGroups, GroupFrames
     DEF ToolReports, ToolCompletes, parentOthers, ParentReceives, UserAnswers, Cancelling,
         CancelSends, CancelSees, CancelTimesOut, CancelCrashes, CancelWakes, cancelOthers, vars

\* The ends heard, by the elements of told.
LEMMA HeardEnds == HeardEnd = {d.kind : d \in {e \in Range(told) : IsEnd(e)}}
BY DEF HeardEnd, Range

\* The parent takes a delivery: an end is heard once, as published, and no
\* delivery that follows an end is new.
LEMMA ReceivingEnds ==
  ASSUME IInv, ParentReceives
  PROVE  /\ Delivered' \subseteq Delivered /\ Ends' \subseteq Ends /\ (Ends # {} => Ends' # {})
         /\ \A i, j \in DOMAIN inbox' : i < j /\ IsEnd(inbox'[i]) => IsEnd(inbox'[j])
         /\ HeardEnd' # {} => \A d \in Range(inbox') : IsEnd(d)
         /\ EndIsLast'
         /\ \/ HeardEnd' = HeardEnd
            \/ HeardEnd = {} /\ HeardEnd' = {view.status} /\ Ends # {}
<1> USE DEF IInv
<1> DEFINE d == Head(inbox)
           fresh == taskDeliveryId(d) \notin Seen
<1>1. /\ inbox # <<>> /\ inbox' = Tail(inbox) /\ told' = IF fresh THEN Append(told, d) ELSE told
  BY DEF ParentReceives
<1>2. /\ inbox \in Seq(Delivery) /\ told \in Seq(Delivery) /\ d \in Delivery
      /\ inbox' \in Seq(Delivery)
  <2>1. inbox \in Seq(Delivery) /\ told \in Seq(Delivery)
    BY DEF TypeOK
  <2> QED
    BY <1>1, <2>1, Shifted
<1>3. Range(inbox) = {d} \cup Range(inbox')
  BY <1>1, <1>2, RangeOfTail
<1>4. fresh => Range(told') = Range(told) \cup {d}
  BY <1>1, <1>2, RangeOfAppend
<1>5. ~fresh => told' = told /\ \E e \in Range(told) : e.kind = d.kind
  BY <1>1 DEF Seen, taskDeliveryId, Range
<1>6. IsEnd(d) => \A x \in Range(inbox') : IsEnd(x)
  <2>1. \A i \in 1..(Len(inbox) - 1) : inbox'[i] = inbox[i + 1]
    BY <1>1, <1>2, Shifted
  <2>2. DOMAIN inbox = 1..Len(inbox) /\ DOMAIN inbox' = 1..(Len(inbox) - 1) /\ d = inbox[1] /\ Len(inbox) \in Nat \ {0}
    BY <1>1, <1>2, Shifted
  <2>3. ASSUME IsEnd(d), NEW i \in 1..(Len(inbox) - 1) PROVE IsEnd(inbox'[i])
    <3>1. 1 \in DOMAIN inbox /\ i + 1 \in DOMAIN inbox /\ 1 < i + 1
      BY <2>2
    <3> QED
      BY <2>1, <2>2, <2>3, <3>1 DEF EndInv
  <2> QED
    BY <2>2, <2>3 DEF Range
<1>7. \A i, j \in DOMAIN inbox' : i < j /\ IsEnd(inbox'[i]) => IsEnd(inbox'[j])
  <2>1. /\ \A i \in 1..(Len(inbox) - 1) : inbox'[i] = inbox[i + 1]
        /\ DOMAIN inbox = 1..Len(inbox) /\ DOMAIN inbox' = 1..(Len(inbox) - 1) /\ Len(inbox) \in Nat \ {0}
    BY <1>1, <1>2, Shifted
  <2> SUFFICES ASSUME NEW i \in DOMAIN inbox', NEW j \in DOMAIN inbox', i < j, IsEnd(inbox'[i])
               PROVE  IsEnd(inbox'[j])
    OBVIOUS
  <2>2. i + 1 \in DOMAIN inbox /\ j + 1 \in DOMAIN inbox /\ i + 1 < j + 1
    BY <2>1
  <2>3. inbox'[i] = inbox[i + 1] /\ inbox'[j] = inbox[j + 1]
    BY <2>1
  <2> QED
    BY <2>2, <2>3 DEF EndInv
<1> HIDE DEF d
<1>8. Delivered' \subseteq Delivered /\ Ends' \subseteq Ends
  BY <1>3, <1>4, <1>5 DEF Delivered, Ends
<1>9. Ends # {} => Ends' # {}
  <2> SUFFICES ASSUME NEW x \in Ends PROVE \E y : y \in Ends'
    BY DEF Ends
  <2>1. IsEnd(x) /\ (x \in Range(inbox) \/ x \in Range(told))
    BY DEF Ends, Delivered
  <2>2. CASE x \in Range(told)
    BY <1>4, <1>5, <2>1, <2>2 DEF Ends, Delivered
  <2>3. CASE x \in Range(inbox')
    BY <2>1, <2>3 DEF Ends, Delivered
  <2>4. CASE x = d /\ fresh
    BY <1>4, <2>1, <2>4 DEF Ends, Delivered
  <2>5. CASE x = d /\ ~fresh
    BY <1>5, <2>1, <2>5 DEF Ends, Delivered, IsEnd
  <2> QED
    BY <1>3, <2>1, <2>2, <2>3, <2>4, <2>5
<1>10. \A e \in Range(told) : IsEnd(e) => ~fresh
  <2> SUFFICES ASSUME NEW e \in Range(told), IsEnd(e) PROVE ~fresh
    OBVIOUS
  <2>1. HeardEnd # {}
    BY HeardEnds
  <2>2. d \in Ends /\ e \in Ends
    BY <1>3, <2>1 DEF EndInv, Ends, Delivered
  <2>3. e = d
    BY <2>2 DEF EndInv
  <2> QED
    BY <2>3 DEF Seen, Range
<1>11. \/ HeardEnd' = HeardEnd /\ (HeardEnd # {} \/ ~fresh \/ ~IsEnd(d))
       \/ HeardEnd = {} /\ HeardEnd' = {view.status} /\ Ends # {} /\ fresh /\ IsEnd(d)
  <2>1. CASE ~fresh
    <3>1. HeardEnd' = HeardEnd
      BY <1>5, <2>1 DEF HeardEnd
    <3> QED
      BY <2>1, <3>1
  <2>2. CASE fresh
    <3>1. HeardEnd = {} /\ \A e \in Range(told) : ~IsEnd(e)
      BY <1>10, <2>2, HeardEnds
    <3>2. HeardEnd' = {x.kind : x \in {e \in Range(told') : IsEnd(e)}}
      BY DEF HeardEnd, Range
    <3>3. CASE IsEnd(d)
      <4>1. d \in Ends
        BY <1>3, <3>3 DEF Ends, Delivered
      <4>2. d.kind = view.status
        BY <4>1 DEF EndInv, wakeTaskParentStep
      <4> QED
        BY <1>4, <2>2, <3>1, <3>2, <3>3, <4>1, <4>2
    <3>4. CASE ~IsEnd(d)
      BY <1>4, <2>2, <3>1, <3>2, <3>4
    <3> QED
      BY <3>3, <3>4
  <2> QED
    BY <2>1, <2>2
<1>12. HeardEnd' # {} => \A x \in Range(inbox') : IsEnd(x)
  BY <1>3, <1>6, <1>11 DEF EndInv
<1>13. EndIsLast'
  <2>1. CASE ~fresh
    BY <1>5, <2>1 DEF EndIsLast
  <2>2. CASE fresh
    <3>1. told' = Append(told, d)
      BY <1>1, <2>2 DEF d
    <3>2. \A i \in DOMAIN told : ~IsEnd(told[i])
      BY <1>10, <2>2 DEF Range
    <3> QED
      BY <1>2, <3>1, <3>2, Appended DEF EndIsLast
  <2> QED
    BY <2>1, <2>2
<1> QED
  BY <1>7, <1>8, <1>9, <1>11, <1>12, <1>13

\* One more delivery in the inbox.
LEMMA Posting ==
  ASSUME IInv, NEW d \in Delivery, inbox' = Append(inbox, d), told' = told,
         Ends # {} => IsEnd(d)
  PROVE  /\ Delivered' = Delivered \cup {d} /\ Ends' = Ends \cup {x \in {d} : IsEnd(x)}
         /\ \A i, j \in DOMAIN inbox' : i < j /\ IsEnd(inbox'[i]) => IsEnd(inbox'[j])
         /\ HeardEnd' # {} => \A x \in Range(inbox') : IsEnd(x)
<1> USE DEF IInv
<1>1. inbox \in Seq(Delivery)
  BY DEF TypeOK
<1>2. Range(inbox') = Range(inbox) \cup {d}
  BY <1>1, RangeOfAppend
<1>3. Delivered' = Delivered \cup {d} /\ Ends' = Ends \cup {x \in {d} : IsEnd(x)}
  BY <1>2 DEF Delivered, Ends
<1>4. \A i \in DOMAIN inbox : IsEnd(inbox[i]) => IsEnd(d)
  BY DEF Ends, Delivered, Range
<1>5. \A i, j \in DOMAIN inbox' : i < j /\ IsEnd(inbox'[i]) => IsEnd(inbox'[j])
  <2> SUFFICES ASSUME NEW i \in DOMAIN inbox', NEW j \in DOMAIN inbox', i < j, IsEnd(inbox'[i])
               PROVE  IsEnd(inbox'[j])
    OBVIOUS
  <2>1. /\ DOMAIN inbox = 1..Len(inbox) /\ DOMAIN inbox' = 1..(Len(inbox) + 1) /\ Len(inbox) \in Nat
        /\ (\A k \in 1..Len(inbox) : inbox'[k] = inbox[k]) /\ inbox'[Len(inbox) + 1] = d
    BY <1>1, Appended
  <2>2. i \in DOMAIN inbox /\ inbox'[i] = inbox[i]
    BY <2>1
  <2>3. CASE j \in DOMAIN inbox
    BY <2>1, <2>2, <2>3 DEF EndInv
  <2>4. CASE j = Len(inbox) + 1
    BY <1>4, <2>1, <2>2, <2>4
  <2> QED
    BY <2>1, <2>3, <2>4
<1>6. HeardEnd' = HeardEnd /\ (HeardEnd # {} => Ends # {})
  BY HeardEnds DEF HeardEnd, Ends, Delivered
<1>7. HeardEnd' # {} => \A x \in Range(inbox') : IsEnd(x)
  BY <1>2, <1>6 DEF EndInv
<1> QED
  BY <1>3, <1>5, <1>7

\* The step in hand, and the ones after it.
LEMMA InHand ==
  ASSUME IInv, Popping
  PROVE  /\ Current \in DurableStep /\ Range(todo) = {Current} \cup Range(Tail(todo))
         /\ \A x \in Range(Tail(todo)) : Before(Current, x)
         /\ ~EndWake(Current) => Ends = {}
         /\ EndWake(Current) => /\ Current.d = wakeTaskParentStep(view.status)
                                /\ isFinished(run) /\ isTerminalTaskStatus(view.status)
                                /\ \A x \in Range(todo) : EndWake(x)
<1> USE DEF IInv
<1>1. Running /\ todo # <<>> /\ todo \in Seq(DurableStep)
  BY GroupFrames DEF TypeOK
<1>2. /\ Current \in DurableStep /\ Range(todo) = {Current} \cup Range(Tail(todo))
      /\ \A x \in Range(Tail(todo)) : Before(Current, x)
  BY <1>1, Shifted, RangeOfTail, TailInOrder DEF Current, TodoInv
<1>3. ~EndWake(Current) => Ends = {}
  BY <1>1, <1>2 DEF EndInv
<1>4. ASSUME EndWake(Current)
      PROVE  /\ Current.d = wakeTaskParentStep(view.status)
             /\ isFinished(run) /\ isTerminalTaskStatus(view.status)
             /\ \A x \in Range(todo) : EndWake(x)
  <2>1. \A x \in Range(todo) : EndWake(x)
    BY <1>2, <1>4 DEF Before
  <2>2. ~HasView(todo)
    BY <2>1 DEF HasView, EndWake
  <2>3. view.status = run.status
    BY <2>2 DEF TodoInv
  <2>4. Current.d = wakeTaskParentStep(run.status) /\ isFinished(run)
    BY <1>2, <1>4 DEF TodoInv, StepOK
  <2> QED
    BY <2>1, <2>3, <2>4 DEF isFinished
<1> QED
  BY <1>2, <1>3, <1>4

\* A wake step is of a task the parent has indexed.
LEMMA WakingFacts ==
  ASSUME IInv, WakeParent
  PROVE  /\ Running /\ Current.op = "wake" /\ Current.d \in Delivery
         /\ inbox' = Append(inbox, Current.d) /\ UNCHANGED <<run, view, told, parent, cancel>>
         /\ todo' \in {todo, Tail(todo)} /\ Indexed /\ (Ends # {} => IsEnd(Current.d))
<1> USE DEF IInv
<1>1. /\ Running /\ Current.op = "wake" /\ inbox' = Append(inbox, Current.d)
      /\ UNCHANGED <<run, view, told, parent, cancel>> /\ todo' \in {todo, Tail(todo)}
  BY DEF WakeParent, DoneOrAgain, Performs
<1>2. Popping
  BY DEF Popping
<1>3. /\ Current \in DurableStep /\ Current \in Range(todo) /\ (~EndWake(Current) => Ends = {})
  BY <1>2, InHand
<1>4. Indexed
  BY <1>1, <1>3 DEF TodoInv, StepOK, RunInv
<1> QED
  BY <1>1, <1>3, <1>4 DEF DurableStep, EndWake

\* Every step preserves EndInv.
LEMMA EndPreserved == IInv /\ [Next]_vars => EndInv'
<1> SUFFICES ASSUME IInv, [Next]_vars PROVE EndInv'
  OBVIOUS
<1> USE DEF IInv
<1>1. run \in RunState
  BY DEF TypeOK
<1>2. CASE Handling
  <2>1. Handled /\ Running /\ UNCHANGED <<view, inbox, told>>
    BY <1>2, HandlingIsHandled, GroupFrames
  <2>2. Ends' = Ends /\ HeardEnd' = HeardEnd /\ Running' /\ run'.phase = "running"
    BY <2>1 DEF Ends, Delivered, HeardEnd, Running, Handled
  <2> QED
    BY <2>1, <2>2 DEF EndInv, Handled
<1>3. CASE WakeParent
  <2>1. /\ Running /\ Current.op = "wake" /\ Current.d \in Delivery
        /\ inbox' = Append(inbox, Current.d) /\ UNCHANGED <<run, view, told>>
        /\ todo' \in {todo, Tail(todo)} /\ (Ends # {} => IsEnd(Current.d))
    BY <1>3, WakingFacts
  <2>2. /\ Range(todo) = {Current} \cup Range(Tail(todo))
        /\ ~EndWake(Current) => Ends = {}
        /\ EndWake(Current) => /\ Current.d = wakeTaskParentStep(view.status)
                               /\ isFinished(run) /\ isTerminalTaskStatus(view.status)
                               /\ \A x \in Range(todo) : EndWake(x)
    BY <1>3, InHand DEF Popping
  <2>3. /\ Ends' = Ends \cup {x \in {Current.d} : IsEnd(x)}
        /\ \A i, j \in DOMAIN inbox' : i < j /\ IsEnd(inbox'[i]) => IsEnd(inbox'[j])
        /\ HeardEnd' # {} => \A x \in Range(inbox') : IsEnd(x)
    BY <2>1, Posting
  <2>4. CASE EndWake(Current)
    <3>1. Current.d \in Ends' /\ \A x \in Ends' : x = wakeTaskParentStep(view.status)
      BY <2>2, <2>3, <2>4 DEF EndWake, EndInv
    <3>2. \A x \in Range(todo') : EndWake(x)
      BY <2>1, <2>2, <2>4
    <3> QED
      BY <2>1, <2>2, <2>3, <2>4, <3>1, <3>2 DEF EndInv, Running
  <2>5. CASE ~EndWake(Current)
    <3>1. Ends = {} /\ Ends' = {}
      BY <2>1, <2>2, <2>3, <2>5 DEF EndWake
    <3>2. HasEnd(todo) => HasEnd(todo')
      BY <2>1, <2>2, <2>5 DEF HasEnd
    <3> QED
      BY <2>1, <2>3, <3>1, <3>2 DEF EndInv, Running
  <2> QED
    BY <2>4, <2>5
<1>4. CASE PublishView \/ AbortBody \/ AppendProgress \/ AnswerUnreachable
  <2>1. /\ Popping /\ Running /\ UNCHANGED <<run, inbox, told>> /\ Current.op # "wake"
        /\ todo' \in {todo, Tail(todo)} \/ (Current.op = "answer" /\ todo' = <<>>)
    BY <1>4 DEF Popping, PublishView, AbortBody, AppendProgress, AnswerUnreachable, DoneOrAgain, Performs,
                others
  <2>2. /\ Range(todo) = {Current} \cup Range(Tail(todo)) /\ ~EndWake(Current) /\ Ends = {}
        /\ \A x \in Range(Tail(todo)) : Before(Current, x)
    BY <2>1, InHand DEF EndWake
  <2>3. Ends' = {} /\ HeardEnd' = HeardEnd /\ (Running' <=> Running)
    BY <2>1, <2>2 DEF Ends, Delivered, HeardEnd, Running
  <2>4. HasEnd(todo) => HasEnd(todo')
    BY <2>1, <2>2 DEF HasEnd, Before
  <2> QED
    BY <2>1, <2>2, <2>3, <2>4 DEF EndInv
<1>5. CASE Finish
  <2>1. /\ Running /\ todo = <<>> /\ isFinished(run) /\ run' = [run EXCEPT !.phase = "finished"]
        /\ UNCHANGED <<todo, view, inbox, told>>
    BY <1>5 DEF Finish, AtLoopTop, others
  <2>2. Ends' = Ends /\ HeardEnd' = HeardEnd /\ ~Running' /\ run'.rejected = run.rejected
    BY <1>1, <2>1 DEF Ends, Delivered, HeardEnd, Running, RunState
  <2>3. ~HasEnd(todo)
    BY <2>1, RangeOfFew DEF HasEnd
  <2> QED
    BY <2>1, <2>2, <2>3 DEF EndInv
<1>6. CASE ClaimBody
  <2>1. /\ run' = [run EXCEPT !.reading = FALSE, !.result = body.result]
        /\ UNCHANGED <<todo, view, inbox, told>>
    BY <1>6 DEF ClaimBody, others
  <2>2. /\ Ends' = Ends /\ HeardEnd' = HeardEnd /\ run'.phase = run.phase
        /\ run'.rejected = run.rejected /\ (isFinished(run') <=> isFinished(run))
        /\ (Running' <=> Running)
    BY <1>1, <2>1 DEF Ends, Delivered, HeardEnd, Running, RunState, isFinished
  <2> QED
    BY <2>1, <2>2 DEF EndInv
<1>7. CASE ParentReceives
  <2>1. UNCHANGED <<run, todo, view>>
    BY <1>7 DEF ParentReceives
  <2>2. Running' <=> Running
    BY <2>1 DEF Running
  <2> QED
    BY <1>7, <2>1, <2>2, ReceivingEnds DEF EndInv
<1>8. CASE CancelWakes
  <2> DEFINE d == wakeTaskParentStep("cancelled")
  <2>1. /\ inbox' = Append(inbox, d) /\ UNCHANGED <<run, view, told>> /\ ~Running /\ view.status = "cancelled"
    BY <1>8 DEF CancelWakes, cancelOthers, CancelInv
  <2>2. d \in Delivery /\ IsEnd(d)
    BY DEF Delivery, wakeTaskParentStep, IsEnd, isTerminalTaskStatus, TerminalStatuses
  <2> HIDE DEF d
  <2>3. /\ Ends' = Ends \cup {d}
        /\ \A i, j \in DOMAIN inbox' : i < j /\ IsEnd(inbox'[i]) => IsEnd(inbox'[j])
        /\ HeardEnd' # {} => \A x \in Range(inbox') : IsEnd(x)
    BY <2>1, <2>2, Posting
  <2>4. ~Running' /\ isTerminalTaskStatus(view.status)
    BY <2>1 DEF Running, isTerminalTaskStatus, TerminalStatuses
  <2> QED
    BY <2>1, <2>3, <2>4 DEF EndInv, d
<1>9. CASE Cancelling
  <2>1. UNCHANGED <<todo, view, inbox, told>> /\ (run' = run \/ run' = [run EXCEPT !.phase = "killed"])
    BY <1>9, GroupFrames DEF Cancelling, CancelSends, CancelSees, CancelTimesOut, CancelCrashes, CancelStops
  <2>2. Ends' = Ends /\ HeardEnd' = HeardEnd
    BY <2>1 DEF Ends, Delivered, HeardEnd
  <2>3. run' = run \/ run'.phase = "killed"
    BY <1>1, <2>1 DEF RunState
  <2> QED
    BY <2>1, <2>2, <2>3 DEF EndInv, Running
<1>10. CASE UNCHANGED <<run, todo, view, inbox, told>>
  BY <1>10 DEF EndInv, Ends, Delivered, HeardEnd, Running
<1> QED
  BY <1>2, <1>3, <1>4, <1>5, <1>6, <1>7, <1>8, <1>9, <1>10, StepGroups, GroupFrames
     DEF Popping, ToolReports, ToolCompletes, parentOthers, UserAnswers, vars

\* What has been delivered, and what only grows.
LEMMA DeliveredMoves ==
  ASSUME IInv, [Next]_vars
  PROVE  /\ Ends # {} => Ends' # {}
         /\ Delivered' # {} => Indexed'
         /\ EndIsLast'
         /\ isTerminalTaskStatus(view.status) => view' = view
         /\ ~Running => run' = run
         /\ CancelWakes => Ends' # {}
<1> USE DEF IInv
<1>1. run \in RunState /\ (Indexed => Indexed') /\ (Delivered # {} => Indexed)
  BY ParentMoves DEF TypeOK, SilentUntilIndexed, Indexed
<1>2. CASE ParentReceives
  BY <1>1, <1>2, ReceivingEnds DEF ParentReceives, CancelWakes, cancelOthers
<1>3. CASE WakeParent
  <2>1. /\ inbox' = Append(inbox, Current.d) /\ Current.d \in Delivery /\ (Ends # {} => IsEnd(Current.d))
        /\ Indexed /\ Running /\ UNCHANGED <<run, view, told, parent, cancel>>
    BY <1>3, WakingFacts
  <2>2. Ends' = Ends \cup {x \in {Current.d} : IsEnd(x)}
    BY <2>1, Posting
  <2>3. ~CancelWakes
    BY <2>1 DEF CancelWakes, CancelInv
  <2> QED
    BY <1>1, <2>1, <2>2, <2>3 DEF EndIsLast
<1>4. CASE CancelWakes
  <2> DEFINE d == wakeTaskParentStep("cancelled")
  <2>1. /\ inbox' = Append(inbox, d) /\ UNCHANGED <<run, view, told>> /\ parent.pc = "acked"
    BY <1>4 DEF CancelWakes, cancelOthers, CancelInv
  <2>2. d \in Delivery /\ IsEnd(d)
    BY DEF Delivery, wakeTaskParentStep, IsEnd, isTerminalTaskStatus, TerminalStatuses
  <2> HIDE DEF d
  <2>3. Ends' = Ends \cup {x \in {d} : IsEnd(x)}
    BY <2>1, <2>2, Posting
  <2> QED
    BY <1>1, <2>1, <2>2, <2>3 DEF EndIsLast, Indexed
<1>5. CASE PublishView
  <2>1. /\ Running /\ UNCHANGED <<inbox, told, run>> /\ Current.op = "view" /\ Current \in Range(todo)
    BY <1>5, InHand DEF PublishView, Performs, others, Popping
  <2>2. ~isTerminalTaskStatus(view.status)
    BY <2>1 DEF TodoInv, HasView
  <2>3. ~CancelWakes
    BY <2>1 DEF CancelWakes, CancelInv
  <2> QED
    BY <1>1, <2>1, <2>2, <2>3 DEF Ends, Delivered, EndIsLast
<1>6. CASE UNCHANGED <<inbox, told, view>> /\ (Running \/ run' = run) /\ ~CancelWakes
  BY <1>1, <1>6 DEF Ends, Delivered, EndIsLast
<1>7. CASE Handling \/ Finish \/ ClaimBody \/ AbortBody \/ AppendProgress \/ AnswerUnreachable
  <2>1. UNCHANGED <<inbox, told, view>> /\ Running
    BY <1>7, GroupFrames DEF Finish, ClaimBody, AtLoopTop, Racing, AbortBody, AppendProgress,
                             AnswerUnreachable, Performs, others
  <2> QED
    BY <1>6, <2>1 DEF CancelWakes, CancelInv
<1>8. CASE Cancelling
  <2>1. UNCHANGED <<inbox, told, view>> /\ (Running \/ run' = run)
    BY <1>8, GroupFrames DEF Cancelling, CancelSends, CancelSees, CancelTimesOut, CancelCrashes, CancelStops
  <2> QED
    BY <1>4, <1>6, <2>1
<1>9. CASE UNCHANGED <<inbox, told, view, run>>
  BY <1>4, <1>6, <1>9
<1> QED
  BY <1>2, <1>3, <1>4, <1>5, <1>7, <1>8, <1>9, StepGroups, GroupFrames
     DEF Popping, ToolReports, ToolCompletes, parentOthers, UserAnswers, vars

\* Every step preserves SilentUntilIndexed.
LEMMA SilencePreserved == IInv /\ [Next]_vars => SilentUntilIndexed'
BY DeliveredMoves DEF SilentUntilIndexed, Indexed

\* Every step preserves EndIsLast.
LEMMA EndStaysLast == IInv /\ [Next]_vars => EndIsLast'
BY DeliveredMoves

\* Every step preserves CancelInv and CancelIsTold.
LEMMA CancelPreserved == IInv /\ [Next]_vars => CancelInv' /\ CancelIsTold'
<1> SUFFICES ASSUME IInv, [Next]_vars PROVE CancelInv' /\ CancelIsTold'
  OBVIOUS
<1> USE DEF IInv
<1>1. /\ run \in RunState /\ (parent.pc = "acked" => parent'.pc = "acked")
      /\ cancel \in [pc : {"idle", "sent", "stopping", "waking", "returned", "threw"},
                     calls : Nat, delivery : {"none", "delivered", "unreachable"}]
  BY ParentMoves DEF TypeOK
<1>2. /\ Ends # {} => Ends' # {}
      /\ isTerminalTaskStatus(view.status) => view' = view
      /\ ~Running => run' = run
      /\ CancelWakes => Ends' # {}
  BY DeliveredMoves
<1>3. view.status = "cancelled" => view' = view
  BY <1>2 DEF isTerminalTaskStatus, TerminalStatuses
<1>4. ~Running => ~Running'
  BY <1>2 DEF Running
<1>5. ASSUME cancel' = cancel, run'.phase = "killed" => run.phase = "killed"
      PROVE  CancelInv' /\ CancelIsTold'
  <2>1. cancel.pc = "returned" => view' = view
    BY <1>2 DEF CancelInv
  <2> QED
    BY <1>1, <1>2, <1>3, <1>4, <1>5, <2>1 DEF CancelInv, CancelIsTold
<1>6. CASE CancelSends
  BY <1>1, <1>2, <1>6 DEF CancelSends, cancelOthers, CancelInv, CancelIsTold, Running
<1>7. CASE CancelSees
  BY <1>1, <1>2, <1>7 DEF CancelSees, cancelOthers, CancelInv, CancelIsTold, Running
<1>8. CASE CancelTimesOut
  BY <1>1, <1>2, <1>8
     DEF CancelTimesOut, cancelOthers, CancelInv, CancelIsTold, Running, isTerminalTaskStatus, TerminalStatuses
<1>9. CASE CancelCrashes
  BY <1>1, <1>2, <1>9 DEF CancelCrashes, cancelOthers, CancelInv, CancelIsTold, Running
<1>10. CASE CancelWakes
  <2>1. /\ cancel' = [cancel EXCEPT !.pc = "returned"] /\ cancel.pc = "waking" /\ UNCHANGED <<run, view>>
    BY <1>10 DEF CancelWakes, cancelOthers
  <2>2. cancel'.pc = "returned" /\ Ends' # {} /\ parent'.pc = "acked" /\ view.status = "cancelled"
    BY <1>1, <1>2, <1>10, <2>1 DEF CancelInv
  <2> QED
    BY <2>1, <2>2 DEF CancelInv, CancelIsTold, isTerminalTaskStatus, TerminalStatuses
<1>11. ASSUME NEW f \in BOOLEAN, CancelStops(f) PROVE CancelInv' /\ CancelIsTold'
  <2>1. /\ cancel.pc = "stopping" /\ (f \/ ~Running) /\ view' = view
        /\ run' = IF Running THEN [run EXCEPT !.phase = "killed"] ELSE run
        /\ cancel' = [cancel EXCEPT !.pc = IF f \/ cancel.delivery = "unreachable"
                                           THEN "waking" ELSE "returned"]
    BY <1>11 DEF CancelStops, cancelOthers
  <2>2. /\ view.status = "cancelled" /\ parent.pc = "acked" /\ parent'.pc = "acked" /\ ~run.rejected
    BY <1>1, <2>1 DEF CancelInv, RunInv
  <2>3. ~Running' /\ run'.phase \in {"killed", "finished"}
    BY <1>1, <2>1 DEF Running, RunState
  <2>4. CASE f \/ cancel.delivery = "unreachable"
    <3>1. cancel'.pc = "waking"
      BY <1>1, <2>1, <2>4
    <3> QED
      BY <2>1, <2>2, <2>3, <3>1 DEF CancelInv, CancelIsTold
  <2>5. CASE ~(f \/ cancel.delivery = "unreachable")
    <3>1. cancel'.pc = "returned" /\ ~Running /\ run' = run
      BY <1>1, <2>1, <2>5
    <3>2. Ends # {}
      BY <2>1, <2>2, <2>3, <2>5, <3>1 DEF CancelInv, EndInv, Running
    <3> QED
      BY <1>2, <2>1, <2>2, <2>3, <3>1, <3>2
         DEF CancelInv, CancelIsTold, isTerminalTaskStatus, TerminalStatuses
  <2> QED
    BY <2>4, <2>5
<1>12. CASE Handling
  BY <1>5, <1>12, HandlingIsHandled, GroupFrames DEF Handled
<1>13. CASE Finish \/ ClaimBody
  <2>1. cancel' = cancel /\ run'.phase # "killed"
    BY <1>1, <1>13 DEF Finish, ClaimBody, others, Racing, AtLoopTop, Running, RunState
  <2> QED
    BY <1>5, <2>1
<1>14. CASE UNCHANGED <<run, cancel>>
  BY <1>5, <1>14
<1> QED
  BY <1>6, <1>7, <1>8, <1>9, <1>10, <1>11, <1>12, <1>13, <1>14, StepGroups, GroupFrames
     DEF Cancelling, ToolReports, ToolCompletes, parentOthers, UserAnswers, ParentReceives, vars

\* Every step preserves the types.
LEMMA TypePreserved == IInv /\ [Next]_vars => TypeOK'
<1> SUFFICES ASSUME IInv, [Next]_vars PROVE TypeOK'
  OBVIOUS
<1> USE DEF IInv
<1> DEFINE C == [kind : CommandKinds, n : Nat]
           P == [pc : {"step", "indexed", "acked", "rejected"}, settled : BOOLEAN, sent : Nat]
           K == [pc : {"idle", "sent", "stopping", "waking", "returned", "threw"},
                 calls : Nat, delivery : {"none", "delivered", "unreachable"}]
<1>1. /\ task \in Tasks /\ run \in RunState /\ todo \in Seq(DurableStep)
  BY DEF TypeOK
<1>2. reader \in [Channels -> {"idle", "pending", "landed"}]
  BY DEF TypeOK
<1>3. workflow \in Seq(Message) /\ commands \in Seq(C)
  BY DEF TypeOK
<1>4. body \in BodyState
  BY DEF TypeOK
<1>5. parent \in P /\ cancel \in K
  BY DEF TypeOK
<1>6. /\ view \in View /\ progress \in Seq(Delivery) /\ inbox \in Seq(Delivery)
       /\ told \in Seq(Delivery) /\ proxied \subseteq Nat /\ retries \in Nat
  BY DEF TypeOK
<1> HIDE DEF C, P, K
<1>7. task' \in Tasks
  BY <1>1, ParentMoves
<1>8. run' \in RunState /\ todo' \in Seq(DurableStep)
  <2>1. CASE Handling
    BY <2>1, HandlingIsHandled DEF Handled
  <2>2. CASE Popping
    <3>1. run' = run /\ todo # <<>> /\ todo' \in {todo, Tail(todo), <<>>}
      BY <2>2, GroupFrames DEF Popping, PublishView, AbortBody, AppendProgress, WakeParent, AnswerUnreachable,
                               DoneOrAgain
    <3> QED
      BY <1>1, <3>1, QueueClosed
  <2>3. CASE Finish \/ (\E f \in BOOLEAN : CancelStops(f))
    <3>1. /\ todo' = todo
          /\ run' = run \/ \E x \in {"finished", "killed"} : run' = [run EXCEPT !.phase = x]
      BY <2>3 DEF Finish, CancelStops, cancelOthers
    <3> QED
      BY <1>1, <3>1 DEF RunState
  <2>4. CASE ClaimBody
    <3>1. body.result \in Result
      BY <1>4 DEF BodyState
    <3>2. run' = [run EXCEPT !.reading = FALSE, !.result = body.result] /\ todo' = todo
      BY <2>4 DEF ClaimBody
    <3> QED
      BY <1>1, <3>1, <3>2 DEF RunState
  <2>5. CASE UNCHANGED <<run, todo>>
    BY <1>1, <2>5
  <2> QED
    BY <2>1, <2>2, <2>3, <2>4, <2>5, StepGroups, GroupFrames
       DEF ToolReports, ToolCompletes, parentOthers, ParentReceives, UserAnswers, Cancelling,
           CancelSends, CancelSees, CancelTimesOut, CancelCrashes, CancelWakes, cancelOthers, vars
<1>9. reader' \in [Channels -> {"idle", "pending", "landed"}]
  <2>1. CASE Handling \/ ClaimBody
    BY <1>2, <2>1 DEF Handling, SettleBody, ClaimWorkflow, ClaimCommand, DeliverAnswer, ClaimBody
  <2>2. CASE Reading
    BY <1>2, <2>2 DEF Reading, Arm, Land
  <2>3. CASE reader' = reader
    BY <1>2, <2>3
  <2> QED
    BY <2>1, <2>2, <2>3, StepGroups, GroupFrames
       DEF Finish, ToolReports, ToolCompletes, parentOthers, ParentReceives, UserAnswers, CancelWakes,
           cancelOthers, vars
<1>10. workflow' \in Seq(Message) /\ body' \in BodyState
  <2>1. CASE Handling
    <3>1. workflow' \in {workflow, Tail(workflow)} /\ (workflow = <<>> => workflow' = workflow)
      BY <2>1 DEF Handling, SettleBody, ClaimWorkflow, ClaimCommand, DeliverAnswer, ReaderInv
    <3>2. workflow' \in Seq(Message)
      BY <1>3, <3>1, QueueClosed
    <3>3. CASE DeliverAnswer
      <4>1. Current \in DurableStep
        BY <1>1, <3>3, Shifted DEF DeliverAnswer, Performs, Current
      <4>2. Current.d.n \in Nat
        BY <4>1 DEF DurableStep, Delivery
      <4>3. body' = [body EXCEPT !.answered = @ \cup {Current.d.n}]
        BY <3>3 DEF DeliverAnswer
      <4> QED
        BY <1>4, <3>2, <4>2, <4>3 DEF BodyState
    <3>4. CASE SettleBody \/ ClaimWorkflow
      BY <1>4, <3>2, <3>4 DEF SettleBody, ClaimWorkflow
    <3>5. CASE ClaimCommand
      <4>1. \/ body' = body
            \/ body' = [body EXCEPT !.pc = "running", !.starts = @ + 1]
        BY <3>5, ClaimCommandHandles
      <4>2. body.starts + 1 \in Nat
        BY <1>4 DEF BodyState
      <4> QED
        BY <1>4, <3>2, <4>1, <4>2 DEF BodyState
    <3> QED
      BY <2>1, <3>3, <3>4, <3>5 DEF Handling
  <2>2. CASE BodyStep
    BY <1>3, <2>2, BodySteps, QueueClosed
  <2>3. CASE Popping
    <3>1. workflow' = workflow /\ (body' = body \/ body' = [body EXCEPT !.aborted = TRUE])
      BY <2>3 DEF Popping, PublishView, AbortBody, AppendProgress, WakeParent, AnswerUnreachable
    <3> QED
      BY <1>3, <1>4, <3>1 DEF BodyState
  <2>4. CASE UNCHANGED <<workflow, body>>
    BY <1>3, <1>4, <2>4
  <2> QED
    BY <2>1, <2>2, <2>3, <2>4, StepGroups, GroupFrames
       DEF Finish, ClaimBody, ToolReports, ToolCompletes, parentOthers, ParentReceives,
           UserAnswers, CancelWakes, cancelOthers, vars
<1>11. commands' \in Seq(C) /\ proxied' \subseteq Nat
  <2>1. \A k \in CommandKinds, n \in Nat : [kind |-> k, n |-> n] \in C
    BY DEF C
  <2>2. parent.sent + 1 \in Nat
    BY <1>5 DEF P
  <2>3. {"ready", "reject-dispatch", "cancel", "complete", "update", "message", "answer"} \subseteq CommandKinds
    BY DEF CommandKinds
  <2>4. \/ commands' = commands
        \/ commands # <<>> /\ commands' = Tail(commands)
        \/ \E k \in CommandKinds, n \in Nat : commands' = Append(commands, [kind |-> k, n |-> n])
    <3>1. CASE Handling
      BY <3>1 DEF Handling, SettleBody, ClaimWorkflow, ClaimCommand, DeliverAnswer, ReaderInv
    <3>2. CASE ToolReports
      BY <2>2, <2>3, <3>2 DEF ToolReports, sendTaskCommand
    <3>3. CASE ToolCompletes
      BY <2>3, <3>3 DEF ToolCompletes, sendTaskCommand
    <3>4. CASE Deciding
      BY <2>3, <3>4 DEF Deciding, StepCommits, StepFails, acknowledgeDelegatedTasksStep, sendTaskCommand
    <3>5. CASE \E q \in proxied : UserAnswers(q)
      BY <1>6, <2>3, <3>5 DEF UserAnswers, sendTaskCommand
    <3>6. CASE Cancelling
      BY <2>3, <3>6 DEF Cancelling, CancelSends, CancelSees, CancelTimesOut, CancelCrashes, CancelStops,
                        sendTaskCommand
    <3>7. CASE commands' = commands
      BY <3>7
    <3> QED
      BY <3>1, <3>2, <3>3, <3>4, <3>5, <3>6, <3>7, StepGroups, GroupFrames
         DEF Finish, ClaimBody, ParentReceives, CancelWakes, vars
  <2>5. commands' \in Seq(C)
    BY <1>3, <2>1, <2>4, QueueClosed
  <2>6. proxied' \subseteq Nat
    <3>1. CASE ParentReceives
      <4>1. Head(inbox) \in Delivery
        BY <1>6, <3>1, QueueClosed DEF ParentReceives
      <4>2. Head(inbox).src \in Nat
        BY <4>1 DEF Delivery
      <4> QED
        BY <1>6, <3>1, <4>2 DEF ParentReceives
    <3>2. CASE \E q \in proxied : UserAnswers(q)
      BY <1>6, <3>2 DEF UserAnswers
    <3>3. CASE proxied' = proxied
      BY <1>6, <3>3
    <3> QED
      BY <3>1, <3>2, <3>3, StepGroups, GroupFrames
         DEF Finish, ClaimBody, others, ToolReports, ToolCompletes, parentOthers, CancelWakes, cancelOthers, vars
  <2> QED
    BY <2>5, <2>6
<1>12. /\ view' \in View /\ progress' \in Seq(Delivery) /\ inbox' \in Seq(Delivery)
      /\ told' \in Seq(Delivery) /\ retries' \in Nat
  <2>1. CASE Popping
    <3>1. Current \in DurableStep
      BY <2>1, InHand
    <3>2. Current.d \in Delivery /\ Current.view \in View
      BY <3>1 DEF DurableStep
    <3>3. /\ view' \in {view, Current.view} /\ progress' \in {progress, Append(progress, Current.d)}
          /\ inbox' \in {inbox, Append(inbox, Current.d)} /\ told' = told /\ retries' \in {retries, retries + 1}
      BY <2>1 DEF Popping, PublishView, AbortBody, AppendProgress, WakeParent, AnswerUnreachable, DoneOrAgain,
                  others
    <3>4. Append(progress, Current.d) \in Seq(Delivery) /\ Append(inbox, Current.d) \in Seq(Delivery)
      BY <1>6, <3>2, QueueClosed
    <3>5. retries' \in Nat
      BY <1>6, <3>3
    <3> QED
      BY <1>6, <3>2, <3>3, <3>4, <3>5
  <2>2. CASE ParentReceives
    <3>1. /\ inbox # <<>> /\ inbox' = Tail(inbox) /\ told' \in {told, Append(told, Head(inbox))}
          /\ UNCHANGED <<view, progress, retries>>
      BY <2>2 DEF ParentReceives
    <3>2. Head(inbox) \in Delivery /\ inbox' \in Seq(Delivery)
      BY <1>6, <3>1, QueueClosed
    <3>3. Append(told, Head(inbox)) \in Seq(Delivery)
      BY <1>6, <3>2, QueueClosed
    <3> QED
      BY <1>6, <3>1, <3>2, <3>3
  <2>3. CASE CancelWakes
    <3>1. wakeTaskParentStep("cancelled") \in Delivery
      BY DEF wakeTaskParentStep, Delivery, TerminalStatuses
    <3> QED
      BY <1>6, <2>3, <3>1, QueueClosed DEF CancelWakes, cancelOthers
  <2>4. CASE Deciding \/ Cancelling
    <3>1. UNCHANGED <<view, progress, inbox, told>> /\ retries' \in {retries, retries + 1}
      BY <2>4, GroupFrames DEF Deciding, StepCommits, StepFails, acknowledgeDelegatedTasksStep, Cancelling,
           CancelSends, CancelSees, CancelTimesOut, CancelCrashes, CancelStops
    <3> QED
      BY <1>6, <3>1
  <2>5. CASE BodyStep
    BY <1>6, <2>5, BodySteps, GroupFrames
  <2>6. CASE UNCHANGED <<view, progress, inbox, told, retries>>
    BY <1>6, <2>6
  <2> QED
    BY <2>1, <2>2, <2>3, <2>4, <2>5, <2>6, StepGroups, GroupFrames
       DEF Finish, ClaimBody, others, ToolReports, ToolCompletes, parentOthers, UserAnswers, vars
<1>13. parent' \in P /\ cancel' \in K
  <2>1. CASE ToolReports \/ ToolCompletes
    <3>1. /\ cancel' = cancel
          /\ parent' = [parent EXCEPT !.sent = @ + 1] \/ parent' = [parent EXCEPT !.settled = TRUE]
      BY <2>1 DEF ToolReports, ToolCompletes
    <3>2. parent.sent + 1 \in Nat
      BY <1>5 DEF P
    <3> QED
      BY <1>5, <3>1, <3>2 DEF P
  <2>2. CASE Deciding
    <3>1. /\ cancel' = cancel
          /\ parent' = parent \/ \E x \in {"indexed", "acked", "rejected"} : parent' = [parent EXCEPT !.pc = x]
      BY <2>2, GroupFrames DEF Deciding, StepCommits, StepFails, acknowledgeDelegatedTasksStep
    <3> QED
      BY <1>5, <3>1 DEF P
  <2>3. CASE CancelSends
    <3>1. cancel.calls + 1 \in Nat
      BY <1>5 DEF K
    <3> QED
      BY <1>5, <2>3, <3>1 DEF CancelSends, cancelOthers, K
  <2>4. CASE CancelCrashes
    BY <1>5, <2>4 DEF CancelCrashes, cancelOthers, K
  <2>5. CASE Cancelling \/ CancelWakes
    <3>1. CASE CancelSends \/ CancelCrashes
      BY <2>3, <2>4, <3>1
    <3>2. CASE CancelSees \/ CancelTimesOut \/ CancelWakes \/ \E f \in BOOLEAN : CancelStops(f)
      <4>1. /\ parent' = parent
            /\ \E x \in {"stopping", "returned", "threw", "waking"} : cancel' = [cancel EXCEPT !.pc = x]
        BY <3>2 DEF CancelSees, CancelTimesOut, CancelWakes, CancelStops, cancelOthers
      <4> QED
        BY <1>5, <4>1 DEF K
    <3> QED
      BY <2>5, <3>1, <3>2 DEF Cancelling
  <2>6. CASE UNCHANGED <<parent, cancel>>
    BY <1>5, <2>6
  <2> QED
    BY <2>1, <2>2, <2>5, <2>6, StepGroups, GroupFrames
       DEF Finish, ClaimBody, others, ParentReceives, UserAnswers, vars
<1> QED
  BY <1>7, <1>8, <1>9, <1>10, <1>11, <1>12, <1>13 DEF TypeOK, C, P, K

-----------------------------------------------------------------------------
(* The theorems.                                                           *)

\* The run's first step publishes its view: nothing was sent, told or started.
LEMMA InitEstablishes == Init => IInv
<1> SUFFICES ASSUME Init PROVE IInv
  OBVIOUS
<1>1. /\ task \in Tasks /\ task.workflow \in BOOLEAN /\ run.phase = "running" /\ run.status = "working"
      /\ ~run.acked /\ ~run.rejected /\ ~run.reading /\ run.result = NoResult
      /\ run.settled = ~task.workflow
  BY TaskConstants DEF Init
<1>2. \A S : <<>> \in Seq(S)
  BY QueueClosed
<1>3. run \in RunState
  BY <1>1, <1>2 DEF Init, RunState, Statuses, Result, NoResult
<1> DEFINE x == appendTaskViewStep(run)
<1>4. x \in DurableStep /\ x.op = "view" /\ x.view.status = "working" /\ todo = <<x>>
  BY <1>1, <1>3 DEF Init, appendTaskViewStep, DurableStep, Delivery, Nothing, View, RunState
<1> HIDE DEF x
<1>5. /\ todo \in Seq(DurableStep) /\ Range(todo) = {x} /\ InOrder(todo)
  <2>1. todo \in Seq(DurableStep)
    BY <1>4
  <2> QED
    BY <1>4, <2>1, RangeOfFew, FewInOrder
<1>6. /\ workflow = <<>> /\ commands = <<>> /\ inbox = <<>> /\ told = <<>> /\ progress = <<>>
      /\ view.status = "working" /\ body.starts = 0 /\ body.pc = "none" /\ parent.pc = "step"
      /\ parent.settled = task.workflow /\ cancel.pc = "idle" /\ \A c \in Channels : reader[c] = "idle"
  BY DEF Init
<1>7. Delivered = {} /\ Ends = {} /\ HeardEnd = {} /\ Range(commands) = {}
  BY <1>6, RangeOfFew DEF Delivered, Ends, HeardEnd
<1>8. TypeOK
  <2>1. /\ reader \in [Channels -> {"idle", "pending", "landed"}] /\ view \in View
        /\ proxied \subseteq Nat /\ retries \in Nat
    BY DEF Init, View, Statuses
  <2>2. body \in BodyState
    BY DEF Init, BodyState, Result, NoResult
  <2>3. /\ parent \in [pc : {"step", "indexed", "acked", "rejected"}, settled : BOOLEAN, sent : Nat]
        /\ cancel \in [pc : {"idle", "sent", "stopping", "waking", "returned", "threw"},
                       calls : Nat, delivery : {"none", "delivered", "unreachable"}]
    BY <1>1 DEF Init
  <2> QED
    BY <1>1, <1>2, <1>3, <1>5, <1>6, <2>1, <2>2, <2>3 DEF TypeOK
<1>9. CommandsInv
  BY <1>6, <1>7 DEF CommandsInv
<1>10. RunInv
  BY <1>1 DEF RunInv, isTerminalTaskStatus, TerminalStatuses
<1>11. BodyInv
  BY <1>6 DEF BodyInv
<1>12. ReaderInv
  BY <1>6 DEF ReaderInv, Channels
<1>13. TodoInv
  BY <1>1, <1>4, <1>5, <1>6 DEF TodoInv, StepOK, EndWake, HasView, isTerminalTaskStatus, TerminalStatuses
<1>14. EndInv
  BY <1>1, <1>6, <1>7 DEF EndInv, isFinished
<1>15. CancelInv /\ CancelIsTold
  BY <1>1, <1>6 DEF CancelInv, CancelIsTold
<1>16. SilentUntilIndexed /\ EndIsLast
  BY <1>6, <1>7 DEF SilentUntilIndexed, EndIsLast
<1> QED
  BY <1>8, <1>9, <1>10, <1>11, <1>12, <1>13, <1>14, <1>15, <1>16 DEF IInv

\* The invariant is inductive.
LEMMA NextPreserves == IInv /\ [Next]_vars => IInv'
<1> SUFFICES ASSUME IInv, [Next]_vars PROVE IInv'
  OBVIOUS
<1>1. TypeOK' /\ CommandsInv' /\ RunInv' /\ BodyInv' /\ ReaderInv' /\ TodoInv' /\ EndInv'
  BY TypePreserved, CommandsPreserved, RunPreserved, BodyPreserved, ReaderPreserved, TodoPreserved,
     EndPreserved
<1>2. CancelInv' /\ CancelIsTold' /\ SilentUntilIndexed' /\ EndIsLast'
  BY CancelPreserved, SilencePreserved, EndStaysLast
<1> QED
  BY <1>1, <1>2 DEF IInv

\* The inductive invariant holds throughout.
THEOREM TaskInvariant == Spec => []IInv
BY InitEstablishes, NextPreserves, PTL DEF Spec

\* Every variable keeps its type.
THEOREM TaskTypes == Spec => []TypeOK
<1>1. IInv => TypeOK
  BY DEF IInv
<1> QED
  BY <1>1, TaskInvariant, PTL

\* Nothing a task says reaches the parent session before its step has indexed the
\* task, and nothing ever does when the dispatch was rejected (delegate.ts): for
\* every task and any number of retried wakes and acknowledgements.
THEOREM Silence == Spec => []SilentUntilIndexed
<1>1. IInv => SilentUntilIndexed
  BY DEF IInv
<1> QED
  BY <1>1, TaskInvariant, PTL

\* The parent hears the end of a task once and nothing of the task after it,
\* whatever steps are retried and whether the run or cancelOwnedTask sends it.
THEOREM EndOnce == Spec => []EndIsLast
<1>1. IInv => EndIsLast
  BY DEF IInv
<1> QED
  BY <1>1, TaskInvariant, PTL

\* The body is started at most once, however often the acknowledging step is
\* retried, and never for a rejected dispatch.
THEOREM BodyOnce == Spec => []BodyRunsOnce
<1>1. IInv => BodyRunsOnce
  <2> SUFFICES ASSUME IInv PROVE BodyRunsOnce
    OBVIOUS
  <2>1. body.starts \in Nat
    BY DEF IInv, TypeOK, BodyState
  <2>2. body.starts <= 1 /\ (body.starts = 1 => Indexed)
    BY DEF IInv, BodyInv
  <2> QED
    BY <2>1, <2>2 DEF BodyRunsOnce, Indexed
<1> QED
  BY <1>1, TaskInvariant, PTL

\* When cancelOwnedTask has returned and the task is cancelled, the parent session
\* has been told: by the run, or by the caller that stopped it or found it gone,
\* also when the cancelling step crashed anywhere and ran again.
THEOREM CancelTold == Spec => []CancelIsTold
<1>1. IInv => CancelIsTold
  BY DEF IInv
<1> QED
  BY <1>1, TaskInvariant, PTL

\* Every step of the run, its body and its parent decides, moves or hears the
\* task's lifecycle, or leaves it alone.
LEMMA LifecycleStep ==
  ASSUME IInv, IInv', [Next]_vars
  PROVE  [Lifecycle!Next]_(Lifecycle!vars)
<1> DEFINE dispatch == CASE parent.pc = "step" -> "pending"
                         [] parent.pc = "rejected" -> "rejected"
                         [] OTHER -> "accepted"
           heard == IF HeardEnd = {} THEN "none" ELSE CHOOSE e \in HeardEnd : TRUE
<1>1. parent \in [pc : {"step", "indexed", "acked", "rejected"}, settled : BOOLEAN, sent : Nat]
  BY DEF IInv, TypeOK
<1>2. CASE UNCHANGED <<parent, view, told>>
  BY <1>2 DEF Lifecycle!vars, HeardEnd
<1>3. CASE ToolReports \/ ToolCompletes
  <2>1. UNCHANGED <<view, told>> /\ parent'.pc = parent.pc
    BY <1>1, <1>3 DEF ToolReports, ToolCompletes, parentOthers
  <2> QED
    BY <2>1 DEF Lifecycle!vars, HeardEnd
<1>4. CASE acknowledgeDelegatedTasksStep
  <2>1. UNCHANGED <<view, told>> /\ parent.pc = "indexed" /\ parent'.pc \in {"indexed", "acked"}
    BY <1>1, <1>4 DEF acknowledgeDelegatedTasksStep, parentOthers
  <2> QED
    BY <2>1 DEF Lifecycle!vars, HeardEnd
<1>5. CASE StepCommits \/ StepFails
  <2>1. UNCHANGED <<view, told>> /\ parent.pc = "step" /\ parent'.pc \in {"indexed", "rejected"}
    BY <1>1, <1>5 DEF StepCommits, StepFails, parentOthers
  <2>2. dispatch = "pending" /\ dispatch' \in {"accepted", "rejected"} /\ HeardEnd' = HeardEnd
    BY <2>1 DEF HeardEnd
  <2>3. Lifecycle!Decide
    BY <2>1, <2>2 DEF Lifecycle!Decide
  <2> QED
    BY <2>3 DEF Lifecycle!Next
<1>6. CASE PublishView
  <2>1. UNCHANGED <<parent, told>> /\ Current.op = "view" /\ Current \in Range(todo)
    BY <1>6, InHand DEF PublishView, Performs, others, Popping
  <2>2. ~isTerminalTaskStatus(view.status)
    BY <2>1 DEF TodoInv, HasView, IInv
  <2>3. view'.status \in Statuses
    BY DEF IInv, TypeOK, View
  <2>4. Lifecycle!Move
    BY <2>1, <2>2, <2>3
       DEF Lifecycle!Move, HeardEnd, Lifecycle!isTerminalTaskStatus, isTerminalTaskStatus,
           Lifecycle!Statuses, Statuses, Lifecycle!TerminalStatuses, TerminalStatuses
  <2> QED
    BY <2>4 DEF Lifecycle!Next
<1>7. CASE ParentReceives
  <2>1. UNCHANGED <<parent, view>>
    BY <1>7 DEF ParentReceives
  <2>2. CASE HeardEnd' = HeardEnd
    BY <2>1, <2>2 DEF Lifecycle!vars
  <2>3. CASE HeardEnd = {} /\ HeardEnd' = {view.status} /\ Ends # {}
    <3>1. isTerminalTaskStatus(view.status) /\ parent.pc \in {"indexed", "acked"}
      BY <2>3 DEF IInv, EndInv, SilentUntilIndexed, Ends
    <3>2. dispatch = "accepted" /\ dispatch' = dispatch
      BY <2>1, <3>1
    <3>3. heard = "none" /\ heard' = view.status
      BY <2>3
    <3>4. Lifecycle!Hear
      BY <2>1, <3>1, <3>2, <3>3
         DEF Lifecycle!Hear, Lifecycle!isTerminalTaskStatus, isTerminalTaskStatus,
             Lifecycle!TerminalStatuses, TerminalStatuses
    <3> QED
      BY <3>4 DEF Lifecycle!Next
  <2> QED
    BY <1>7, <2>2, <2>3, ReceivingEnds
<1> QED
  BY <1>2, <1>3, <1>4, <1>5, <1>6, <1>7, StepGroups, GroupFrames
     DEF Popping, PublishView, AbortBody, AppendProgress, WakeParent, AnswerUnreachable, Deciding, Finish,
         ClaimBody, others, UserAnswers, CancelWakes, cancelOthers, vars

\* The run, its body, the parent's step and cancelOwnedTask together implement the
\* task lifecycle: a published terminal status is final, the parent decides once,
\* and hears of the end once, as published, and only of a task it has indexed.
THEOREM Refinement == Spec => ImplementsLifecycle
<1>1. Init => Lifecycle!Init
  BY RangeOfFew DEF Init, Lifecycle!Init, HeardEnd
<1>2. IInv /\ IInv' /\ [Next]_vars => [Lifecycle!Next]_(Lifecycle!vars)
  BY LifecycleStep
<1> QED
  BY <1>1, <1>2, TaskInvariant, PTL DEF Spec, ImplementsLifecycle, Lifecycle!Spec

-----------------------------------------------------------------------------
(* Reports before the end.  The reports an executor makes wait in one hook, *)
(* in the order they were made, and are claimed from its front; the last one *)
(* may be there again, its sending step having run again.  A report with no   *)
(* copy left to claim is somewhere on its way, in the steps in hand, in the  *)
(* messages held back, in the inbox, or has arrived, and no earlier one is   *)
(* behind a later one; only a task that fails, is cancelled or rejected      *)
(* drops one.  A workflow task completes when the run has counted as many as *)
(* the body made: what is still unclaimed then, the repeats have displaced.  *)

\* A report in a hook; the numbers of those in a hook; they are in order.
IsReport(x) == x.kind \in {"update", "message"}
Waiting(q) == {x.n : x \in {y \in Range(q) : IsReport(y)}}
Rising(q) ==
  \A i, j \in DOMAIN q : i < j /\ IsReport(q[i]) /\ IsReport(q[j]) => q[i].n <= q[j].n
\* The reports that have a copy to claim; those that have none; those of which a
\* copy has been claimed, if any of the later ones has.
Unclaimed == Waiting(workflow) \cup Waiting(commands)
Claimed == {n \in 1..Spoken : n \notin Unclaimed}
Heard == {n \in 1..Spoken : \A u \in Unclaimed : n <= u}

\* What the run will have counted when it claims each report of a hook: more than
\* now, more for a later one, and at most the report's number and the repeats.
Counted(q, index, again) ==
  \E c \in [DOMAIN q -> Nat] :
    /\ \A i \in DOMAIN q : IsReport(q[i]) => index < c[i] /\ c[i] <= q[i].n + again
    /\ \A i, j \in DOMAIN q : i < j /\ IsReport(q[i]) /\ IsReport(q[j]) => c[i] < c[j]

\* A task has one executor and reports through one hook; the first reports are
\* claimed, the others wait in order; only the last is sent again, and only while
\* its body runs; a result counts every report of its body, not the repeats.
SourceInv ==
  /\ task.workflow => parent.sent = 0 /\ Waiting(commands) = {}
  /\ ~task.workflow => body.sent = 0 /\ workflow = <<>> /\ body.pc = "none"
  /\ Rising(workflow) /\ Rising(commands)
  /\ \E k \in 0..Spoken : Unclaimed = (k + 1)..Spoken
  /\ run.index <= body.sent + body.again /\ Counted(workflow, run.index, body.again)
  /\ \A f \in body.flight : IsReport(f) => f.n = body.sent
  /\ body.yields = body.sent
  /\ IF body.pc = "none" THEN body.flight = {} ELSE run.acked
  /\ body.pc = "returned" => body.result.reports = body.sent /\ \A f \in body.flight : ~IsReport(f)
  /\ run.result # NoResult => run.result = body.result /\ body.pc = "returned"

\* Nothing is reported behind a completion.
CompleteLast(q) == \A i, j \in DOMAIN q : i < j /\ q[i].kind = "complete" => ~IsReport(q[j])

\* The run has heard as much as the executor said.
HeardOut ==
  IF task.workflow THEN body.pc = "returned" /\ Spoken <= run.index
                   ELSE parent.settled /\ Unclaimed = {}

\* A tool says nothing after its completion, and a task that completed has heard its
\* executor out; a finished run has nothing left to do.
CompleteInv ==
  /\ CompleteLast(commands)
  /\ \A c \in Range(commands) : c.kind = "complete" => parent.settled
  /\ run.status = "completed" => HeardOut
  /\ run.phase = "finished" => todo = <<>> /\ run.acked

\* A message to the parent, its durable step, the durable step of an update; a
\* message carries the number of its report, or the count of the run that claimed it.
IsMessage(d) == d.kind = "message"
MessageStep(x) == x.op = "wake" /\ IsMessage(x.d)
ProgressStep(x) == x.op = "progress"
Speaks(x) == MessageStep(x) \/ ProgressStep(x)
Quiet(s) == \A x \in Range(s) : ~Speaks(x)
Numbered(n, index) == n \in Heard /\ IF task.workflow THEN index < run.index ELSE index = n

\* Whatever is on its way has been claimed.
NumberInv ==
  /\ \A d \in Delivered : IsMessage(d) => Numbered(d.src, d.n)
  /\ \A m \in Range(run.messages) : Numbered(m.n, m.index)
  /\ \A x \in Range(todo) :
       /\ MessageStep(x) => Numbered(x.d.src, x.d.n)
       /\ ProgressStep(x) => x.d.src \in Heard /\ x.d.kind = "update" /\ todo = <<x>>
  /\ \A d \in Range(progress) : d.src \in Heard /\ d.kind = "update"

\* A delivery is no later report than another, and the same if it has its number.
InLine(a, b) == a.src <= b.src /\ (a.n = b.n => a.src = b.src)

\* Messages are in order from the ones held back through the steps in hand and the
\* inbox to what was told, and so are updates; messages are held back until the
\* task is acknowledged and none is sent before.
LineInv ==
  /\ Ordered("message", told) /\ Ordered("update", progress)
  /\ \A i, j \in DOMAIN inbox :
       i < j /\ IsMessage(inbox[i]) /\ IsMessage(inbox[j]) => InLine(inbox[i], inbox[j])
  /\ \A a \in Range(told), b \in Range(inbox) : IsMessage(a) /\ IsMessage(b) => InLine(a, b)
  /\ \A a \in Delivered, x \in Range(todo) : IsMessage(a) /\ MessageStep(x) => InLine(a, x.d)
  /\ \A i, j \in DOMAIN todo :
       i < j /\ MessageStep(todo[i]) /\ MessageStep(todo[j]) => InLine(todo[i].d, todo[j].d)
  /\ \A a \in Range(progress), x \in Range(todo) : ProgressStep(x) => a.src <= x.d.src
  /\ \A i, j \in DOMAIN run.messages :
       i < j => InLine(wakeTaskMessageParentStep(run.messages[i]),
                       wakeTaskMessageParentStep(run.messages[j]))
  /\ run.acked => run.messages = <<>>
  /\ \A d \in Delivered : IsMessage(d) => run.acked

\* A report is somewhere; only these tasks drop reports; no claimed one is lost.
Placed(n) ==
  \/ \E d \in Delivered : IsMessage(d) /\ d.src = n
  \/ \E m \in Range(run.messages) : m.n = n
  \/ \E x \in Range(todo) : Speaks(x) /\ x.d.src = n
  \/ \E d \in Range(progress) : d.src = n
Lost == run.status \in {"failed", "cancelled"} \/ run.rejected
CoverInv == Lost \/ \A n \in Claimed : Placed(n)

\* The invariant for a task without an agent: an agent's reports are not counted.
FlowInv == NumberInv /\ LineInv /\ CoverInv
ReportInv == ~task.agent => SourceInv /\ CompleteInv /\ FlowInv

-----------------------------------------------------------------------------
(* Hooks.                                                                  *)

\* One more entry in a hook.
LEMMA HookGrows ==
  ASSUME NEW S, NEW q \in Seq(S), NEW x \in S
  PROVE  /\ IsReport(x) => Waiting(Append(q, x)) = Waiting(q) \cup {x.n}
         /\ ~IsReport(x) => Waiting(Append(q, x)) = Waiting(q)
         /\ Rising(q) /\ (IsReport(x) => \A n \in Waiting(q) : n <= x.n) => Rising(Append(q, x))
<1>1. Range(Append(q, x)) = Range(q) \cup {x}
  BY RangeOfAppend
<1>2. /\ IsReport(x) => Waiting(Append(q, x)) = Waiting(q) \cup {x.n}
      /\ ~IsReport(x) => Waiting(Append(q, x)) = Waiting(q)
  BY <1>1 DEF Waiting
<1>3. ASSUME Rising(q), IsReport(x) => \A n \in Waiting(q) : n <= x.n
      PROVE  Rising(Append(q, x))
  <2>1. \A i \in 1..Len(q) : IsReport(q[i]) /\ IsReport(x) => q[i].n <= x.n
    BY <1>3, Indices DEF Waiting, Range
  <2> QED
    BY <1>3, <2>1, Appended DEF Rising
<1> QED
  BY <1>2, <1>3

\* The first entry of a hook is taken.
LEMMA HookShrinks ==
  ASSUME NEW S, NEW q \in Seq(S), q # <<>>
  PROVE  /\ IsReport(Head(q)) => Waiting(q) = Waiting(Tail(q)) \cup {Head(q).n}
         /\ ~IsReport(Head(q)) => Waiting(q) = Waiting(Tail(q))
         /\ Rising(q) => /\ Rising(Tail(q))
                         /\ IsReport(Head(q)) => \A n \in Waiting(Tail(q)) : Head(q).n <= n
<1>1. Range(q) = {Head(q)} \cup Range(Tail(q))
  BY RangeOfTail
<1>2. /\ IsReport(Head(q)) => Waiting(q) = Waiting(Tail(q)) \cup {Head(q).n}
      /\ ~IsReport(Head(q)) => Waiting(q) = Waiting(Tail(q))
  BY <1>1 DEF Waiting
<1>3. ASSUME Rising(q)
      PROVE  /\ Rising(Tail(q))
             /\ IsReport(Head(q)) => \A n \in Waiting(Tail(q)) : Head(q).n <= n
  <2>1. Rising(Tail(q))
    BY <1>3, Shifted DEF Rising
  <2>2. \A i \in 1..(Len(q) - 1) : IsReport(Head(q)) /\ IsReport(Tail(q)[i]) => Head(q).n <= Tail(q)[i].n
    BY <1>3, Shifted DEF Rising
  <2> QED
    BY <2>1, <2>2, Shifted DEF Waiting, Range
<1> QED
  BY <1>2, <1>3

\* A hook without reports has none waiting.
LEMMA HookEmpty ==
  Waiting(<<>>) = {} /\ Rising(<<>>) /\ \A index, again : Counted(<<>>, index, again)
<1>1. Waiting(<<>>) = {} /\ Rising(<<>>)
  BY RangeOfFew DEF Waiting, Rising
<1>2. ASSUME NEW index, NEW again
      PROVE  Counted(<<>>, index, again)
  <2>1. [i \in DOMAIN <<>> |-> 0] \in [DOMAIN <<>> -> Nat] /\ DOMAIN <<>> = {}
    OBVIOUS
  <2> QED
    BY <2>1 DEF Counted
<1> QED
  BY <1>1, <1>2

\* One more report, that comes to more than those before it, or what is no report.
LEMMA CountGrows ==
  ASSUME NEW q \in Seq(Message), NEW x \in Message, NEW index \in Nat, NEW again \in Nat,
         NEW more \in Nat, again <= more, Counted(q, index, again),
         IsReport(x) => /\ index < x.n + more
                        /\ \A n \in Waiting(q) : n + again < x.n + more
  PROVE  Counted(Append(q, x), index, more)
<1>1. PICK c \in [DOMAIN q -> Nat] :
        /\ \A i \in DOMAIN q : IsReport(q[i]) => index < c[i] /\ c[i] <= q[i].n + again
        /\ \A i, j \in DOMAIN q : i < j /\ IsReport(q[i]) /\ IsReport(q[j]) => c[i] < c[j]
  BY DEF Counted
<1> DEFINE v == x.n + more
           s == Append(q, x)
           e == [i \in 1..(Len(q) + 1) |-> IF i \in 1..Len(q) THEN c[i] ELSE v]
<1>2. /\ DOMAIN q = 1..Len(q) /\ Len(q) \in Nat /\ DOMAIN s = 1..(Len(q) + 1)
      /\ (\A i \in 1..Len(q) : s[i] = q[i]) /\ s[Len(q) + 1] = x
  BY Appended
<1>3. x.n \in Nat /\ v \in Nat /\ \A i \in 1..Len(q) : q[i].n \in Nat /\ c[i] \in Nat
  <2>1. x.n \in Nat /\ \A y \in Message : y.n \in Nat
    BY DEF Message
  <2>2. \A i \in 1..Len(q) : q[i] \in Message
    BY <1>2, Indices
  <2>3. \A i \in 1..Len(q) : c[i] \in Nat
    BY <1>2
  <2> QED
    BY <2>1, <2>2, <2>3
<1>4. /\ \A i \in 1..Len(q) : e[i] = c[i]
      /\ e[Len(q) + 1] = v /\ e \in [DOMAIN s -> Nat]
  BY <1>2, <1>3
<1>5. \A i \in 1..Len(q) : IsReport(q[i]) => q[i].n \in Waiting(q)
  BY <1>2 DEF Waiting, Range
<1>6. \A i, j \in 1..(Len(q) + 1) : /\ i \in 1..Len(q) \/ i = Len(q) + 1
                                    /\ i < j => i \in 1..Len(q)
  BY <1>2
<1> HIDE DEF e, s
<1>7. ASSUME NEW i \in 1..Len(q), IsReport(q[i])
      PROVE  index < e[i] /\ e[i] <= q[i].n + more /\ (IsReport(x) => e[i] < v)
  <2>1. index < c[i] /\ c[i] <= q[i].n + again /\ e[i] = c[i]
    BY <1>1, <1>2, <1>4, <1>7
  <2>2. q[i].n \in Nat /\ c[i] \in Nat /\ q[i].n \in Waiting(q)
    BY <1>3, <1>5, <1>7
  <2>3. IsReport(x) => q[i].n + again < v
    BY <2>2
  <2> HIDE DEF v
  <2> QED
    BY <1>3, <2>1, <2>2, <2>3
<1>8. /\ IsReport(x) => index < v /\ v <= x.n + more
      /\ \A i \in 1..Len(q) : IsReport(q[i]) => index < e[i] /\ e[i] <= q[i].n + more
      /\ IsReport(x) => \A i \in 1..Len(q) : IsReport(q[i]) => e[i] < v
  BY <1>3, <1>7
<1> HIDE DEF v
<1>9. \A i \in DOMAIN s : IsReport(s[i]) => index < e[i] /\ e[i] <= s[i].n + more
  BY <1>2, <1>4, <1>6, <1>8
<1>10. ASSUME NEW i \in DOMAIN s, NEW j \in DOMAIN s, i < j, IsReport(s[i]), IsReport(s[j])
       PROVE  e[i] < e[j]
  <2>1. i \in 1..Len(q) /\ IsReport(q[i])
    BY <1>2, <1>6, <1>10
  <2>2. CASE j \in 1..Len(q)
    BY <1>1, <1>2, <1>4, <1>10, <2>1, <2>2
  <2>3. CASE j = Len(q) + 1
    BY <1>2, <1>4, <1>8, <1>10, <2>1, <2>3
  <2> QED
    BY <1>2, <1>6, <2>2, <2>3
<1> QED
  BY <1>4, <1>9, <1>10 DEF Counted, s

\* The first entry is taken, and counted if it is a report.
LEMMA CountShrinks ==
  ASSUME NEW q \in Seq(Message), q # <<>>, NEW index \in Nat, NEW again \in Nat,
         Counted(q, index, again)
  PROVE  /\ IsReport(Head(q)) => /\ Counted(Tail(q), index + 1, again)
                                 /\ index + 1 <= Head(q).n + again
         /\ ~IsReport(Head(q)) => Counted(Tail(q), index, again)
<1>1. PICK c \in [DOMAIN q -> Nat] :
        /\ \A i \in DOMAIN q : IsReport(q[i]) => index < c[i] /\ c[i] <= q[i].n + again
        /\ \A i, j \in DOMAIN q : i < j /\ IsReport(q[i]) /\ IsReport(q[j]) => c[i] < c[j]
  BY DEF Counted
<1> DEFINE s == Tail(q)
           e == [i \in 1..(Len(q) - 1) |-> c[i + 1]]
<1>2. /\ DOMAIN q = 1..Len(q) /\ Len(q) \in Nat \ {0} /\ DOMAIN s = 1..(Len(q) - 1)
      /\ Head(q) = q[1] /\ \A i \in 1..(Len(q) - 1) : s[i] = q[i + 1]
  BY Shifted
<1>3. /\ 1 \in 1..Len(q) /\ \A i \in 1..(Len(q) - 1) : i + 1 \in 1..Len(q) /\ 1 < i + 1
      /\ \A i, j \in 1..(Len(q) - 1) : i < j => i + 1 < j + 1
  BY <1>2
<1>4. \A i \in 1..Len(q) : c[i] \in Nat /\ q[i].n \in Nat
  <2>1. \A y \in Message : y.n \in Nat
    BY DEF Message
  <2>2. \A i \in 1..Len(q) : q[i] \in Message
    BY <1>2, Indices
  <2>3. \A i \in 1..Len(q) : c[i] \in Nat
    BY <1>2
  <2> QED
    BY <2>1, <2>2, <2>3
<1>5. /\ e \in [DOMAIN s -> Nat] /\ \A i \in DOMAIN s : e[i] = c[i + 1]
  BY <1>2, <1>3, <1>4
<1> HIDE DEF e, s
<1>6. /\ \A i \in DOMAIN s : IsReport(s[i]) => index < e[i] /\ e[i] <= s[i].n + again
      /\ \A i, j \in DOMAIN s : i < j /\ IsReport(s[i]) /\ IsReport(s[j]) => e[i] < e[j]
  <2>1. \A i \in DOMAIN s : i + 1 \in DOMAIN q /\ s[i] = q[i + 1] /\ e[i] = c[i + 1]
    BY <1>2, <1>3, <1>5
  <2>2. \A i, j \in DOMAIN s : i < j => i + 1 < j + 1
    BY <1>2, <1>3
  <2> QED
    BY <1>1, <2>1, <2>2
<1>7. ASSUME IsReport(Head(q))
      PROVE  /\ index + 1 <= Head(q).n + again
             /\ \A i \in DOMAIN s : IsReport(s[i]) => index + 1 < e[i]
  <2>1. index < c[1] /\ c[1] <= Head(q).n + again /\ c[1] \in Nat /\ Head(q).n \in Nat
    BY <1>1, <1>2, <1>3, <1>4, <1>7
  <2>2. \A i \in DOMAIN s : IsReport(s[i]) => c[1] < e[i] /\ e[i] \in Nat
    BY <1>1, <1>2, <1>3, <1>4, <1>5, <1>7
  <2> QED
    BY <2>1, <2>2
<1> QED
  BY <1>5, <1>6, <1>7 DEF Counted, s

-----------------------------------------------------------------------------
(* What handling a payload says.                                           *)

\* The steps of a command announce statuses and questions, no report.
LEMMA QuietLists == Quiet(<<>>) /\ \A x : ~Speaks(x) => Quiet(<<x>>)
BY RangeOfFew DEF Quiet

\* Two such lists make one.
LEMMA QuietJoined ==
  ASSUME NEW S
  PROVE  \A s, t \in Seq(S) : s \o t \in Seq(S) /\ (Quiet(s) /\ Quiet(t) => Quiet(s \o t))
BY RangeConcatenation, ConcatProperties DEF Quiet

\* applyTaskTransition completes a task for a completion only, and a task that
\* failed or was cancelled stays so.
LEMMA CommandSpeaks ==
  ASSUME NEW r \in RunState, NEW c \in Transitions, task.agent \in BOOLEAN
  PROVE  LET a == ApplyCommand(r, c)
         IN /\ a.run.messages = r.messages /\ a.run.index = r.index /\ a.run.acked = r.acked
            /\ a.run.rejected = r.rejected /\ a.run.result = r.result /\ a.run.phase = r.phase
            /\ a.run.status = "completed" => r.status = "completed" \/ c.kind = "complete"
            /\ r.status \in {"failed", "cancelled"} => a.run.status = r.status
            /\ Quiet(a.steps)
<1> DEFINE
      v == applyTaskTransition(r, c)
      settled == r.settled \/ (c.kind = "cancel" /\ ~r.reading)
      flushes == ~isTerminalTaskStatus(v.status) /\ r.acked
      asks == r.ask # 0 /\ r.acked /\ v.status = "input_required"
      wakes == /\ ~r.rejected /\ r.acked
               /\ c.kind # "cancel" \/ settled
               /\ \/ isTerminalTaskStatus(v.status)
                  \/ /\ ~isReadyTaskStatus(r.status)
                     /\ isReadyTaskStatus(v.status)
                     /\ r.ask = 0
      a == ApplyCommand(r, c)
<1>1. FlushedUpdates(r) \in Seq(DurableStep) /\ Quiet(FlushedUpdates(r))
  BY FlushedSteps DEF Quiet, Speaks, MessageStep, ProgressStep, IsMessage
<1>2. \A t \in Statuses : ~Speaks(Wake(wakeTaskParentStep(t)))
  BY DEF Wake, Step, wakeTaskParentStep, Statuses, TerminalStatuses, Speaks, MessageStep,
         ProgressStep, IsMessage
<1>3. CASE c.kind = "ready" /\ isTerminalTaskStatus(r.status)
  <2> DEFINE e == Wake(wakeTaskParentStep(r.status))
  <2>1. a = [run |-> [r EXCEPT !.updates = <<>>], steps |-> Append(FlushedUpdates(r), e)]
    BY <1>3 DEF ApplyCommand
  <2>2. ~Speaks(e)
    BY <1>2 DEF RunState
  <2>3. a.run = [r EXCEPT !.updates = <<>>] /\ a.steps = Append(FlushedUpdates(r), e)
    BY <2>1
  <2> HIDE DEF e, a
  <2>4. FlushedUpdates(r) \in Seq(DurableStep \cup {e})
    BY <1>1
  <2>5. Quiet(a.steps)
    BY <1>1, <2>2, <2>3, <2>4, RangeOfAppend DEF Quiet
  <2>6. /\ a.run.messages = r.messages /\ a.run.index = r.index /\ a.run.acked = r.acked
        /\ a.run.rejected = r.rejected /\ a.run.result = r.result /\ a.run.phase = r.phase
        /\ a.run.status = r.status
    BY <2>3 DEF RunState
  <2> QED
    BY <2>5, <2>6 DEF a
<1>4. CASE ~(c.kind = "ready" /\ isTerminalTaskStatus(r.status)) /\ ~Accepts(r, c)
  <2>1. a = [run |-> r, steps |-> <<>>]
    BY <1>4 DEF ApplyCommand
  <2> QED
    BY <2>1, QuietLists
<1>5. CASE ~(c.kind = "ready" /\ isTerminalTaskStatus(r.status)) /\ Accepts(r, c)
  <2> DEFINE
        s == [v EXCEPT !.settled = settled, !.updates = IF flushes THEN <<>> ELSE @,
                       !.ask = IF asks \/ v.status # "input_required" THEN 0 ELSE @]
        s1 == <<appendTaskViewStep(v)>>
        s2 == IF c.kind = "cancel" THEN <<Step("abort", Nothing)>> ELSE <<>>
        s3 == IF flushes THEN FlushedUpdates(r) ELSE <<>>
        s4 == IF asks THEN <<Wake(wakeWorkflowTaskInputRequestParentStep(r.ask))>>
              ELSE IF wakes THEN <<Wake(wakeTaskParentStep(v.status))>> ELSE <<>>
  <2>1. a = [run |-> s, steps |-> s1 \o s2 \o s3 \o s4]
    BY <1>5 DEF ApplyCommand
  <2>2. /\ v = [r EXCEPT !.status = v.status, !.requests = v.requests] /\ v \in RunState
        /\ v.status \in Statuses
    BY TransitionMoves
  <2>3. v.status = "completed" => c.kind = "complete" \/ r.status = "completed"
    BY DEF applyTaskTransition, Moved, Transitions, RunState
  <2> HIDE DEF v
  <2>4. r.status \notin {"failed", "cancelled"}
    BY <1>5 DEF Accepts, isTerminalTaskStatus, TerminalStatuses
  <2>5. /\ s.messages = r.messages /\ s.index = r.index /\ s.acked = r.acked
        /\ s.rejected = r.rejected /\ s.result = r.result /\ s.phase = r.phase /\ s.status = v.status
    BY <2>2, ZenonT(40) DEF RunState
  <2> DEFINE S == DurableStep \cup {Wake(wakeTaskParentStep(v.status))}
  <2>6. /\ DurableStep \subseteq S /\ Wake(wakeTaskParentStep(v.status)) \in S
        /\ <<>> \in Seq(S) /\ \A x \in S : <<x>> \in Seq(S)
    OBVIOUS
  <2> HIDE DEF S
  <2>7. s1 \in Seq(S) /\ Quiet(s1)
    <3>1. appendTaskViewStep(v) \in DurableStep /\ ~Speaks(appendTaskViewStep(v))
      BY <2>2 DEF appendTaskViewStep, DurableStep, Nothing, Delivery, View, RunState, Speaks,
                  MessageStep, ProgressStep
    <3> QED
      BY <2>6, <3>1, QuietLists
  <2>8. s2 \in Seq(S) /\ Quiet(s2)
    <3>1. Step("abort", Nothing) \in DurableStep /\ ~Speaks(Step("abort", Nothing))
      BY DEF Step, DurableStep, Nothing, Delivery, View, Statuses, Speaks, MessageStep, ProgressStep
    <3> QED
      BY <2>6, <3>1, QuietLists
  <2>9. s3 \in Seq(S) /\ Quiet(s3)
    BY <1>1, <2>6, QuietLists
  <2>10. s4 \in Seq(S) /\ Quiet(s4)
    <3>1. CASE asks
      <4> DEFINE q == Wake(wakeWorkflowTaskInputRequestParentStep(r.ask))
      <4>1. q \in DurableStep /\ ~Speaks(q)
        BY DEF Wake, Step, wakeWorkflowTaskInputRequestParentStep, DurableStep, Delivery, View,
               Statuses, RunState, Speaks, MessageStep, ProgressStep, IsMessage
      <4>2. s4 = <<q>>
        BY <3>1
      <4> HIDE DEF q
      <4> QED
        BY <2>6, <4>1, <4>2, QuietLists
    <3>2. CASE ~asks /\ wakes
      <4> DEFINE q == Wake(wakeTaskParentStep(v.status))
      <4>1. q \in S /\ ~Speaks(q)
        BY <1>2, <2>2, <2>6
      <4>2. s4 = <<q>>
        BY <3>2
      <4> HIDE DEF q
      <4> QED
        BY <2>6, <4>1, <4>2, QuietLists
    <3>3. CASE ~asks /\ ~wakes
      BY <2>6, <3>3, QuietLists
    <3> QED
      BY <3>1, <3>2, <3>3
  <2> HIDE DEF s, s1, s2, s3, s4
  <2>11. \A x, y \in Seq(S) : x \o y \in Seq(S) /\ (Quiet(x) /\ Quiet(y) => Quiet(x \o y))
    BY QuietJoined
  <2>12. Quiet(s1 \o s2 \o s3 \o s4)
    BY <2>7, <2>8, <2>9, <2>10, <2>11
  <2> QED
    BY <2>1, <2>3, <2>4, <2>5, <2>12
<1> QED
  BY <1>3, <1>4, <1>5

-----------------------------------------------------------------------------
(* What a step does to the reports on their way.                           *)

\* The run claims no report; copies of the last one may have come.
ClaimsKept == Claimed' \subseteq Claimed /\ Heard \subseteq Heard' /\ run'.index = run.index

\* A step that neither claims nor carries a report.
Staying ==
  /\ UNCHANGED <<task, told, progress>> /\ ClaimsKept
  /\ inbox' = inbox \/ \E d \in Delivery : ~IsMessage(d) /\ inbox' = Append(inbox, d)
  /\ todo' = todo \/ (Quiet(todo) /\ Quiet(todo'))
  /\ run'.messages = run.messages /\ run'.acked = run.acked
  /\ Lost => Lost'

\* The parent's answer: the messages held back are released, or dropped for good.
Released(r) == [i \in DOMAIN r.messages |-> Wake(wakeTaskMessageParentStep(r.messages[i]))]
Releasing ==
  /\ UNCHANGED <<task, told, inbox, progress>> /\ ClaimsKept
  /\ Quiet(todo)
  /\ run'.messages = <<>> /\ run'.acked
  /\ Lost => Lost'
  /\ \/ Lost' /\ Quiet(todo')
     \/ \E s \in Seq(DurableStep) : Quiet(s) /\ todo' = Released(run) \o s

\* The next report is claimed.
Claiming ==
  /\ UNCHANGED <<task, told, inbox, progress>> /\ todo = <<>>
  /\ run'.acked = run.acked /\ (Lost => Lost')
  /\ \E u \in Report :
       /\ Claimed' \subseteq Claimed \cup {u.n} /\ Heard \subseteq Heard' /\ u.n \in Heard'
       /\ \A m \in Heard : m <= u.n
       /\ IF task.workflow THEN u.index = run.index /\ run'.index = run.index + 1 ELSE u.index = u.n
       /\ \/ /\ todo' = <<Step("progress", [kind |-> "update", n |-> u.index, src |-> u.n])>>
             /\ run'.messages = run.messages
          \/ /\ todo' = <<Wake(wakeTaskMessageParentStep(u))>> /\ run.acked
             /\ run'.messages = run.messages
          \/ todo' = <<>> /\ ~run.acked /\ run'.messages = Append(run.messages, u)
          \/ todo' = <<>> /\ Lost /\ run'.messages = run.messages

\* What has been said, and that the hooks are queues.
LEMMA HookTypes ==
  ASSUME TypeOK
  PROVE  /\ workflow \in Seq(Message)
         /\ commands \in Seq([kind : CommandKinds, n : Nat])
         /\ body.sent \in Nat /\ parent.sent \in Nat /\ Spoken \in Nat
         /\ body \in BodyState /\ body.again \in Nat /\ run.index \in Nat
         /\ task.workflow \in BOOLEAN /\ task.agent \in BOOLEAN /\ run \in RunState
<1>1. /\ workflow \in Seq(Message)
      /\ commands \in Seq([kind : CommandKinds, n : Nat])
      /\ body.sent \in Nat /\ parent.sent \in Nat /\ run \in RunState
      /\ body \in BodyState /\ body.again \in Nat /\ run.index \in Nat
  BY DEF TypeOK, BodyState, RunState
<1>2. task.workflow \in BOOLEAN /\ task.agent \in BOOLEAN
  BY TaskConstants DEF TypeOK
<1> QED
  BY <1>1, <1>2 DEF Spoken

\* The types the arguments need.
LEMMA FlowTypes ==
  ASSUME TypeOK
  PROVE  /\ told \in Seq(Delivery) /\ inbox \in Seq(Delivery) /\ progress \in Seq(Delivery)
         /\ todo \in Seq(DurableStep) /\ run.messages \in Seq(Report)
         /\ Range(told) \subseteq Delivery /\ Range(inbox) \subseteq Delivery
         /\ Range(progress) \subseteq Delivery /\ Range(todo) \subseteq DurableStep
         /\ Range(run.messages) \subseteq Report
<1>1. /\ told \in Seq(Delivery) /\ inbox \in Seq(Delivery) /\ progress \in Seq(Delivery)
      /\ todo \in Seq(DurableStep) /\ run.messages \in Seq(Report)
  BY DEF TypeOK, RunState
<1> QED
  BY <1>1, RangeOfQueue

\* One more delivery that is no message, or none, is no news for the messages.
LEMMA QuietInbox ==
  ASSUME TypeOK, UNCHANGED told,
         inbox' = inbox \/ \E d \in Delivery : ~IsMessage(d) /\ inbox' = Append(inbox, d)
  PROVE  /\ \A d : IsMessage(d) => (d \in Range(inbox') <=> d \in Range(inbox))
         /\ \A i, j \in DOMAIN inbox' : i < j /\ IsMessage(inbox'[i]) /\ IsMessage(inbox'[j])
              => /\ i \in DOMAIN inbox /\ j \in DOMAIN inbox
                 /\ inbox'[i] = inbox[i] /\ inbox'[j] = inbox[j]
<1>1. CASE inbox' = inbox
  BY <1>1
<1>2. ASSUME NEW d \in Delivery, ~IsMessage(d), inbox' = Append(inbox, d)
      PROVE  /\ \A x : IsMessage(x) => (x \in Range(inbox') <=> x \in Range(inbox))
             /\ \A i, j \in DOMAIN inbox' : i < j /\ IsMessage(inbox'[i]) /\ IsMessage(inbox'[j])
                  => /\ i \in DOMAIN inbox /\ j \in DOMAIN inbox
                     /\ inbox'[i] = inbox[i] /\ inbox'[j] = inbox[j]
  <2>1. inbox \in Seq(Delivery)
    BY DEF TypeOK
  <2>2. Range(inbox') = Range(inbox) \cup {d}
    BY <1>2, <2>1, RangeOfAppend
  <2>3. /\ DOMAIN inbox = 1..Len(inbox) /\ DOMAIN inbox' = 1..(Len(inbox) + 1) /\ Len(inbox) \in Nat
        /\ (\A k \in 1..Len(inbox) : inbox'[k] = inbox[k]) /\ inbox'[Len(inbox) + 1] = d
    BY <1>2, <2>1, Appended
  <2>4. \A k \in DOMAIN inbox' : IsMessage(inbox'[k]) => k \in DOMAIN inbox /\ inbox'[k] = inbox[k]
    <3>1. \A k \in DOMAIN inbox' : k \in DOMAIN inbox \/ k = Len(inbox) + 1
      BY <2>3
    <3> QED
      BY <1>2, <2>3, <3>1
  <2> QED
    BY <1>2, <2>2, <2>4
<1> QED
  BY <1>1, <1>2

\* Such a step leaves every report where it is.
LEMMA StayingFlows ==
  ASSUME TypeOK, FlowInv, Staying
  PROVE  FlowInv'
<1>1. /\ \A d : IsMessage(d) => (d \in Range(inbox') <=> d \in Range(inbox))
      /\ \A i, j \in DOMAIN inbox' : i < j /\ IsMessage(inbox'[i]) /\ IsMessage(inbox'[j])
           => /\ i \in DOMAIN inbox /\ j \in DOMAIN inbox
              /\ inbox'[i] = inbox[i] /\ inbox'[j] = inbox[j]
  BY QuietInbox DEF Staying
<1>2. \A d : IsMessage(d) => (d \in Delivered' <=> d \in Delivered)
  BY <1>1 DEF Delivered, Staying
<1>3. \A n, i : Numbered(n, i) => Numbered(n, i)'
  BY DEF Numbered, Staying, ClaimsKept
<1>4. /\ told' = told /\ progress' = progress /\ run'.messages = run.messages
      /\ run'.acked = run.acked /\ (Lost => Lost')
      /\ Claimed' \subseteq Claimed /\ Heard \subseteq Heard'
  BY DEF Staying, ClaimsKept
<1>5. CASE todo' = todo
  <2>1. NumberInv'
    BY <1>2, <1>3, <1>4, <1>5 DEF FlowInv, NumberInv
  <2>2. LineInv'
    BY <1>1, <1>2, <1>4, <1>5 DEF FlowInv, LineInv, Ordered
  <2>3. \A n : Placed(n) => Placed(n)'
    BY <1>2, <1>4, <1>5 DEF Placed
  <2>4. CoverInv'
    BY <1>4, <2>3 DEF FlowInv, CoverInv
  <2> QED
    BY <2>1, <2>2, <2>4 DEF FlowInv
<1>6. CASE Quiet(todo) /\ Quiet(todo')
  <2>1. /\ \A x \in Range(todo) : ~MessageStep(x) /\ ~ProgressStep(x) /\ ~Speaks(x)
        /\ \A x \in Range(todo') : ~MessageStep(x) /\ ~ProgressStep(x) /\ ~Speaks(x)
        /\ \A i \in DOMAIN todo' : ~MessageStep(todo'[i])
    BY <1>6 DEF Quiet, Speaks, Range
  <2>2. NumberInv'
    BY <1>2, <1>3, <1>4, <2>1 DEF FlowInv, NumberInv
  <2>3. LineInv'
    BY <1>1, <1>2, <1>4, <2>1 DEF FlowInv, LineInv, Ordered
  <2>4. \A n : Placed(n) => Placed(n)'
    BY <1>2, <1>4, <2>1 DEF Placed
  <2>5. CoverInv'
    BY <1>4, <2>4 DEF FlowInv, CoverInv
  <2> QED
    BY <2>2, <2>3, <2>5 DEF FlowInv
<1> QED
  BY <1>5, <1>6 DEF Staying

\* Released messages are the ones held back, in their order.
LEMMA ReleasedSteps ==
  ASSUME NEW r \in RunState, NEW s \in Seq(DurableStep), Quiet(s)
  PROVE  LET t == Released(r) \o s
         IN /\ \A x \in Range(t) : Speaks(x)
                 => \E m \in Range(r.messages) : x = Wake(wakeTaskMessageParentStep(m))
            /\ \A m \in Range(r.messages) : Wake(wakeTaskMessageParentStep(m)) \in Range(t)
            /\ \A i \in DOMAIN t : Speaks(t[i])
                 => i \in DOMAIN r.messages /\ t[i] = Wake(wakeTaskMessageParentStep(r.messages[i]))
<1> DEFINE f == Released(r)
           t == f \o s
<1>1. /\ r.messages \in Seq(Report) /\ DOMAIN f = DOMAIN r.messages
      /\ \A i \in DOMAIN r.messages : f[i] = Wake(wakeTaskMessageParentStep(r.messages[i]))
  BY DEF RunState, Released
<1>2. f \in Seq(DurableStep)
  <2>1. \A u \in Report : Wake(wakeTaskMessageParentStep(u)) \in DurableStep
    BY DEF Report, Wake, Step, wakeTaskMessageParentStep, DurableStep, Delivery, View, Statuses
  <2>2. \A i \in DOMAIN r.messages : r.messages[i] \in Report
    BY <1>1, Indices
  <2>3. f \in [DOMAIN r.messages -> DurableStep]
    BY <2>1, <2>2 DEF Released
  <2> HIDE DEF f
  <2> QED
    BY <1>1, <2>3, MapIsSequence
<1> HIDE DEF f
<1>3. Range(t) = Range(f) \cup Range(s)
  BY <1>2, RangeConcatenation
<1>4. \A i \in DOMAIN t : (i \in DOMAIN f /\ t[i] = f[i]) \/ t[i] \in Range(s)
  <2>1. /\ DOMAIN f = 1..Len(f) /\ DOMAIN s = 1..Len(s) /\ Len(f) \in Nat /\ Len(s) \in Nat
        /\ DOMAIN t = 1..(Len(f) + Len(s))
        /\ \A i \in 1..(Len(f) + Len(s)) : t[i] = IF i <= Len(f) THEN f[i] ELSE s[i - Len(f)]
    BY <1>2, ConcatProperties
  <2>2. ASSUME NEW i \in 1..(Len(f) + Len(s)), ~(i <= Len(f))
        PROVE  t[i] \in Range(s)
    <3>1. i - Len(f) \in 1..Len(s)
      BY <2>1, <2>2
    <3> QED
      BY <2>1, <2>2, <3>1 DEF Range
  <2>3. \A i \in 1..(Len(f) + Len(s)) : i <= Len(f) => i \in 1..Len(f)
    BY <2>1
  <2> QED
    BY <2>1, <2>2, <2>3
<1> HIDE DEF t
<1>5. \A x \in Range(f) : \E m \in Range(r.messages) : x = Wake(wakeTaskMessageParentStep(m))
  BY <1>1 DEF Range
<1>6. \A m \in Range(r.messages) : Wake(wakeTaskMessageParentStep(m)) \in Range(f)
  BY <1>1 DEF Range
<1>7. /\ \A x \in Range(t) : Speaks(x)
           => \E m \in Range(r.messages) : x = Wake(wakeTaskMessageParentStep(m))
      /\ \A m \in Range(r.messages) : Wake(wakeTaskMessageParentStep(m)) \in Range(t)
  BY <1>3, <1>5, <1>6 DEF Quiet
<1>8. \A i \in DOMAIN t : Speaks(t[i])
        => i \in DOMAIN r.messages /\ t[i] = Wake(wakeTaskMessageParentStep(r.messages[i]))
  BY <1>1, <1>4 DEF Quiet
<1> QED
  BY <1>7, <1>8, Zenon DEF t, f

\* A message's step carries the message.
LEMMA MessageWake ==
  \A u \in Report :
    LET x == Wake(wakeTaskMessageParentStep(u))
    IN /\ MessageStep(x) /\ Speaks(x) /\ ~ProgressStep(x) /\ x.d.src = u.n /\ x.d.n = u.index
       /\ x.d = wakeTaskMessageParentStep(u)
BY DEF Wake, Step, wakeTaskMessageParentStep, MessageStep, ProgressStep, Speaks, IsMessage

\* The answer keeps the reports in order: a task that is acknowledged again holds
\* none back, and before it is acknowledged none has been sent.
LEMMA ReleasingFlows ==
  ASSUME TypeOK, FlowInv, Releasing
  PROVE  FlowInv'
<1>1. /\ told' = told /\ progress' = progress /\ inbox' = inbox /\ run'.messages = <<>>
      /\ run'.acked /\ (Lost => Lost') /\ Delivered' = Delivered
      /\ Claimed' \subseteq Claimed /\ Heard \subseteq Heard'
      /\ Range(<<>>) = {} /\ DOMAIN <<>> = {}
  BY RangeOfFew DEF Releasing, ClaimsKept, Delivered
<1>2. \A n, i : Numbered(n, i) => Numbered(n, i)'
  BY DEF Numbered, Releasing, ClaimsKept
<1>3. \A x \in Range(todo) : ~MessageStep(x) /\ ~ProgressStep(x) /\ ~Speaks(x)
  BY DEF Releasing, Quiet, Speaks
<1>4. CASE Lost' /\ Quiet(todo')
  <2>1. /\ \A x \in Range(todo') : ~MessageStep(x) /\ ~ProgressStep(x) /\ ~Speaks(x)
        /\ \A i \in DOMAIN todo' : ~MessageStep(todo'[i])
    BY <1>4 DEF Quiet, Speaks, Range
  <2>2. NumberInv'
    BY <1>1, <1>2, <2>1 DEF FlowInv, NumberInv
  <2>3. LineInv'
    BY <1>1, <2>1 DEF FlowInv, LineInv, Ordered
  <2> QED
    BY <1>4, <2>2, <2>3 DEF FlowInv, CoverInv
<1>5. ASSUME NEW s \in Seq(DurableStep), Quiet(s), todo' = Released(run) \o s
      PROVE  FlowInv'
  <2>1. run \in RunState /\ Range(run.messages) \subseteq Report
        /\ \A i \in DOMAIN run.messages : run.messages[i] \in Report
    BY FlowTypes, Indices, SMTT(30) DEF TypeOK
  <2>2. /\ \A x \in Range(todo') : Speaks(x)
             => \E m \in Range(run.messages) : x = Wake(wakeTaskMessageParentStep(m))
        /\ \A m \in Range(run.messages) : Wake(wakeTaskMessageParentStep(m)) \in Range(todo')
        /\ \A i \in DOMAIN todo' : Speaks(todo'[i])
             => i \in DOMAIN run.messages /\ todo'[i] = Wake(wakeTaskMessageParentStep(run.messages[i]))
    BY <1>5, <2>1, ReleasedSteps
  <2>3. \A x \in Range(todo') : Speaks(x)
          => MessageStep(x) /\ ~ProgressStep(x) /\ \E m \in Range(run.messages) : x.d.src = m.n /\ x.d.n = m.index
    BY <2>1, <2>2, MessageWake
  <2>4. NumberInv'
    BY <1>1, <1>2, <2>3 DEF FlowInv, NumberInv, Speaks
  <2>5. \A i \in DOMAIN todo' : MessageStep(todo'[i])
          => i \in DOMAIN run.messages /\ todo'[i].d = wakeTaskMessageParentStep(run.messages[i])
    BY <2>1, <2>2, MessageWake DEF Speaks
  <2>6. run.messages # <<>> => \A d \in Delivered : ~IsMessage(d)
    BY DEF FlowInv, LineInv
  <2>7. \A x \in Range(todo') : MessageStep(x) => run.messages # <<>>
    BY <1>1, <2>3 DEF Speaks
  <2>8. LineInv'
    BY <1>1, <2>3, <2>5, <2>6, <2>7 DEF FlowInv, LineInv, Ordered, Speaks
  <2>9. \A n : Placed(n) => Placed(n)'
    BY <1>1, <1>3, <2>1, <2>2, MessageWake DEF Placed
  <2> QED
    BY <1>1, <2>4, <2>8, <2>9 DEF FlowInv, CoverInv
<1> QED
  BY <1>4, <1>5 DEF Releasing

\* A claimed report is later than all that are on their way.
LEMMA ClaimingFlows ==
  ASSUME TypeOK, FlowInv, Claiming
  PROVE  FlowInv'
<1>1. PICK u \in Report :
       /\ Claimed' \subseteq Claimed \cup {u.n} /\ Heard \subseteq Heard' /\ u.n \in Heard'
       /\ \A m \in Heard : m <= u.n
       /\ IF task.workflow THEN u.index = run.index /\ run'.index = run.index + 1 ELSE u.index = u.n
       /\ \/ /\ todo' = <<Step("progress", [kind |-> "update", n |-> u.index, src |-> u.n])>>
             /\ run'.messages = run.messages
          \/ /\ todo' = <<Wake(wakeTaskMessageParentStep(u))>> /\ run.acked
             /\ run'.messages = run.messages
          \/ todo' = <<>> /\ ~run.acked /\ run'.messages = Append(run.messages, u)
          \/ todo' = <<>> /\ Lost /\ run'.messages = run.messages
  BY DEF Claiming
<1>2. /\ told' = told /\ progress' = progress /\ inbox' = inbox /\ todo = <<>> /\ task' = task
      /\ run'.acked = run.acked /\ (Lost => Lost') /\ Delivered' = Delivered
      /\ Range(<<>>) = {} /\ DOMAIN <<>> = {} /\ Range(todo) = {}
  BY RangeOfFew DEF Claiming, Delivered
<1>3. /\ \A n, i \in Nat : Numbered(n, i) => Numbered(n, i)'
      /\ Numbered(u.n, u.index)'
  <2>1. run.index \in Nat /\ u.index \in Nat
    BY HookTypes DEF RunState, Report
  <2> QED
    BY <1>1, <1>2, <2>1 DEF Numbered
<1>4. \A m \in Claimed' : m \in Claimed \/ m = u.n
  BY <1>1
<1>10. \A a \in Delivery : Numbered(a.src, a.n) => /\ a.src <= u.n
                                                  /\ InLine(a, wakeTaskMessageParentStep(u))
  <2>1. run.index \in Nat
    BY HookTypes DEF RunState
  <2> QED
    BY <1>1, <2>1 DEF Numbered, InLine, wakeTaskMessageParentStep, Delivery
<1>11. /\ Delivered \subseteq Delivery /\ Range(run.messages) \subseteq Report
       /\ Range(progress) \subseteq Delivery
       /\ \A a \in Delivery : a.src \in Nat /\ a.n \in Nat
       /\ \A m \in Report : m.n \in Nat /\ m.index \in Nat
  BY FlowTypes DEF Delivered, Delivery, Report
<1>5. ASSUME NEW x, todo' = <<x>>, Speaks(x), x.d.src = u.n, x.d.n = u.index,
             MessageStep(x) => run.acked /\ x.d = wakeTaskMessageParentStep(u), ProgressStep(x) => ~MessageStep(x) /\ x.d.kind = "update",
             run'.messages = run.messages
      PROVE  FlowInv'
  <2>1. Range(todo') = {x} /\ DOMAIN todo' = {1} /\ todo'[1] = x
    BY <1>5, RangeOfFew
  <2>2. NumberInv'
    <3>1. \A y \in Range(todo') :
            /\ MessageStep(y) => Numbered(y.d.src, y.d.n)'
            /\ ProgressStep(y) => y.d.src \in Heard' /\ y.d.kind = "update" /\ todo' = <<y>>
      BY <1>1, <1>3, <1>5, <2>1
    <3> QED
      BY <1>1, <1>2, <1>3, <1>5, <1>11, <3>1 DEF FlowInv, NumberInv
  <2>3. LineInv'
    <3>1. \A a \in Delivered : IsMessage(a) => InLine(a, wakeTaskMessageParentStep(u))
      BY <1>10, <1>11 DEF FlowInv, NumberInv
    <3>2. \A a \in Range(progress) : a.src <= u.n
      BY <1>1 DEF FlowInv, NumberInv
    <3>3. \A i, j \in DOMAIN todo' : ~(i < j)
      BY <2>1
    <3> QED
      BY <1>2, <1>5, <2>1, <3>1, <3>2, <3>3 DEF FlowInv, LineInv, Ordered
  <2>4. /\ \A n : Placed(n) => Placed(n)'
        /\ Placed(u.n)'
    BY <1>2, <1>5, <2>1 DEF Placed
  <2> QED
    BY <1>2, <1>4, <2>2, <2>3, <2>4 DEF FlowInv, CoverInv
<1>6. CASE todo' = <<Step("progress", [kind |-> "update", n |-> u.index, src |-> u.n])>>
           /\ run'.messages = run.messages
  <2> DEFINE x == Step("progress", [kind |-> "update", n |-> u.index, src |-> u.n])
  <2>1. /\ Speaks(x) /\ x.d.src = u.n /\ x.d.n = u.index /\ ~MessageStep(x) /\ x.d.kind = "update"
        /\ todo' = <<x>>
    BY <1>6 DEF Step, Speaks, ProgressStep, MessageStep
  <2> HIDE DEF x
  <2> QED
    BY <1>5, <1>6, <2>1
<1>7. CASE todo' = <<Wake(wakeTaskMessageParentStep(u))>> /\ run.acked /\ run'.messages = run.messages
  BY <1>5, <1>7, MessageWake
<1>8. CASE todo' = <<>> /\ ~run.acked /\ run'.messages = Append(run.messages, u)
  <2>1. run.messages \in Seq(Report)
    BY FlowTypes
  <2>2. Range(run'.messages) = Range(run.messages) \cup {u}
    BY <1>8, <2>1, RangeOfAppend
  <2>3. NumberInv'
    BY <1>1, <1>2, <1>3, <1>8, <1>11, <2>2 DEF FlowInv, NumberInv
  <2> DEFINE D(m) == wakeTaskMessageParentStep(m)
  <2>4. \A m \in Range(run.messages) : InLine(D(m), D(u))
    <3>1. ASSUME NEW m \in Range(run.messages)
          PROVE  D(m) \in Delivery /\ D(m).src = m.n /\ D(m).n = m.index
      BY <1>11 DEF wakeTaskMessageParentStep, Delivery, Report
    <3> HIDE DEF D
    <3>2. \A m \in Range(run.messages) : Numbered(m.n, m.index)
      BY DEF FlowInv, NumberInv
    <3> QED
      BY <1>10, <3>1, <3>2 DEF D
  <2> HIDE DEF D
  <2>5. \A i, j \in DOMAIN run'.messages : i < j => InLine(D(run'.messages[i]), D(run'.messages[j]))
    <3>1. /\ DOMAIN run.messages = 1..Len(run.messages) /\ Len(run.messages) \in Nat
          /\ DOMAIN run'.messages = 1..(Len(run.messages) + 1)
          /\ (\A i \in 1..Len(run.messages) : run'.messages[i] = run.messages[i])
          /\ run'.messages[Len(run.messages) + 1] = u
      BY <1>8, <2>1, Appended
    <3>2. \A i \in 1..Len(run.messages) : InLine(D(run.messages[i]), D(u))
      BY <2>4, <3>1 DEF Range
    <3>3. \A i, j \in 1..Len(run.messages) : i < j => InLine(D(run.messages[i]), D(run.messages[j]))
      BY <3>1 DEF FlowInv, LineInv, D
    <3>4. ASSUME NEW i \in 1..(Len(run.messages) + 1), NEW j \in 1..(Len(run.messages) + 1),
                 i < j
          PROVE  InLine(D(run'.messages[i]), D(run'.messages[j]))
      <4>1. CASE j = Len(run.messages) + 1
        BY <3>1, <3>2, <3>4, <4>1
      <4>2. CASE j \in 1..Len(run.messages)
        BY <3>1, <3>3, <3>4, <4>2
      <4> QED
        BY <3>1, <3>4, <4>1, <4>2
    <3> QED
      BY <3>1, <3>4
  <2>6. LineInv'
    BY <1>2, <1>8, <2>5 DEF FlowInv, LineInv, Ordered, D
  <2>7. /\ \A n : Placed(n) => Placed(n)'
        /\ Placed(u.n)'
    BY <1>2, <1>8, <2>2 DEF Placed
  <2> QED
    BY <1>2, <1>4, <2>3, <2>6, <2>7 DEF FlowInv, CoverInv
<1>9. CASE todo' = <<>> /\ Lost /\ run'.messages = run.messages
  <2>1. NumberInv'
    BY <1>1, <1>2, <1>3, <1>9, <1>11 DEF FlowInv, NumberInv
  <2>2. LineInv'
    BY <1>2, <1>9 DEF FlowInv, LineInv, Ordered
  <2> QED
    BY <1>2, <1>9, <2>1, <2>2 DEF FlowInv, CoverInv
<1> QED
  BY <1>1, <1>6, <1>7, <1>8, <1>9

\* A step in hand is performed: nothing is said before it.
LEMMA HeadSteps ==
  ASSUME TypeOK, todo # <<>>
  PROVE  /\ Current \in DurableStep /\ Current \in Range(todo)
         /\ Range(todo) = {Current} \cup Range(Tail(todo))
         /\ \A x \in Range(Tail(todo)) : x \in Range(todo) /\ \E k \in DOMAIN todo : 1 < k /\ todo[k] = x
         /\ 1 \in DOMAIN todo /\ todo[1] = Current
         /\ \A i, j \in DOMAIN Tail(todo) :
              /\ i + 1 \in DOMAIN todo /\ Tail(todo)[i] = todo[i + 1]
              /\ j + 1 \in DOMAIN todo /\ Tail(todo)[j] = todo[j + 1]
              /\ i < j => i + 1 < j + 1
<1>1. todo \in Seq(DurableStep)
  BY DEF TypeOK
<1>2. /\ DOMAIN todo = 1..Len(todo) /\ DOMAIN Tail(todo) = 1..(Len(todo) - 1)
      /\ Len(todo) \in Nat \ {0} /\ Head(todo) \in DurableStep
      /\ Head(todo) = todo[1] /\ \A i \in 1..(Len(todo) - 1) : Tail(todo)[i] = todo[i + 1]
  BY <1>1, Shifted
<1>3. Range(todo) = {Current} \cup Range(Tail(todo))
  BY <1>1, RangeOfTail DEF Current
<1>4. \A i \in 1..(Len(todo) - 1) : i + 1 \in 1..Len(todo) /\ 1 < i + 1
  BY <1>2
<1>5. \A x \in Range(Tail(todo)) : \E k \in DOMAIN todo : 1 < k /\ todo[k] = x
  BY <1>2, <1>4 DEF Range
<1> QED
  BY <1>2, <1>3, <1>4, <1>5 DEF Current

\* Less in hand, nothing of what is gone a report: as if nobody had spoken.
LEMMA PassingFlows ==
  ASSUME TypeOK, FlowInv, todo # <<>>, ~Speaks(Current), todo' \in {todo, Tail(todo)},
         UNCHANGED <<task, told, progress>>, ClaimsKept,
         inbox' = inbox \/ \E d \in Delivery : ~IsMessage(d) /\ inbox' = Append(inbox, d),
         run'.messages = run.messages, run'.acked = run.acked, Lost => Lost'
  PROVE  FlowInv'
<1>1. CASE todo' = todo
  BY <1>1, StayingFlows DEF Staying
<1>2. CASE todo' = Tail(todo)
  <2>1. /\ \A d : IsMessage(d) => (d \in Range(inbox') <=> d \in Range(inbox))
        /\ \A i, j \in DOMAIN inbox' : i < j /\ IsMessage(inbox'[i]) /\ IsMessage(inbox'[j])
             => /\ i \in DOMAIN inbox /\ j \in DOMAIN inbox
                /\ inbox'[i] = inbox[i] /\ inbox'[j] = inbox[j]
    BY QuietInbox
  <2>2. \A d : IsMessage(d) => (d \in Delivered' <=> d \in Delivered)
    BY <2>1 DEF Delivered
  <2>3. (\A n, i : Numbered(n, i) => Numbered(n, i)') /\ Claimed' \subseteq Claimed /\ Heard \subseteq Heard'
    BY DEF Numbered, ClaimsKept
  <2>4. /\ Current \in Range(todo) /\ Range(todo) = {Current} \cup Range(todo')
        /\ \A i, j \in DOMAIN todo' :
              /\ i + 1 \in DOMAIN todo /\ todo'[i] = todo[i + 1]
              /\ j + 1 \in DOMAIN todo /\ todo'[j] = todo[j + 1]
              /\ i < j => i + 1 < j + 1
    BY <1>2, HeadSteps
  <2>5. \A x \in Range(todo') : ~ProgressStep(x)
    <3> SUFFICES ASSUME NEW x \in Range(todo'), ProgressStep(x) PROVE FALSE
      OBVIOUS
    <3>1. todo = <<x>>
      BY <2>4 DEF FlowInv, NumberInv
    <3>2. Current = x
      BY <3>1 DEF Current
    <3> QED
      BY <3>2 DEF Speaks
  <2>6. NumberInv'
    BY <2>2, <2>3, <2>4, <2>5 DEF FlowInv, NumberInv
  <2>7. LineInv'
    <3>1. \A i, j \in DOMAIN todo' :
            i < j /\ MessageStep(todo'[i]) /\ MessageStep(todo'[j]) => InLine(todo'[i].d, todo'[j].d)
      BY <2>4 DEF FlowInv, LineInv
    <3>2. \A a \in Delivered', x \in Range(todo') : IsMessage(a) /\ MessageStep(x) => InLine(a, x.d)
      BY <2>2, <2>4 DEF FlowInv, LineInv
    <3> QED
      BY <2>1, <2>2, <2>5, <3>1, <3>2 DEF FlowInv, LineInv, Ordered
  <2>8. \A n : Placed(n) => Placed(n)'
    BY <2>2, <2>4 DEF Placed
  <2> QED
    BY <2>3, <2>6, <2>7, <2>8 DEF FlowInv, CoverInv
<1> QED
  BY <1>1, <1>2

\* An update reaches the progress stream, perhaps not for the first time.
LEMMA ProgressFlows ==
  ASSUME TypeOK, FlowInv, AppendProgress, ClaimsKept
  PROVE  FlowInv'
<1> DEFINE d == Current.d
<1>1. /\ todo # <<>> /\ ProgressStep(Current) /\ progress' = Append(progress, d)
      /\ todo' \in {todo, Tail(todo)} /\ UNCHANGED <<task, told, inbox, run>> /\ Delivered' = Delivered
  BY DEF AppendProgress, DoneOrAgain, Performs, ProgressStep, Delivered
<1>2. /\ Current \in Range(todo) /\ d \in Delivery /\ progress \in Seq(Delivery)
  BY <1>1, HeadSteps, FlowTypes DEF DurableStep
<1>3. /\ d.src \in Heard /\ d.kind = "update" /\ todo = <<Current>>
  BY <1>1, <1>2 DEF FlowInv, NumberInv
<1>4. /\ todo' = todo \/ (todo' = <<>> /\ Range(todo') = {} /\ DOMAIN todo' = {})
      /\ Range(todo) = {Current}
  <2>1. Tail(<<Current>>) = <<>> /\ DOMAIN <<>> = {}
    OBVIOUS
  <2>2. todo' = todo \/ todo' = <<>>
    BY <1>1, <1>3, <2>1
  <2> QED
    BY <1>3, <2>1, <2>2, RangeOfFew
<1>5. Range(progress') = Range(progress) \cup {d}
  BY <1>1, <1>2, RangeOfAppend
<1>6. (\A n, i : Numbered(n, i) => Numbered(n, i)') /\ Claimed' \subseteq Claimed /\ Heard \subseteq Heard'
  BY <1>1 DEF Numbered, ClaimsKept
<1>7. NumberInv'
  BY <1>1, <1>3, <1>4, <1>5, <1>6 DEF FlowInv, NumberInv
<1>8. Ordered("update", progress')
  <2>1. /\ DOMAIN progress = 1..Len(progress) /\ Len(progress) \in Nat
        /\ DOMAIN progress' = 1..(Len(progress) + 1)
        /\ (\A i \in 1..Len(progress) : progress'[i] = progress[i])
        /\ progress'[Len(progress) + 1] = d
    BY <1>1, <1>2, Appended
  <2>2. \A i \in 1..Len(progress) : progress[i].src <= d.src
    BY <1>1, <1>2, <2>1 DEF FlowInv, LineInv, Range
  <2>3. Ordered("update", progress)
    BY DEF FlowInv, LineInv
  <2> HIDE DEF d
  <2> QED
    BY <2>1, <2>2, <2>3 DEF Ordered
<1>9. \A a \in Range(progress'), x \in Range(todo') : ProgressStep(x) => a.src <= x.d.src
  <2>1. d.src <= d.src
    BY <1>2 DEF Delivery
  <2> QED
    BY <1>2, <1>4, <1>5, <2>1 DEF FlowInv, LineInv
<1>10. LineInv'
  BY <1>1, <1>4, <1>8, <1>9 DEF FlowInv, LineInv
<1>11. \A n : Placed(n) => Placed(n)'
  BY <1>1, <1>4, <1>5 DEF Placed
<1> QED
  BY <1>1, <1>6, <1>7, <1>10, <1>11 DEF FlowInv, CoverInv, Lost

\* A message reaches the parent's inbox, perhaps not for the first time.
LEMMA MessageFlows ==
  ASSUME IInv, FlowInv, WakeParent, IsMessage(Current.d), ClaimsKept
  PROVE  FlowInv'
<1> DEFINE d == Current.d
<1>1. /\ todo # <<>> /\ MessageStep(Current) /\ ~ProgressStep(Current)
      /\ inbox' = Append(inbox, d)
      /\ todo' \in {todo, Tail(todo)} /\ UNCHANGED <<task, told, progress, run>>
  BY DEF WakeParent, DoneOrAgain, Performs, MessageStep, ProgressStep
<1>2. TypeOK
  BY DEF IInv
<1>3. /\ Current \in Range(todo) /\ d \in Delivery /\ inbox \in Seq(Delivery)
      /\ Range(todo') \subseteq Range(todo) /\ Range(todo) = {Current} \cup Range(Tail(todo))
  BY <1>1, <1>2, HeadSteps, FlowTypes DEF DurableStep
<1>4. run.acked
  BY <1>1, <1>3 DEF IInv, TodoInv, StepOK, MessageStep
<1>5. Range(inbox') = Range(inbox) \cup {d} /\ Delivered' = Delivered \cup {d}
  <2>1. Range(inbox') = Range(inbox) \cup {d}
    BY <1>1, <1>3, RangeOfAppend
  <2> QED
    BY <1>1, <2>1 DEF Delivered
<1>6. (\A n, i : Numbered(n, i) => Numbered(n, i)') /\ Claimed' \subseteq Claimed /\ Heard \subseteq Heard'
  BY <1>1 DEF Numbered, ClaimsKept
<1>7. \A x \in Range(todo) : ~ProgressStep(x)
  <2> SUFFICES ASSUME NEW x \in Range(todo), ProgressStep(x) PROVE FALSE
    OBVIOUS
  <2>1. todo = <<x>>
    BY DEF FlowInv, NumberInv
  <2>2. Current = x
    BY <2>1 DEF Current
  <2> QED
    BY <1>1, <2>2
<1>8. NumberInv'
  BY <1>1, <1>3, <1>5, <1>6, <1>7 DEF FlowInv, NumberInv
<1>9. \A i, j \in DOMAIN inbox' :
        i < j /\ IsMessage(inbox'[i]) /\ IsMessage(inbox'[j]) => InLine(inbox'[i], inbox'[j])
  <2>1. /\ DOMAIN inbox = 1..Len(inbox) /\ Len(inbox) \in Nat
        /\ DOMAIN inbox' = 1..(Len(inbox) + 1)
        /\ (\A i \in 1..Len(inbox) : inbox'[i] = inbox[i])
        /\ inbox'[Len(inbox) + 1] = d
    BY <1>1, <1>3, Appended
  <2>2. \A i \in 1..Len(inbox) : IsMessage(inbox[i]) => InLine(inbox[i], d)
    BY <1>1, <1>3, <2>1 DEF FlowInv, LineInv, Delivered, Range
  <2> HIDE DEF d
  <2> QED
    BY <2>1, <2>2 DEF FlowInv, LineInv
<1>10. \A a \in Range(told), b \in Range(inbox') : IsMessage(a) /\ IsMessage(b) => InLine(a, b)
  BY <1>1, <1>3, <1>5 DEF FlowInv, LineInv, Delivered
<1>11. \A a \in Delivered', x \in Range(todo') : IsMessage(a) /\ MessageStep(x) => InLine(a, x.d)
  <2>1. \A x \in Range(todo) : MessageStep(x) => InLine(d, x.d)
    <3>1. \A x \in Range(Tail(todo)) : \E k \in DOMAIN todo : 1 < k /\ todo[k] = x
      BY <1>1, <1>2, HeadSteps
    <3>2. 1 \in DOMAIN todo /\ todo[1] = Current
      BY <1>1, <1>2, HeadSteps
    <3>3. \A x \in Range(Tail(todo)) : MessageStep(x) => InLine(d, x.d)
      BY <1>1, <3>1, <3>2 DEF FlowInv, LineInv
    <3>4. InLine(d, d)
      BY <1>3 DEF InLine, Delivery
    <3> QED
      BY <1>3, <3>3, <3>4
  <2> QED
    BY <1>3, <1>5, <2>1 DEF FlowInv, LineInv
<1>12. \A i, j \in DOMAIN todo' :
         i < j /\ MessageStep(todo'[i]) /\ MessageStep(todo'[j]) => InLine(todo'[i].d, todo'[j].d)
  <2>1. CASE todo' = todo
    BY <2>1 DEF FlowInv, LineInv
  <2>2. CASE todo' = Tail(todo)
    BY <1>1, <1>2, <2>2, HeadSteps DEF FlowInv, LineInv
  <2> QED
    BY <1>1, <2>1, <2>2
<1>13. LineInv'
  BY <1>1, <1>3, <1>4, <1>7, <1>9, <1>10, <1>11, <1>12 DEF FlowInv, LineInv
<1>14. \A n : Placed(n) => Placed(n)'
  BY <1>1, <1>3, <1>5 DEF Placed
<1> QED
  BY <1>1, <1>6, <1>8, <1>13, <1>14 DEF FlowInv, CoverInv, Lost

\* The parent takes a delivery: a message told before is not told again.
LEMMA ReceivingFlows ==
  ASSUME TypeOK, FlowInv, ParentReceives, ClaimsKept
  PROVE  FlowInv'
<1> DEFINE d == Head(inbox)
           fresh == taskDeliveryId(d) \notin Seen
<1>1. /\ inbox # <<>> /\ inbox' = Tail(inbox) /\ told' = IF fresh THEN Append(told, d) ELSE told
      /\ UNCHANGED <<task, run, todo, progress>>
  BY DEF ParentReceives
<1>2. /\ inbox \in Seq(Delivery) /\ told \in Seq(Delivery) /\ d \in Delivery
      /\ Range(inbox) = {d} \cup Range(inbox')
  <2>1. inbox \in Seq(Delivery) /\ told \in Seq(Delivery)
    BY FlowTypes
  <2> QED
    BY <1>1, <2>1, Shifted, RangeOfTail
<1>3. (\A n, i : Numbered(n, i) => Numbered(n, i)') /\ Claimed' \subseteq Claimed /\ Heard \subseteq Heard'
  BY <1>1 DEF Numbered, ClaimsKept
<1>4. /\ IsMessage(d) => Numbered(d.src, d.n)
      /\ \A a \in Range(told) : IsMessage(a) /\ IsMessage(d) => InLine(a, d)
      /\ \A b \in Range(inbox') : IsMessage(b) /\ IsMessage(d) => InLine(d, b)
  <2>1. IsMessage(d) => Numbered(d.src, d.n)
    BY <1>2 DEF FlowInv, NumberInv, Delivered
  <2>2. \A a \in Range(told) : IsMessage(a) /\ IsMessage(d) => InLine(a, d)
    BY <1>2 DEF FlowInv, LineInv
  <2>3. \A i \in DOMAIN Tail(inbox) : 1 \in DOMAIN inbox /\ inbox[1] = d
            /\ i + 1 \in DOMAIN inbox /\ 1 < i + 1 /\ Tail(inbox)[i] = inbox[i + 1]
    BY <1>1, <1>2, Shifted
  <2>4. \A b \in Range(inbox') : IsMessage(b) /\ IsMessage(d) => InLine(d, b)
    BY <1>1, <2>3 DEF FlowInv, LineInv, Range
  <2> QED
    BY <2>1, <2>2, <2>4
<1>5. \A i, j \in DOMAIN inbox' :
        i < j /\ IsMessage(inbox'[i]) /\ IsMessage(inbox'[j]) => InLine(inbox'[i], inbox'[j])
  <2>1. \A i \in DOMAIN Tail(inbox) : i + 1 \in DOMAIN inbox /\ Tail(inbox)[i] = inbox[i + 1]
    BY <1>1, <1>2, Shifted
  <2>2. \A i, j \in DOMAIN Tail(inbox) : i < j => i + 1 < j + 1
    BY <1>1, <1>2, Shifted
  <2> QED
    BY <1>1, <2>1, <2>2 DEF FlowInv, LineInv
<1>6. ASSUME ~fresh, IsMessage(d)
      PROVE  \E a \in Range(told) : IsMessage(a) /\ a.src = d.src
  <2>1. PICK i \in DOMAIN told : taskDeliveryId(told[i]) = taskDeliveryId(d)
    BY <1>6 DEF Seen
  <2>2. told[i] \in Range(told) /\ told[i].kind = d.kind /\ told[i].n = d.n
    BY <2>1 DEF taskDeliveryId, Range
  <2>3. InLine(told[i], d)
    BY <1>4, <1>6, <2>2 DEF IsMessage
  <2> QED
    BY <1>6, <2>2, <2>3 DEF IsMessage, InLine
<1>7. /\ Ordered("message", told')
      /\ \A a \in Range(told'), b \in Range(inbox') : IsMessage(a) /\ IsMessage(b) => InLine(a, b)
      /\ Delivered' \subseteq Delivered
      /\ \A n : (\E e \in Delivered : IsMessage(e) /\ e.src = n)
                  => \E e \in Delivered' : IsMessage(e) /\ e.src = n
  <2>1. CASE fresh
    <3>1. Range(told') = Range(told) \cup {d}
      BY <1>1, <1>2, <2>1, RangeOfAppend
    <3>2. /\ DOMAIN told = 1..Len(told) /\ Len(told) \in Nat /\ DOMAIN told' = 1..(Len(told) + 1)
          /\ (\A i \in 1..Len(told) : told'[i] = told[i]) /\ told'[Len(told) + 1] = d
      BY <1>1, <1>2, <2>1, Appended
    <3>3. \A i \in 1..Len(told) : IsMessage(told[i]) /\ IsMessage(d) => told[i].src <= d.src
      BY <1>4, <2>1, <3>2 DEF Range, InLine
    <3>4. Ordered("message", told)
      BY DEF FlowInv, LineInv
    <3> HIDE DEF d, fresh
    <3>5. Ordered("message", told')
      BY <3>2, <3>3, <3>4 DEF Ordered, IsMessage
    <3>6. Delivered' = Delivered
      BY <1>2, <3>1 DEF Delivered
    <3>7. \A a \in Range(told'), b \in Range(inbox') : IsMessage(a) /\ IsMessage(b) => InLine(a, b)
      BY <1>2, <1>4, <3>1 DEF FlowInv, LineInv
    <3> QED
      BY <3>5, <3>6, <3>7
  <2>2. CASE ~fresh
    <3>1. told' = told /\ Range(inbox') \subseteq Range(inbox)
      BY <1>1, <1>2, <2>2
    <3>2. \A e \in Delivered : e \in Delivered' \/ e = d
      BY <1>2, <3>1 DEF Delivered
    <3>3. \A n : (\E e \in Delivered : IsMessage(e) /\ e.src = n)
                  => \E e \in Delivered' : IsMessage(e) /\ e.src = n
      BY <1>6, <2>2, <3>1, <3>2 DEF Delivered
    <3> QED
      BY <3>1, <3>3 DEF FlowInv, LineInv, Delivered
  <2> QED
    BY <2>1, <2>2
<1> HIDE DEF d, fresh
<1>8. NumberInv'
  BY <1>1, <1>3, <1>7 DEF FlowInv, NumberInv
<1>9. LineInv'
  BY <1>1, <1>5, <1>7 DEF FlowInv, LineInv
<1>10. \A n : Placed(n) => Placed(n)'
  BY <1>1, <1>7 DEF Placed
<1> QED
  BY <1>1, <1>3, <1>8, <1>9, <1>10 DEF FlowInv, CoverInv, Lost

-----------------------------------------------------------------------------
(* What a step does to the hooks.                                          *)
\* The hooks hold the same reports.
HooksKept ==
  /\ UNCHANGED task /\ body'.sent = body.sent /\ parent'.sent = parent.sent
  /\ parent'.settled = parent.settled
  /\ Waiting(workflow') = Waiting(workflow) /\ Waiting(commands') = Waiting(commands)
  /\ Rising(workflow') /\ Rising(commands') /\ Counted(workflow', run.index, body.again)
  /\ ~task.workflow => workflow' = <<>>
  /\ CompleteLast(commands')
  /\ \A c \in Range(commands') : c.kind = "complete" => c \in Range(commands)

\* One more entry, or one less at the front, that is no report and no completion.
LEMMA CommandsKept ==
  ASSUME TypeOK, CompleteLast(commands), Rising(commands),
         \/ commands' = commands
         \/ \E c \in [kind : CommandKinds, n : Nat] :
              ~IsReport(c) /\ c.kind # "complete" /\ commands' = Append(commands, c)
         \/ commands # <<>> /\ ~IsReport(Head(commands)) /\ commands' = Tail(commands)
  PROVE  /\ Waiting(commands') = Waiting(commands) /\ Rising(commands') /\ CompleteLast(commands')
         /\ \A c \in Range(commands') : c.kind = "complete" => c \in Range(commands)
<1> DEFINE C == [kind : CommandKinds, n : Nat]
<1>1. commands \in Seq(C)
  BY HookTypes
<1>2. CASE commands' = commands
  BY <1>2
<1>3. ASSUME NEW c \in C, ~IsReport(c), c.kind # "complete", commands' = Append(commands, c)
      PROVE  /\ Waiting(commands') = Waiting(commands) /\ Rising(commands') /\ CompleteLast(commands')
             /\ \A x \in Range(commands') : x.kind = "complete" => x \in Range(commands)
  <2> HIDE DEF C
  <2>1. Waiting(commands') = Waiting(commands) /\ Rising(commands')
    BY <1>1, <1>3, HookGrows
  <2>2. Range(commands') = Range(commands) \cup {c}
    BY <1>1, <1>3, RangeOfAppend
  <2>3. CompleteLast(commands')
    BY <1>1, <1>3, Appended DEF CompleteLast
  <2> QED
    BY <1>3, <2>1, <2>2, <2>3
<1>4. CASE commands # <<>> /\ ~IsReport(Head(commands)) /\ commands' = Tail(commands)
  <2> HIDE DEF C
  <2>1. Waiting(commands') = Waiting(commands) /\ Rising(commands')
    BY <1>1, <1>4, HookShrinks
  <2>2. Range(commands') \subseteq Range(commands)
    BY <1>1, <1>4, RangeOfTail
  <2>3. CompleteLast(commands')
    BY <1>1, <1>4, Shifted DEF CompleteLast
  <2> QED
    BY <2>1, <2>2, <2>3
<1> QED
  BY <1>2, <1>3, <1>4

\* The body's hook likewise.
LEMMA WorkflowKept ==
  ASSUME TypeOK, SourceInv,
         \/ workflow' = workflow
         \/ \E m \in Message : ~IsReport(m) /\ workflow' = Append(workflow, m)
         \/ workflow # <<>> /\ ~IsReport(Head(workflow)) /\ workflow' = Tail(workflow)
  PROVE  /\ Waiting(workflow') = Waiting(workflow) /\ Rising(workflow')
         /\ Counted(workflow', run.index, body.again)
<1>1. /\ workflow \in Seq(Message) /\ run.index \in Nat /\ body.again \in Nat
      /\ Rising(workflow) /\ Counted(workflow, run.index, body.again)
  BY HookTypes DEF SourceInv
<1>2. ASSUME NEW m \in Message, ~IsReport(m), workflow' = Append(workflow, m)
      PROVE  /\ Waiting(workflow') = Waiting(workflow) /\ Rising(workflow')
             /\ Counted(workflow', run.index, body.again)
  <2>1. body.again <= body.again
    BY <1>1
  <2>2. Waiting(Append(workflow, m)) = Waiting(workflow) /\ Rising(Append(workflow, m))
    BY <1>1, <1>2, HookGrows
  <2>3. Counted(Append(workflow, m), run.index, body.again)
    BY <1>1, <1>2, <2>1, CountGrows
  <2> QED
    BY <1>2, <2>2, <2>3
<1>3. ASSUME workflow # <<>>, ~IsReport(Head(workflow)), workflow' = Tail(workflow)
      PROVE  /\ Waiting(workflow') = Waiting(workflow) /\ Rising(workflow')
             /\ Counted(workflow', run.index, body.again)
  <2>1. Waiting(Tail(workflow)) = Waiting(workflow) /\ Rising(Tail(workflow))
    BY <1>1, <1>3, HookShrinks
  <2>2. Counted(Tail(workflow), run.index, body.again)
    BY <1>1, <1>3, CountShrinks
  <2> QED
    BY <1>3, <2>1, <2>2
<1> QED
  BY <1>1, <1>2, <1>3

\* When the hooks keep their reports and a task completes only with nothing left to
\* hear, the sources are as before.
LEMMA SourcesKept ==
  ASSUME TypeOK, SourceInv, CompleteInv, HooksKept,
         run'.index = run.index,
         run'.status = "completed" => HeardOut,
         run'.result # NoResult => run'.result = body.result /\ body.pc = "returned",
         body'.yields = body.yields, body'.again = body.again,
         body.pc = "returned" => body'.pc = "returned" /\ body'.result = body.result,
         body'.pc = "returned" => body'.result.reports = body.sent,
         \A f \in body'.flight : IsReport(f) => f \in body.flight /\ body'.pc = body.pc,
         ~task.workflow => body'.pc = "none",
         IF body'.pc = "none" THEN body'.flight = {} ELSE run'.acked,
         run'.phase = "finished" => todo' = <<>> /\ run'.acked
  PROVE  SourceInv' /\ CompleteInv' /\ ClaimsKept
<1>1. /\ Unclaimed' = Unclaimed /\ Spoken' = Spoken /\ task' = task
      /\ Waiting(workflow') = Waiting(workflow) /\ Waiting(commands') = Waiting(commands)
  BY DEF HooksKept, Unclaimed, Spoken
<1>2. ClaimsKept
  BY <1>1 DEF ClaimsKept, Claimed, Heard
<1>3. SourceInv'
  <2>1. \A f \in body'.flight : IsReport(f) => f.n = body'.sent /\ body'.pc # "returned"
    BY DEF SourceInv, HooksKept
  <2>2. /\ Rising(workflow') /\ Rising(commands') /\ Counted(workflow', run'.index, body'.again)
        /\ run'.index <= body'.sent + body'.again /\ body'.yields = body'.sent
    BY DEF SourceInv, HooksKept
  <2> QED
    BY <1>1, <2>1, <2>2 DEF SourceInv, HooksKept
<1>4. CompleteInv'
  <2>1. HeardOut => HeardOut'
    BY <1>1 DEF HeardOut, HooksKept
  <2> QED
    BY <2>1 DEF CompleteInv, HooksKept
<1> QED
  BY <1>2, <1>3, <1>4

\* The report at the front of the hook in use is the next one, and unless another
\* copy of it follows the one after it is then.
LEMMA NextReport ==
  ASSUME TypeOK, SourceInv, NEW S, NEW q \in Seq(S), q # <<>>, IsReport(Head(q)),
         Unclaimed = Waiting(q), Rising(q)
  PROVE  /\ Head(q).n \in 1..Spoken
         /\ \E k \in 0..Spoken : Waiting(Tail(q)) = (k + 1)..Spoken
         /\ \A m \in Waiting(Tail(q)) : m \in Unclaimed /\ Head(q).n <= m
         /\ \A m \in Unclaimed : m = Head(q).n \/ m \in Waiting(Tail(q))
         /\ \A m \in Heard : m <= Head(q).n
<1>1. /\ Waiting(q) = Waiting(Tail(q)) \cup {Head(q).n} /\ Spoken \in Nat
      /\ \A n \in Waiting(Tail(q)) : Head(q).n <= n
  BY HookShrinks, HookTypes
<1>2. PICK k \in 0..Spoken : Unclaimed = (k + 1)..Spoken
  BY DEF SourceInv
<1>3. Head(q).n \in (k + 1)..Spoken
  BY <1>1, <1>2
<1>4. Head(q).n = k + 1
  <2>1. k + 1 \in (k + 1)..Spoken
    BY <1>1, <1>3
  <2>2. k + 1 = Head(q).n \/ Head(q).n <= k + 1
    BY <1>1, <1>2, <2>1
  <2> QED
    BY <1>1, <1>3, <2>2
<1>5. \E j \in 0..Spoken : Waiting(Tail(q)) = (j + 1)..Spoken
  <2>1. CASE k + 1 \in Waiting(Tail(q))
    BY <1>1, <1>2, <1>4, <2>1
  <2>2. CASE k + 1 \notin Waiting(Tail(q))
    <3>1. \A n : n \in Waiting(Tail(q)) <=> n \in (k + 1)..Spoken /\ n # k + 1
      BY <1>1, <1>2, <1>4, <2>2
    <3>2. k + 1 \in 0..Spoken /\ \A n : n \in (k + 1 + 1)..Spoken <=> n \in (k + 1)..Spoken /\ n # k + 1
      BY <1>1, <1>3
    <3> QED
      BY <3>1, <3>2
  <2> QED
    BY <2>1, <2>2
<1>6. \A m \in Heard : m <= Head(q).n
  BY <1>1 DEF Heard
<1>7. Head(q).n \in 1..Spoken
  BY <1>1, <1>3
<1> QED
  BY <1>1, <1>5, <1>6, <1>7

-----------------------------------------------------------------------------
(* Every step preserves it, action by action.                              *)
\* The invariant of a task without an agent.
ReportsKept == SourceInv /\ CompleteInv /\ FlowInv

\* Nothing happens to the hooks.
LEMMA HooksSame ==
  ASSUME SourceInv, CompleteInv, UNCHANGED <<task, workflow, commands>>,
         body'.sent = body.sent, parent'.sent = parent.sent, parent'.settled = parent.settled
  PROVE  HooksKept
BY DEF HooksKept, SourceInv, CompleteInv

\* Nor to the executor.
LEMMA ExecutorSame ==
  ASSUME TypeOK, SourceInv, CompleteInv, HooksKept, UNCHANGED body,
         run'.index = run.index, run.acked => run'.acked,
         run'.status = "completed" => HeardOut,
         run'.result # NoResult => run'.result = body.result /\ body.pc = "returned",
         run'.phase = "finished" => todo' = <<>> /\ run'.acked
  PROVE  SourceInv' /\ CompleteInv' /\ ClaimsKept
<1>1. /\ body.pc = "returned" => body.result.reports = body.sent
      /\ IF body.pc = "none" THEN body.flight = {} ELSE run'.acked
      /\ ~task.workflow => body.pc = "none"
  BY DEF SourceInv
<1> QED
  BY <1>1, SourcesKept

\* Nor to the run, but for the reads and what else says nothing.
LEMMA RunSame ==
  ASSUME TypeOK, SourceInv, CompleteInv, HooksKept, UNCHANGED <<body, run, todo>>
  PROVE  SourceInv' /\ CompleteInv' /\ ClaimsKept
<1>1. /\ run.status = "completed" => HeardOut
      /\ run.result # NoResult => run.result = body.result /\ body.pc = "returned"
      /\ run.phase = "finished" => todo = <<>> /\ run.acked
  BY DEF SourceInv, CompleteInv
<1> QED
  BY <1>1, ExecutorSame

\* The body's result is applied: every report it counts has been claimed.
LEMMA SettleBodyReports ==
  ASSUME IInv, ReportsKept, SettleBody
  PROVE  ReportsKept'
<1> DEFINE r == [run EXCEPT !.settled = TRUE]
           c == [kind |-> run.result.kind, q |-> 0]
           a == ApplyCommand(r, c)
           x == IF a.run.status = "cancelled" /\ run.acked /\ ~run.rejected
                  THEN <<Wake(wakeTaskParentStep("cancelled"))>> ELSE <<>>
<1>1. /\ todo = <<>> /\ run.result # NoResult /\ run.index >= run.result.reports
      /\ run.phase = "running"
      /\ run' = [a.run EXCEPT !.result = NoResult] /\ todo' = a.steps \o x
      /\ UNCHANGED <<task, workflow, commands, body, parent, told, inbox, progress>>
  BY DEF SettleBody, AtLoopTop, ResultDue, Running, others
<1>2. /\ TypeOK /\ run \in RunState /\ task.agent \in BOOLEAN /\ NoResult \in Result
      /\ SourceInv /\ CompleteInv /\ FlowInv
  BY HookTypes DEF IInv, NoResult, Result, ReportsKept
<1>3. /\ r \in RunState /\ r.status = run.status /\ r.acked = run.acked /\ r.index = run.index
      /\ r.rejected = run.rejected /\ r.messages = run.messages /\ r.phase = run.phase
  BY <1>2 DEF RunState
<1>4. c \in Transitions /\ c.kind = run.result.kind /\ task.agent \in BOOLEAN
  BY <1>1, <1>2 DEF RunState, Result, RunInv, IInv, Transitions
<1> HIDE DEF r, c
<1>5. /\ a.run.messages = run.messages /\ a.run.index = run.index /\ a.run.acked = run.acked
      /\ a.run.rejected = run.rejected /\ a.run.phase = "running"
      /\ a.run.status = "completed" => run.status = "completed" \/ c.kind = "complete"
      /\ run.status \in {"failed", "cancelled"} => a.run.status = run.status
      /\ Quiet(a.steps)
  BY <1>1, <1>3, <1>4, CommandSpeaks
<1>6. Applicable(r, c)
  BY <1>1, <1>2 DEF Applicable, r, c, IInv, RunInv, RunState, Result
<1>7. a.run \in RunState /\ a.steps \in Seq(DurableStep)
  BY <1>3, <1>4, <1>6, ApplyCommandFacts DEF Applied
<1> HIDE DEF a
<1>8. /\ run'.messages = run.messages /\ run'.index = run.index /\ run'.acked = run.acked
      /\ run'.rejected = run.rejected /\ run'.phase = "running" /\ run'.status = a.run.status
      /\ run'.result = NoResult
  BY <1>1, <1>2, <1>5, <1>7 DEF RunState
<1>9. Quiet(todo')
  <2>1. x \in Seq(DurableStep) /\ Quiet(x)
    <3>1. Wake(wakeTaskParentStep("cancelled")) \in DurableStep
          /\ ~Speaks(Wake(wakeTaskParentStep("cancelled")))
      BY DEF Wake, Step, wakeTaskParentStep, DurableStep, Delivery, View, Statuses, TerminalStatuses,
             Speaks, MessageStep, ProgressStep, IsMessage
    <3> QED
      BY <3>1, QuietLists
  <2> HIDE DEF x
  <2> QED
    BY <1>1, <1>5, <1>7, <2>1, QuietJoined
<1>10. run'.status = "completed" => HeardOut
  <2>1. CASE run.status = "completed"
    BY <1>2, <2>1 DEF CompleteInv
  <2>2. run.result = body.result /\ body.pc = "returned" /\ body.result.reports = body.sent
        /\ task.workflow /\ parent.sent = 0
    BY <1>1, <1>2 DEF SourceInv
  <2>3. Spoken = body.sent /\ Spoken <= run.index
    BY <1>1, <1>2, <2>2, HookTypes DEF Spoken
  <2> QED
    BY <2>2, <2>3 DEF HeardOut
<1>11. HooksKept
  BY <1>1, <1>2, HooksSame
<1>12. SourceInv' /\ CompleteInv' /\ ClaimsKept
  BY <1>1, <1>2, <1>8, <1>10, <1>11, ExecutorSame
<1>13. Staying
  BY <1>1, <1>5, <1>8, <1>9, <1>12, QuietLists DEF Staying, Lost
<1> QED
  BY <1>2, <1>12, <1>13, StayingFlows DEF ReportsKept

\* The end of the loop, the reads, and the result taken.
LEMMA LoopReports ==
  ASSUME IInv, ReportsKept, Finish \/ Reading \/ ClaimBody \/ UNCHANGED vars
  PROVE  ReportsKept'
<1>1. /\ TypeOK /\ SourceInv /\ CompleteInv /\ FlowInv /\ run \in RunState
  BY HookTypes DEF IInv, ReportsKept
<1>2. UNCHANGED <<task, workflow, commands, body, parent, told, inbox, progress, todo>>
  BY GroupFrames DEF Finish, ClaimBody, vars, others
<1>3. HooksKept
  BY <1>1, <1>2, HooksSame
<1>4. /\ run'.messages = run.messages /\ run'.acked = run.acked /\ run'.status = run.status
      /\ run'.rejected = run.rejected /\ run'.index = run.index
  BY <1>1, GroupFrames DEF Finish, ClaimBody, vars, RunState
<1>5. SourceInv' /\ CompleteInv' /\ ClaimsKept
  <2>1. CASE Finish
    <3>1. todo = <<>> /\ run.acked /\ run'.result = run.result
      BY <1>1, <2>1 DEF Finish, AtLoopTop, isFinished, RunState
    <3> QED
      BY <1>1, <1>2, <1>3, <1>4, <3>1, ExecutorSame DEF SourceInv, CompleteInv
  <2>2. CASE ClaimBody
    <3>1. /\ run'.result = body.result /\ body.pc = "returned" /\ run'.phase = run.phase
      BY <1>1, <2>2 DEF ClaimBody, IInv, ReaderInv, RunState
    <3> QED
      BY <1>1, <1>2, <1>3, <1>4, <3>1, ExecutorSame DEF SourceInv, CompleteInv
  <2>3. CASE Reading \/ UNCHANGED vars
    BY <1>1, <1>2, <1>3, <2>3, RunSame, GroupFrames DEF vars
  <2> QED
    BY <2>1, <2>2, <2>3
<1>6. Staying
  BY <1>2, <1>4, <1>5 DEF Staying, Lost
<1> QED
  BY <1>1, <1>5, <1>6, StayingFlows DEF ReportsKept

\* The next report of the body, or of the tool, is taken from its hook.
LEMMA ClaimSources ==
  ASSUME TypeOK, SourceInv, CompleteInv, UNCHANGED <<task, body, parent>>,
         \/ /\ workflow # <<>> /\ workflow' = Tail(workflow) /\ commands' = commands
            /\ run'.index = run.index + 1 /\ IsReport(Head(workflow)) /\ run.status # "completed"
         \/ /\ commands # <<>> /\ commands' = Tail(commands) /\ workflow' = workflow
            /\ run'.index = run.index /\ IsReport(Head(commands)),
         run'.status = run.status, run'.result = run.result, run'.phase = "running",
         run'.acked = run.acked
  PROVE  /\ SourceInv' /\ CompleteInv' /\ run.status # "completed"
         /\ LET n == IF task.workflow THEN Head(workflow).n ELSE Head(commands).n
            IN /\ Claimed' \subseteq Claimed \cup {n} /\ Heard \subseteq Heard' /\ n \in Heard'
               /\ \A m \in Heard : m <= n
<1> DEFINE C == [kind : CommandKinds, n : Nat]
<1>1. /\ workflow \in Seq(Message) /\ commands \in Seq(C) /\ Spoken \in Nat /\ run.index \in Nat
      /\ body.again \in Nat /\ body.sent \in Nat /\ parent.sent \in Nat
  BY HookTypes
<1> HIDE DEF C
<1>2. Spoken' = Spoken
  BY DEF Spoken
<1>3. ASSUME NEW n \in 1..Spoken, NEW U, U = Unclaimed',
             \E k \in 0..Spoken : U = (k + 1)..Spoken, \A m \in U : m \in Unclaimed /\ n <= m,
             \A m \in Unclaimed : m = n \/ m \in U, \A m \in Heard : m <= n
      PROVE  /\ Claimed' \subseteq Claimed \cup {n} /\ Heard \subseteq Heard' /\ n \in Heard'
             /\ \A m \in Heard : m <= n
  BY <1>2, <1>3 DEF Claimed, Heard
<1>4. CASE workflow # <<>> /\ workflow' = Tail(workflow) /\ commands' = commands
           /\ run'.index = run.index + 1 /\ IsReport(Head(workflow)) /\ run.status # "completed"
  <2>1. /\ task.workflow /\ Waiting(commands) = {} /\ Unclaimed = Waiting(workflow)
        /\ Rising(workflow) /\ Rising(commands) /\ Counted(workflow, run.index, body.again)
        /\ parent.sent = 0
    BY <1>4 DEF SourceInv, Unclaimed
  <2> DEFINE n == Head(workflow).n
             U == Waiting(Tail(workflow))
  <2>2. /\ n \in 1..Spoken /\ (\E k \in 0..Spoken : U = (k + 1)..Spoken)
        /\ \A m \in U : m \in Unclaimed /\ n <= m
        /\ \A m \in Unclaimed : m = n \/ m \in U
        /\ \A m \in Heard : m <= n
    BY <1>1, <1>4, <2>1, NextReport
  <2>3. Rising(workflow')
    BY <1>1, <1>4, <2>1, HookShrinks
  <2>4. Counted(workflow', run'.index, body.again) /\ run.index + 1 <= n + body.again
    BY <1>1, <1>4, <2>1, CountShrinks
  <2>5. Unclaimed' = U
    BY <1>4, <2>1 DEF Unclaimed
  <2> HIDE DEF U, n
  <2>6. run'.index <= body.sent + body.again
    BY <1>1, <1>4, <2>1, <2>2, <2>4 DEF Spoken
  <2>7. SourceInv'
    BY <1>2, <1>4, <2>1, <2>2, <2>3, <2>4, <2>5, <2>6 DEF SourceInv
  <2>8. CompleteInv'
    BY <1>4 DEF CompleteInv
  <2>9. /\ Claimed' \subseteq Claimed \cup {n} /\ Heard \subseteq Heard' /\ n \in Heard'
        /\ \A m \in Heard : m <= n
    BY <1>3, <2>2, <2>5
  <2> QED
    BY <1>4, <2>1, <2>7, <2>8, <2>9 DEF n
<1>5. CASE commands # <<>> /\ commands' = Tail(commands) /\ workflow' = workflow
           /\ run'.index = run.index /\ IsReport(Head(commands))
  <2> DEFINE n == Head(commands).n
             U == Waiting(Tail(commands))
  <2>1. n \in Waiting(commands) /\ Rising(commands) /\ Rising(workflow)
    BY <1>1, <1>5, HookShrinks DEF SourceInv
  <2>2. ~task.workflow /\ workflow = <<>> /\ Unclaimed = Waiting(commands) /\ n \in Unclaimed
    BY <2>1, HookEmpty DEF SourceInv, Unclaimed
  <2>3. run.status # "completed"
    BY <2>2 DEF CompleteInv, HeardOut
  <2>4. /\ n \in 1..Spoken /\ (\E k \in 0..Spoken : U = (k + 1)..Spoken)
        /\ \A m \in U : m \in Unclaimed /\ n <= m
        /\ \A m \in Unclaimed : m = n \/ m \in U
        /\ \A m \in Heard : m <= n
    BY <1>1, <1>5, <2>1, <2>2, NextReport
  <2>5. Rising(commands') /\ Unclaimed' = U
    BY <1>1, <1>5, <2>1, <2>2, HookShrinks, HookEmpty DEF Unclaimed
  <2>6. CompleteLast(commands') /\ Range(commands') \subseteq Range(commands)
    <3>1. Range(commands') \subseteq Range(commands)
      BY <1>1, <1>5, RangeOfTail
    <3> QED
      BY <1>1, <1>5, <3>1, Shifted DEF CompleteLast, CompleteInv
  <2> HIDE DEF U, n
  <2>7. SourceInv'
    BY <1>2, <1>5, <2>2, <2>4, <2>5 DEF SourceInv
  <2>8. CompleteInv'
    BY <1>5, <2>3, <2>6 DEF CompleteInv
  <2>9. /\ Claimed' \subseteq Claimed \cup {n} /\ Heard \subseteq Heard' /\ n \in Heard'
        /\ \A m \in Heard : m <= n
    BY <1>3, <2>4, <2>5
  <2> QED
    BY <2>2, <2>3, <2>7, <2>8, <2>9 DEF n
<1> QED
  BY <1>4, <1>5

\* What handleUpdate and handleMessage do with a report of a task without an agent.
LEMMA HandlersSpeak ==
  ASSUME NEW r \in RunState, task.kind # "subagent", r.status # "completed", NEW u \in Report
  PROVE  /\ LET h == handleUpdate(r, u)
            IN /\ h.run = r
               /\ h.steps = <<Step("progress", [kind |-> "update", n |-> u.index, src |-> u.n])>>
         /\ LET h == handleMessage(r, u)
            IN /\ \/ h.steps = <<Wake(wakeTaskMessageParentStep(u))>> /\ r.acked /\ h.run = r
                  \/ /\ h.steps = <<>> /\ ~r.acked
                     /\ h.run = [r EXCEPT !.messages = Append(r.messages, u)]
                  \/ /\ h.steps = <<>> /\ h.run = r
                     /\ r.status \in {"failed", "cancelled"} \/ r.rejected
BY DEF handleUpdate, handleMessage, isTerminalTaskStatus, TerminalStatuses

\* The run claims what the body sent.
LEMMA ClaimWorkflowReports ==
  ASSUME IInv, ~task.agent, ReportsKept, ClaimWorkflow
  PROVE  ReportsKept'
<1> DEFINE m == Head(workflow)
           counted == [run EXCEPT !.index = @ + 1]
           report == [n |-> m.n, index |-> run.index]
<1>1. /\ Running /\ todo = <<>> /\ workflow # <<>> /\ workflow' = Tail(workflow)
      /\ run.phase = "running"
      /\ UNCHANGED <<task, commands, body, parent, told, inbox, progress>>
  BY RacingFacts DEF ClaimWorkflow, others, IInv, ReaderInv, Running
<1>2. /\ TypeOK /\ run \in RunState /\ task.agent \in BOOLEAN /\ task.kind # "subagent"
      /\ SourceInv /\ CompleteInv /\ FlowInv /\ Delivered' = Delivered
  BY <1>1, HookTypes, TaskConstants DEF IInv, ReportsKept, TypeOK, Delivered
<1>3. /\ m.kind \in {"update", "message", "owner", "ask"} /\ m.n \in Nat
      /\ task.workflow
  <2>1. m \in Message
    BY <1>1, <1>2, HookTypes, Shifted
  <2> QED
    BY <1>1, <1>2, <2>1 DEF SourceInv, Message
<1>4. CASE IsReport(m)
  <2>1. /\ counted \in RunState /\ counted.index = run.index + 1 /\ counted.status = run.status
        /\ counted.messages = run.messages /\ counted.acked = run.acked /\ counted.phase = run.phase
        /\ counted.rejected = run.rejected /\ counted.result = run.result
        /\ report \in Report /\ report.n = m.n /\ report.index = run.index
        /\ run.messages \in Seq(Report)
    <3>1. run.index \in Nat /\ run.index + 1 \in Nat /\ run.messages \in Seq(Report)
      BY <1>2 DEF RunState
    <3>2. report \in Report /\ report.n = m.n /\ report.index = run.index
      BY <1>3, <3>1 DEF Report
    <3>3. counted = [run EXCEPT !.index = run.index + 1]
      OBVIOUS
    <3> HIDE DEF report, counted
    <3> QED
      BY <1>2, <3>1, <3>2, <3>3 DEF RunState
  <2> HIDE DEF counted, report
  <2> DEFINE h == IF m.kind = "update" THEN handleUpdate(counted, report)
                                       ELSE handleMessage(counted, report)
  <2>2. run' = h.run /\ todo' = h.steps
    BY <1>4 DEF ClaimWorkflow, IsReport, counted, report
  <2>3. run.status # "completed"
    <3>1. ~isFinished(run)
      BY DEF ClaimWorkflow, Racing
    <3>2. run.status = "completed" => run.settled
      BY DEF IInv, RunInv, isTerminalTaskStatus, TerminalStatuses
    <3>3. run.status = "completed" => run.acked
      BY <1>2, <1>3 DEF CompleteInv, HeardOut, SourceInv
    <3> QED
      BY <3>1, <3>2, <3>3 DEF isFinished, isTerminalTaskStatus, TerminalStatuses
  <2>4. \/ /\ todo' = <<Step("progress", [kind |-> "update", n |-> report.index, src |-> report.n])>>
           /\ run' = counted
        \/ todo' = <<Wake(wakeTaskMessageParentStep(report))>> /\ run.acked /\ run' = counted
        \/ /\ todo' = <<>> /\ ~run.acked
           /\ run' = [counted EXCEPT !.messages = Append(run.messages, report)]
        \/ todo' = <<>> /\ Lost /\ run' = counted
    <3>1. /\ LET u == handleUpdate(counted, report)
             IN /\ u.run = counted
                /\ u.steps = <<Step("progress", [kind |-> "update", n |-> report.index, src |-> report.n])>>
          /\ LET u == handleMessage(counted, report)
             IN \/ u.steps = <<Wake(wakeTaskMessageParentStep(report))>> /\ counted.acked /\ u.run = counted
                \/ /\ u.steps = <<>> /\ ~counted.acked
                   /\ u.run = [counted EXCEPT !.messages = Append(counted.messages, report)]
                \/ /\ u.steps = <<>> /\ u.run = counted
                   /\ counted.status \in {"failed", "cancelled"} \/ counted.rejected
      BY <1>2, <2>1, <2>3, HandlersSpeak
    <3>2. CASE m.kind = "update"
      BY <2>2, <3>1, <3>2
    <3>3. CASE m.kind # "update"
      BY <2>1, <2>2, <3>1, <3>3 DEF Lost
    <3> QED
      BY <3>2, <3>3
  <2>5. /\ run'.index = run.index + 1 /\ run'.status = run.status /\ run'.result = run.result
        /\ run'.phase = "running" /\ run'.acked = run.acked /\ run'.rejected = run.rejected
        /\ \/ run' = counted /\ run'.messages = run.messages
           \/ /\ run' = [counted EXCEPT !.messages = Append(run.messages, report)]
              /\ run'.messages = Append(run.messages, report)
    BY <1>1, <2>1, <2>4 DEF RunState
  <2>6. /\ SourceInv' /\ CompleteInv'
        /\ Claimed' \subseteq Claimed \cup {m.n} /\ Heard \subseteq Heard' /\ m.n \in Heard'
        /\ \A n \in Heard : n <= m.n
    BY <1>1, <1>2, <1>3, <1>4, <2>3, <2>5, ClaimSources
  <2>7. \/ /\ todo' = <<Step("progress", [kind |-> "update", n |-> report.index, src |-> report.n])>>
           /\ run'.messages = run.messages
        \/ todo' = <<Wake(wakeTaskMessageParentStep(report))>> /\ run.acked
           /\ run'.messages = run.messages
        \/ todo' = <<>> /\ ~run.acked /\ run'.messages = Append(run.messages, report)
        \/ todo' = <<>> /\ Lost /\ run'.messages = run.messages
    BY <2>1, <2>4 DEF RunState
  <2>8. Claiming
    BY <1>1, <1>3, <2>1, <2>5, <2>6, <2>7 DEF Claiming, Lost
  <2> QED
    BY <1>2, <2>6, <2>8, ClaimingFlows DEF ReportsKept
<1>5. CASE ~IsReport(m)
  <2> DEFINE r == [run EXCEPT !.ask = m.n]
             c == [kind |-> "require-input", q |-> m.n]
             a == IF m.kind = "owner" THEN handleOwnerRequest(run, m.n) ELSE ApplyCommand(r, c)
  <2>1. run' = a.run /\ todo' = a.steps
    BY <1>3, <1>5 DEF ClaimWorkflow, IsReport
  <2>2. /\ a.run.messages = run.messages /\ a.run.index = run.index /\ a.run.acked = run.acked
        /\ a.run.rejected = run.rejected /\ a.run.result = run.result /\ a.run.phase = run.phase
        /\ a.run.status = "completed" => run.status = "completed"
        /\ run.status \in {"failed", "cancelled"} => a.run.status = run.status
        /\ Quiet(a.steps)
    <3>1. CASE m.kind = "owner"
      <4>1. ~Speaks(Wake(wakeTaskOwnerRequestParent(m.n)))
        BY DEF Wake, Step, wakeTaskOwnerRequestParent, Speaks, MessageStep, ProgressStep, IsMessage
      <4> QED
        BY <1>2, <3>1, <4>1, QuietLists DEF handleOwnerRequest, RunState
    <3>2. CASE m.kind # "owner"
      <4>1. /\ r \in RunState /\ r.messages = run.messages /\ r.index = run.index
            /\ r.acked = run.acked /\ r.rejected = run.rejected /\ r.result = run.result
            /\ r.phase = run.phase /\ r.status = run.status
        BY <1>2, <1>3 DEF RunState
      <4>2. c \in Transitions /\ c.kind = "require-input"
        BY <1>3 DEF Transitions
      <4> HIDE DEF r, c
      <4> QED
        BY <1>2, <3>2, <4>1, <4>2, CommandSpeaks
    <3> QED
      BY <3>1, <3>2
  <2> HIDE DEF a
  <2>3. HooksKept
    <3>1. /\ Waiting(workflow') = Waiting(workflow) /\ Rising(workflow')
          /\ Counted(workflow', run.index, body.again)
      BY <1>1, <1>2, <1>5, WorkflowKept
    <3> QED
      BY <1>1, <1>2, <1>3, <3>1 DEF HooksKept, SourceInv, CompleteInv
  <2>4. SourceInv' /\ CompleteInv' /\ ClaimsKept
    BY <1>1, <1>2, <2>1, <2>2, <2>3, ExecutorSame DEF SourceInv, CompleteInv
  <2>5. Staying
    BY <1>1, <2>1, <2>2, <2>4, QuietLists DEF Staying, Lost
  <2> QED
    BY <1>2, <2>4, <2>5, StayingFlows DEF ReportsKept
<1> QED
  BY <1>4, <1>5

\* What is released on the parent's answer: the messages, then what reports nothing.
LEMMA PendingReports ==
  ASSUME NEW r \in RunState, NEW rejects \in BOOLEAN, ~r.rejected, ~rejects,
         NEW t \in Seq(DurableStep), Quiet(t)
  PROVE  \E s \in Seq(DurableStep) :
           Quiet(s) /\ flushPendingTraffic(r, rejects) \o t = Released(r) \o s
<1> DEFINE ms == Map(LAMBDA m : Wake(wakeTaskMessageParentStep(m)), r.messages)
           os == Map(LAMBDA n : Wake(wakeTaskOwnerRequestParent(n)), r.owners)
<1>1. r.messages \in Seq(Report) /\ r.owners \in Seq(Nat)
  BY DEF RunState
<1>2. flushPendingTraffic(r, rejects) = ms \o os /\ ms = Released(r)
  BY DEF flushPendingTraffic, Map, Released
<1>3. ms \in Seq(DurableStep)
  <2>1. \A u \in Report : Wake(wakeTaskMessageParentStep(u)) \in DurableStep
    BY DEF Report, Wake, Step, wakeTaskMessageParentStep, DurableStep, Delivery, View, Statuses
  <2>2. \A i \in DOMAIN r.messages : r.messages[i] \in Report
    BY <1>1, Indices
  <2>3. ms \in [DOMAIN r.messages -> DurableStep]
    BY <2>1, <2>2 DEF Map
  <2> HIDE DEF ms
  <2> QED
    BY <1>1, <2>3, MapIsSequence
<1>4. os \in Seq(DurableStep) /\ Quiet(os)
  <2>1. \A n \in Nat : /\ Wake(wakeTaskOwnerRequestParent(n)) \in DurableStep
                       /\ ~Speaks(Wake(wakeTaskOwnerRequestParent(n)))
    BY DEF Wake, Step, wakeTaskOwnerRequestParent, DurableStep, Delivery, View, Statuses, Speaks,
           MessageStep, ProgressStep, IsMessage
  <2>2. \A i \in DOMAIN r.owners : r.owners[i] \in Nat
    BY <1>1, Indices
  <2>3. /\ os \in [DOMAIN r.owners -> DurableStep]
        /\ \A i \in DOMAIN r.owners : os[i] = Wake(wakeTaskOwnerRequestParent(r.owners[i]))
    BY <2>1, <2>2 DEF Map
  <2> HIDE DEF os
  <2>4. Quiet(os)
    BY <2>1, <2>2, <2>3 DEF Quiet, Range
  <2> QED
    BY <1>1, <2>3, <2>4, MapIsSequence
<1> HIDE DEF ms, os
<1>5. os \o t \in Seq(DurableStep) /\ Quiet(os \o t)
  BY <1>4, QuietJoined
<1>6. (ms \o os) \o t = ms \o (os \o t)
  BY <1>3, <1>4, ConcatAssociative
<1> QED
  BY <1>2, <1>5, <1>6

\* The run claims what the parent sent.
LEMMA ClaimCommandReports ==
  ASSUME IInv, ~task.agent, ReportsKept, ClaimCommand
  PROVE  ReportsKept'
<1> DEFINE c == Head(commands)
           acks == c.kind \in {"ready", "reject-dispatch"}
           rejects == c.kind = "reject-dispatch"
           over == rejects \/ isTerminalTaskStatus(run.status)
           r == IF acks THEN Acknowledged(run, rejects) ELSE run
           report == [n |-> c.n, index |-> c.n]
           t == [kind |-> c.kind, q |-> 0]
           a == ApplyCommand(r, t)
           f == IF acks THEN flushPendingTraffic(run, rejects) ELSE <<>>
<1>1. /\ Running /\ todo = <<>> /\ commands # <<>> /\ commands' = Tail(commands)
      /\ run.phase = "running"
      /\ UNCHANGED <<task, workflow, parent, told, inbox, progress>>
  BY RacingFacts DEF ClaimCommand, others, IInv, ReaderInv, Running
<1>2. /\ TypeOK /\ run \in RunState /\ task.agent \in BOOLEAN /\ task.kind # "subagent"
      /\ SourceInv /\ CompleteInv /\ FlowInv /\ run.messages \in Seq(Report) /\ Quiet(todo)
  BY <1>1, HookTypes, TaskConstants, QuietLists DEF IInv, ReportsKept, TypeOK, RunState
<1>3. c \in [kind : CommandKinds, n : Nat] /\ c \in Range(commands)
  BY <1>1, <1>2, HookTypes, Shifted, RangeOfTail
<1>4. /\ c.kind \in CommandKinds /\ c.n \in Nat /\ report \in Report
      /\ report.n = c.n /\ report.index = c.n
  BY <1>3 DEF Report
<1>5. body' = IF acks /\ StartsBody(run, over)
                THEN [body EXCEPT !.pc = "running", !.starts = @ + 1] ELSE body
  BY DEF ClaimCommand
<1>6. /\ c.kind = "update" => /\ run' = handleUpdate(run, report).run
                              /\ todo' = <<>> \o handleUpdate(run, report).steps
      /\ c.kind = "message" => /\ run' = handleMessage(run, report).run
                               /\ todo' = <<>> \o handleMessage(run, report).steps
      /\ c.kind = "answer" => /\ run' = run
                              /\ todo' = <<>> \o resolveAnsweredCommand(run, c.n)
      /\ c.kind \notin {"update", "message", "answer"} => run' = a.run /\ todo' = f \o a.steps
  BY DEF ClaimCommand
<1>7. <<>> \o <<>> = <<>> /\ \A x : <<>> \o <<x>> = <<x>>
  OBVIOUS
<1>8. CASE IsReport(c)
  <2>1. c.n \in Waiting(commands) /\ ~task.workflow /\ run.status # "completed"
    <3>1. c.n \in Waiting(commands)
      BY <1>1, <1>2, <1>8, HookTypes, HookShrinks
    <3> QED
      BY <1>2, <3>1 DEF SourceInv, CompleteInv, Unclaimed, HeardOut
  <2>2. body' = body
    BY <1>5, <1>8 DEF IsReport
  <2> HIDE DEF c, report
  <2>3. \/ /\ todo' = <<Step("progress", [kind |-> "update", n |-> report.index, src |-> report.n])>>
           /\ run' = run
        \/ todo' = <<Wake(wakeTaskMessageParentStep(report))>> /\ run.acked /\ run' = run
        \/ /\ todo' = <<>> /\ ~run.acked
           /\ run' = [run EXCEPT !.messages = Append(run.messages, report)]
        \/ todo' = <<>> /\ Lost /\ run' = run
    <3>1. /\ LET u == handleUpdate(run, report)
             IN /\ u.run = run
                /\ u.steps = <<Step("progress", [kind |-> "update", n |-> report.index, src |-> report.n])>>
          /\ LET u == handleMessage(run, report)
             IN \/ u.steps = <<Wake(wakeTaskMessageParentStep(report))>> /\ run.acked /\ u.run = run
                \/ /\ u.steps = <<>> /\ ~run.acked
                   /\ u.run = [run EXCEPT !.messages = Append(run.messages, report)]
                \/ /\ u.steps = <<>> /\ u.run = run
                   /\ run.status \in {"failed", "cancelled"} \/ run.rejected
      BY <1>2, <1>4, <2>1, HandlersSpeak
    <3>2. CASE c.kind = "update"
      BY <1>6, <1>7, <3>1, <3>2
    <3>3. CASE c.kind = "message"
      BY <1>6, <1>7, <3>1, <3>3 DEF Lost
    <3> QED
      BY <1>8, <3>2, <3>3 DEF IsReport
  <2>4. /\ run'.index = run.index /\ run'.status = run.status /\ run'.result = run.result
        /\ run'.phase = "running" /\ run'.acked = run.acked /\ run'.rejected = run.rejected
        /\ \/ /\ todo' = <<Step("progress", [kind |-> "update", n |-> report.index, src |-> report.n])>>
              /\ run'.messages = run.messages
           \/ todo' = <<Wake(wakeTaskMessageParentStep(report))>> /\ run.acked
              /\ run'.messages = run.messages
           \/ todo' = <<>> /\ ~run.acked /\ run'.messages = Append(run.messages, report)
           \/ todo' = <<>> /\ Lost /\ run'.messages = run.messages
    BY <1>1, <1>2, <2>3 DEF RunState
  <2>5. /\ SourceInv' /\ CompleteInv'
        /\ Claimed' \subseteq Claimed \cup {c.n} /\ Heard \subseteq Heard' /\ c.n \in Heard'
        /\ \A n \in Heard : n <= c.n
    BY <1>1, <1>2, <1>8, <2>1, <2>2, <2>4, ClaimSources DEF c
  <2>6. Claiming
    BY <1>1, <1>4, <2>1, <2>4, <2>5 DEF Claiming, Lost
  <2> QED
    BY <1>2, <2>5, <2>6, ClaimingFlows DEF ReportsKept
<1>9. ASSUME ~IsReport(c)
      PROVE  HooksKept \/ body'.sent # body.sent
  <2>1. /\ Waiting(commands') = Waiting(commands) /\ Rising(commands') /\ CompleteLast(commands')
        /\ \A x \in Range(commands') : x.kind = "complete" => x \in Range(commands)
    BY <1>1, <1>2, <1>9, CommandsKept DEF SourceInv, CompleteInv
  <2> QED
    BY <1>1, <1>2, <2>1 DEF HooksKept, SourceInv
<1>10. CASE c.kind = "answer"
  <2>1. ~IsReport(c) /\ body' = body /\ run' = run
    BY <1>5, <1>6, <1>10 DEF IsReport
  <2>2. Quiet(todo')
    <3>1. ~Speaks(Step("answer", [kind |-> "answer", n |-> c.n, src |-> c.n]))
      BY DEF Step, Speaks, MessageStep, ProgressStep
    <3> HIDE DEF c
    <3> QED
      BY <1>6, <1>7, <1>10, <3>1, QuietLists DEF resolveAnsweredCommand
  <2>3. SourceInv' /\ CompleteInv' /\ ClaimsKept
    BY <1>1, <1>2, <1>9, <2>1, ExecutorSame DEF SourceInv, CompleteInv
  <2>4. Staying
    BY <1>1, <1>2, <2>1, <2>2, <2>3 DEF Staying, Lost
  <2> QED
    BY <1>2, <2>3, <2>4, StayingFlows DEF ReportsKept
<1>11. CASE c.kind \notin {"update", "message", "answer"}
  <2>1. /\ c.kind \in {"ready", "reject-dispatch", "cancel", "complete"} /\ rejects \in BOOLEAN
        /\ ~IsReport(c) /\ run' = a.run /\ todo' = f \o a.steps
    BY <1>4, <1>6, <1>11 DEF CommandKinds, IsReport
  <2>2. /\ r \in RunState /\ r.status = run.status /\ r.result = run.result /\ r.index = run.index
        /\ r.phase = run.phase /\ r.acked = (run.acked \/ acks)
        /\ r.rejected = (run.rejected \/ rejects)
        /\ r.messages = IF acks THEN <<>> ELSE run.messages
        /\ run.settled => r.settled
        /\ acks => r.settled = (run.settled \/ over)
    <3>1. CASE acks
      <4> DEFINE k == Acknowledged(run, rejects)
      <4>1. r = k /\ task.workflow \in BOOLEAN
        BY <1>2, <3>1, HookTypes
      <4>2. /\ k \in RunState /\ k.acked /\ k.rejected = (run.rejected \/ rejects)
            /\ k.phase = run.phase /\ k.status = run.status /\ k.result = run.result
            /\ k.settled = (run.settled \/ over)
        BY <1>2, <2>1, <4>1, AcknowledgedFacts, ZenonT(40)
      <4>3. k.messages = <<>> /\ k.index = run.index
        BY <1>2 DEF Acknowledged, RunState
      <4>4. k.acked \in BOOLEAN /\ run.acked \in BOOLEAN /\ k.settled \in BOOLEAN
        BY <1>2, <4>2 DEF RunState
      <4> HIDE DEF k, r, c
      <4> QED
        BY <3>1, <4>1, <4>2, <4>3, <4>4
    <3>2. CASE ~acks
      <4>1. ~rejects /\ r = run
        BY <3>2
      <4> QED
        BY <1>2, <3>2, <4>1 DEF RunState
    <3> QED
      BY <3>1, <3>2
  <2> HIDE DEF r
  <2>3. t \in Transitions /\ t.kind = c.kind
    BY <2>1 DEF Transitions
  <2> HIDE DEF t
  <2>4. /\ a.run.messages = r.messages /\ a.run.index = r.index /\ a.run.acked = r.acked
        /\ a.run.rejected = r.rejected /\ a.run.result = r.result /\ a.run.phase = r.phase
        /\ a.run.status = "completed" => r.status = "completed" \/ t.kind = "complete"
        /\ r.status \in {"failed", "cancelled"} => a.run.status = r.status
        /\ Quiet(a.steps)
    BY <1>2, <2>2, <2>3, CommandSpeaks
  <2>5. a.steps \in Seq(DurableStep)
    <3>1. Applicable(r, t)
      <4>1. /\ c.kind = "ready" => Indexed
            /\ c.kind = "reject-dispatch" => parent.pc = "rejected"
            /\ c.kind = "complete" => ~task.workflow
        BY <1>3 DEF IInv, CommandsInv
      <4>2. run.rejected => ~Indexed /\ run.acked /\ isTerminalTaskStatus(run.status)
        BY DEF IInv, RunInv, Indexed
      <4>3. r.rejected => r.acked /\ (isTerminalTaskStatus(r.status) \/ c.kind = "reject-dispatch")
        BY <2>2, <4>2
      <4>4. c.kind = "ready" => r.acked /\ ~r.rejected /\ (isTerminalTaskStatus(r.status) => r.settled)
        BY <2>2, <4>1, <4>2
      <4>5. c.kind \in {"complete", "reject-dispatch"} => r.settled
        BY <2>2, <4>1 DEF IInv, RunInv
      <4>6. isTerminalTaskStatus(r.status) /\ ~r.settled => r.status = "cancelled"
        BY <2>2 DEF IInv, RunInv
      <4> QED
        BY <2>1, <2>2, <2>3, <4>3, <4>4, <4>5, <4>6 DEF Applicable
    <3> QED
      BY <1>2, <2>2, <2>3, <3>1, ApplyCommandFacts DEF Applied
  <2> HIDE DEF a
  <2>6. /\ body'.sent = body.sent /\ body'.yields = body.yields /\ body'.again = body.again
        /\ body.pc = "returned" => body'.pc = "returned" /\ body'.result = body.result
        /\ body'.pc = "returned" => body'.result.reports = body.sent
        /\ IF body'.pc = "none" THEN body'.flight = {} ELSE run'.acked
        /\ \A x \in body'.flight : IsReport(x) => x \in body.flight /\ body'.pc = body.pc
        /\ ~task.workflow => body'.pc = "none"
    <3>1. /\ \/ body' = body
             \/ /\ body.starts = 0 /\ body' = [body EXCEPT !.pc = "running", !.starts = @ + 1]
                /\ acks
          /\ body' # body => task.workflow
      BY <1>5, ClaimCommandHandles DEF StartsBody
    <3>2. body.starts = 0 => body.pc = "none"
      BY DEF IInv, BodyInv
    <3>3. body \in BodyState
      BY <1>2, HookTypes
    <3>4. run'.acked = (run.acked \/ acks)
      BY <2>1, <2>2, <2>4
    <3>5. CASE body' = body
      BY <1>2, <3>4, <3>5 DEF SourceInv
    <3>6. CASE body' # body
      <4>1. /\ body.pc = "none" /\ body'.pc = "running" /\ body'.sent = body.sent
            /\ body'.yields = body.yields /\ body'.again = body.again /\ body'.flight = body.flight
            /\ task.workflow /\ acks
        BY <3>1, <3>2, <3>3, <3>6 DEF BodyState
      <4>2. body.flight = {}
        BY <1>2, <4>1 DEF SourceInv
      <4> QED
        BY <3>4, <4>1, <4>2
    <3> QED
      BY <3>5, <3>6
  <2>7. run'.status = "completed" => HeardOut
    <3>1. run'.status = "completed" => run.status = "completed" \/ c.kind = "complete"
      BY <2>1, <2>2, <2>3, <2>4
    <3>2. ASSUME c.kind = "complete" PROVE Unclaimed = {} /\ ~task.workflow /\ parent.settled
      <4>1. ~task.workflow /\ parent.settled /\ workflow = <<>>
        BY <1>2, <1>3, <3>2 DEF IInv, CommandsInv, CompleteInv, SourceInv
      <4>2. \A j \in 1..(Len(commands) - 1) : ~IsReport(commands[j + 1])
        <5>1. /\ 1 \in DOMAIN commands /\ commands[1] = c
              /\ \A j \in 1..(Len(commands) - 1) : j + 1 \in DOMAIN commands /\ 1 < j + 1
          BY <1>1, <1>2, HookTypes, Shifted
        <5> QED
          BY <1>2, <3>2, <5>1 DEF CompleteInv, CompleteLast
      <4>3. Waiting(Tail(commands)) = {}
        <5>1. /\ DOMAIN Tail(commands) = 1..(Len(commands) - 1)
              /\ \A j \in 1..(Len(commands) - 1) : Tail(commands)[j] = commands[j + 1]
          BY <1>1, <1>2, HookTypes, Shifted
        <5> QED
          BY <4>2, <5>1 DEF Waiting, Range
      <4>4. Waiting(commands) = {}
        BY <1>1, <1>2, <2>1, <4>3, HookTypes, HookShrinks
      <4> QED
        BY <4>1, <4>4, HookEmpty DEF Unclaimed
    <3> QED
      BY <1>2, <3>1, <3>2 DEF CompleteInv, HeardOut
  <2>8. SourceInv' /\ CompleteInv' /\ ClaimsKept
    <3>1. run.result # NoResult => run.result = body.result /\ body.pc = "returned"
      BY <1>2 DEF SourceInv
    <3> QED
      BY <1>1, <1>2, <1>9, <2>1, <2>2, <2>4, <2>6, <2>7, <3>1, SourcesKept
  <2>9. CASE acks
    <3>1. run'.messages = <<>> /\ run'.acked /\ (Lost => Lost') /\ (run.rejected \/ rejects => Lost')
      BY <2>1, <2>2, <2>4, <2>9 DEF Lost
    <3>2. CASE run.rejected \/ rejects
      <4>1. todo' = <<>> \o a.steps
        BY <2>1, <2>9, <3>2 DEF flushPendingTraffic
      <4>2. Quiet(todo')
        BY <2>4, <2>5, <4>1, QuietLists, QuietJoined
      <4> QED
        BY <1>1, <1>2, <2>8, <3>1, <3>2, <4>2, ReleasingFlows DEF Releasing, ReportsKept
    <3>3. CASE ~(run.rejected \/ rejects)
      <4>1. todo' = flushPendingTraffic(run, rejects) \o a.steps
        BY <2>1, <2>9
      <4>2. \E s \in Seq(DurableStep) : Quiet(s) /\ todo' = Released(run) \o s
        BY <1>2, <2>1, <2>4, <2>5, <3>3, <4>1, PendingReports
      <4> QED
        BY <1>1, <1>2, <2>8, <3>1, <4>2, ReleasingFlows DEF Releasing, ReportsKept
    <3> QED
      BY <3>2, <3>3
  <2>10. CASE ~acks
    <3>1. todo' = <<>> \o a.steps /\ Quiet(todo')
      BY <2>1, <2>4, <2>5, <2>10, QuietLists, QuietJoined
    <3>2. run'.messages = run.messages /\ run'.acked = run.acked /\ (Lost => Lost')
      <4>1. run.acked \in BOOLEAN /\ r.acked \in BOOLEAN /\ ~rejects
        BY <1>2, <2>2, <2>10 DEF RunState
      <4> QED
        BY <2>1, <2>2, <2>4, <2>10, <4>1 DEF Lost
    <3>3. Staying
      BY <1>1, <1>2, <2>8, <3>1, <3>2 DEF Staying
    <3> QED
      BY <1>2, <2>8, <3>3, StayingFlows DEF ReportsKept
  <2> QED
    BY <2>9, <2>10
<1> QED
  BY <1>4, <1>8, <1>10, <1>11 DEF CommandKinds, IsReport

\* An answer is delivered, or found undeliverable: it was all there was to do.
LEMMA AnswerReports ==
  ASSUME IInv, ReportsKept, DeliverAnswer \/ AnswerUnreachable
  PROVE  ReportsKept'
<1> DEFINE c == [kind |-> "answered", q |-> Current.d.n]
           a == ApplyCommand(run, c)
<1>1. /\ Running /\ todo # <<>> /\ Current.op = "answer" /\ run.phase = "running"
      /\ UNCHANGED <<task, workflow, commands, parent, told, inbox, progress>>
      /\ \/ run' = a.run /\ todo' = a.steps /\ body' = [body EXCEPT !.answered = @ \cup {Current.d.n}]
         \/ run' = run /\ todo' = <<>> /\ body' = body
  BY DEF DeliverAnswer, AnswerUnreachable, Performs, others, Running
<1>2. /\ TypeOK /\ run \in RunState /\ task.agent \in BOOLEAN
      /\ SourceInv /\ CompleteInv /\ FlowInv /\ todo \in Seq(DurableStep)
  BY HookTypes DEF IInv, ReportsKept, TypeOK
<1>3. /\ Current \in DurableStep /\ Current \in Range(todo)
      /\ Range(todo) = {Current} \cup Range(Tail(todo))
      /\ \A x \in Range(Tail(todo)) : Before(Current, x)
  BY <1>1, <1>2, HeadSteps, TailInOrder DEF Current, IInv, TodoInv
<1>4. Quiet(todo)
  BY <1>1, <1>3 DEF Quiet, Before, Speaks, MessageStep, ProgressStep
<1>5. c \in Transitions /\ c.kind = "answered"
  BY <1>3 DEF Transitions, DurableStep, Delivery
<1> HIDE DEF c
<1>6. /\ a.run.messages = run.messages /\ a.run.index = run.index /\ a.run.acked = run.acked
      /\ a.run.rejected = run.rejected /\ a.run.result = run.result /\ a.run.phase = run.phase
      /\ a.run.status = "completed" => run.status = "completed"
      /\ run.status \in {"failed", "cancelled"} => a.run.status = run.status
      /\ Quiet(a.steps)
  BY <1>2, <1>5, CommandSpeaks
<1> HIDE DEF a
<1>7. /\ run'.messages = run.messages /\ run'.index = run.index /\ run'.acked = run.acked
      /\ run'.rejected = run.rejected /\ run'.result = run.result /\ run'.phase = "running"
      /\ run'.status = "completed" => run.status = "completed"
      /\ run.status \in {"failed", "cancelled"} => run'.status = run.status
      /\ Quiet(todo')
  BY <1>1, <1>6, QuietLists
<1>8. /\ body'.sent = body.sent /\ body'.yields = body.yields /\ body'.pc = body.pc
      /\ body'.result = body.result /\ body'.again = body.again /\ body'.flight = body.flight
  BY <1>1, <1>2, HookTypes DEF BodyState
<1>9. HooksKept
  BY <1>1, <1>2, <1>8, HooksSame
<1>10. SourceInv' /\ CompleteInv' /\ ClaimsKept
  <2>1. /\ run.result # NoResult => run.result = body.result /\ body.pc = "returned"
        /\ run.status = "completed" => HeardOut
        /\ body.pc = "returned" => body.result.reports = body.sent
        /\ IF body.pc = "none" THEN body.flight = {} ELSE run.acked
        /\ ~task.workflow => body.pc = "none"
    BY <1>2 DEF SourceInv, CompleteInv
  <2> QED
    BY <1>2, <1>7, <1>8, <1>9, <2>1, SourcesKept
<1>11. Staying
  BY <1>1, <1>4, <1>7, <1>10 DEF Staying, Lost
<1> QED
  BY <1>2, <1>10, <1>11, StayingFlows DEF ReportsKept

\* A step in hand is performed.
LEMMA PoppingReports ==
  ASSUME IInv, ReportsKept, PublishView \/ AbortBody \/ AppendProgress \/ WakeParent
  PROVE  ReportsKept'
<1>1. /\ TypeOK /\ SourceInv /\ CompleteInv /\ FlowInv
  BY DEF IInv, ReportsKept
<1>2. /\ Running /\ todo # <<>> /\ run' = run /\ UNCHANGED <<task, workflow, commands, parent, told>>
      /\ body'.sent = body.sent /\ body'.yields = body.yields /\ body'.pc = body.pc
      /\ body'.result = body.result /\ body'.again = body.again /\ body'.flight = body.flight
  <2>1. body \in BodyState
    BY <1>1, HookTypes
  <2> QED
    BY <2>1 DEF PublishView, AbortBody, AppendProgress, WakeParent, DoneOrAgain, Performs, others, BodyState
<1>3. SourceInv' /\ CompleteInv' /\ ClaimsKept
  <2>1. HooksKept
    BY <1>1, <1>2, HooksSame
  <2>2. /\ run.result # NoResult => run.result = body.result /\ body.pc = "returned"
        /\ run.status = "completed" => HeardOut
        /\ body.pc = "returned" => body.result.reports = body.sent
        /\ IF body.pc = "none" THEN body.flight = {} ELSE run.acked
        /\ ~task.workflow => body.pc = "none"
        /\ run.phase # "finished"
    BY <1>1, <1>2 DEF SourceInv, CompleteInv, Running
  <2> QED
    BY <1>1, <1>2, <2>1, <2>2, SourcesKept
<1>4. CASE AppendProgress
  BY <1>1, <1>3, <1>4, ProgressFlows DEF ReportsKept
<1>5. CASE WakeParent /\ IsMessage(Current.d)
  BY <1>1, <1>3, <1>5, MessageFlows DEF ReportsKept
<1>6. CASE PublishView \/ AbortBody \/ (WakeParent /\ ~IsMessage(Current.d))
  <2>1. /\ ~Speaks(Current) /\ todo' \in {todo, Tail(todo)} /\ UNCHANGED progress
        /\ inbox' = inbox \/ (~IsMessage(Current.d) /\ inbox' = Append(inbox, Current.d))
    BY <1>6 DEF PublishView, AbortBody, WakeParent, DoneOrAgain, Performs, others, Speaks, MessageStep,
                ProgressStep
  <2>2. Current.d \in Delivery
    BY <1>1, <1>2, HeadSteps DEF DurableStep
  <2>3. FlowInv'
    BY <1>1, <1>2, <1>3, <2>1, <2>2, PassingFlows DEF Lost
  <2> QED
    BY <1>3, <2>3 DEF ReportsKept
<1> QED
  BY <1>4, <1>5, <1>6

\* The body's step acts on a workflow task whose body has been started.
LEMMA BodyActs ==
  ASSUME IInv, ~task.agent, ReportsKept, BodyStep
  PROVE  /\ UNCHANGED <<task, run, todo, commands, parent, inbox, told, progress>>
         /\ task.workflow /\ body.pc # "none" /\ run.acked /\ parent.sent = 0
         /\ Waiting(commands) = {} /\ Unclaimed = Waiting(workflow) /\ Spoken = body.sent
         /\ (body.pc = "running" => run.result = NoResult /\ run.status # "completed")
         /\ (ClaimsKept => Staying)
<1>1. TypeOK /\ SourceInv /\ CompleteInv
  BY DEF IInv, ReportsKept
<1>2. /\ UNCHANGED <<task, run, todo, commands, parent, inbox, told, progress>>
      /\ body.pc = "running" \/ body.flight # {}
  BY DEF BodyStep, BodyReports, BodyAsks, BodyOwnerRequest, BodyResends, BodyReturns, BodyThrows, bodyOthers,
         Executing
<1>3. task.workflow /\ body.pc # "none" /\ run.acked /\ parent.sent = 0 /\ Waiting(commands) = {}
  BY <1>1, <1>2 DEF SourceInv
<1>4. Unclaimed = Waiting(workflow) /\ Spoken = body.sent
  BY <1>1, <1>3, HookTypes DEF Unclaimed, Spoken
<1>5. body.pc = "running" => run.result = NoResult /\ run.status # "completed"
  BY <1>1, <1>3 DEF SourceInv, CompleteInv, HeardOut
<1>6. ClaimsKept => Staying
  BY <1>2 DEF Staying, Lost
<1> QED
  BY <1>2, <1>3, <1>4, <1>5, <1>6

\* A report more, or once more: it waits behind the others, and nothing is less
\* heard than before.
LEMMA BodySpeaks ==
  ASSUME IInv, ~task.agent, ReportsKept, BodyStep, body.pc = "running",
         NEW x \in Message, IsReport(x), workflow' = Append(workflow, x),
         body' \in BodyState, x.n = body'.sent, body'.yields = body'.sent, body'.pc = body.pc,
         \/ body'.sent = body.sent + 1 /\ body'.again = body.again
         \/ body'.sent = body.sent /\ body'.again = body.again + 1,
         \A f \in body'.flight : IsReport(f) => f.n = body'.sent
  PROVE  ReportsKept'
<1>1. /\ TypeOK /\ SourceInv /\ CompleteInv /\ FlowInv /\ workflow \in Seq(Message)
      /\ body.sent \in Nat /\ body.again \in Nat /\ run.index \in Nat
      /\ x.n \in Nat \ {0} /\ body'.again \in Nat /\ body'.sent \in Nat
  BY HookTypes DEF IInv, ReportsKept, Message, BodyState
<1>2. /\ UNCHANGED <<task, run, todo, commands, parent, inbox, told, progress>>
      /\ task.workflow /\ run.acked /\ parent.sent = 0
      /\ Waiting(commands) = {} /\ Unclaimed = Waiting(workflow) /\ Spoken = body.sent
      /\ run.result = NoResult /\ run.status # "completed" /\ (ClaimsKept => Staying)
  BY BodyActs
<1>3. Spoken' = body'.sent
  BY <1>1, <1>2 DEF Spoken
<1>4. PICK k \in 0..body.sent : Unclaimed = (k + 1)..body.sent
  BY <1>1, <1>2 DEF SourceInv
<1>5. /\ \A m \in Waiting(workflow) : m <= x.n /\ m + body.again < x.n + body'.again
      /\ run.index < x.n + body'.again /\ body.again <= body'.again
      /\ run.index <= body'.sent + body'.again
  <2>1. run.index <= body.sent + body.again
    BY <1>1 DEF SourceInv
  <2>2. \A m \in Waiting(workflow) : m \in Nat /\ m <= body.sent
    BY <1>1, <1>2, <1>4
  <2>3. CASE body'.sent = body.sent + 1 /\ body'.again = body.again
    BY <1>1, <2>1, <2>2, <2>3
  <2>4. CASE body'.sent = body.sent /\ body'.again = body.again + 1
    BY <1>1, <2>1, <2>2, <2>4
  <2> QED
    BY <2>3, <2>4
<1>6. Waiting(workflow') = Unclaimed \cup {x.n} /\ Rising(workflow')
  <2>1. Rising(workflow) /\ \A m \in Waiting(workflow) : m <= x.n
    BY <1>1, <1>5 DEF SourceInv
  <2>2. Waiting(Append(workflow, x)) = Waiting(workflow) \cup {x.n} /\ Rising(Append(workflow, x))
    BY <1>1, <2>1, HookGrows
  <2> QED
    BY <1>2, <2>2
<1>7. Counted(workflow', run'.index, body'.again)
  <2>1. Counted(workflow, run.index, body.again)
    BY <1>1 DEF SourceInv
  <2>2. Counted(Append(workflow, x), run.index, body'.again)
    BY <1>1, <1>5, <2>1, CountGrows
  <2> QED
    BY <1>2, <2>2
<1>8. Unclaimed' = Unclaimed \cup {x.n}
  BY <1>2, <1>6 DEF Unclaimed
<1>9. \E j \in 0..Spoken' : Unclaimed' = (j + 1)..Spoken'
  <2>1. CASE body'.sent = body.sent + 1
    <3>1. k \in 0..Spoken' /\ Unclaimed' = (k + 1)..Spoken'
      BY <1>1, <1>3, <1>4, <1>8, <2>1
    <3> QED
      BY <3>1
  <2>2. CASE body'.sent = body.sent /\ k < body.sent
    <3>1. k \in 0..Spoken' /\ Unclaimed' = (k + 1)..Spoken'
      BY <1>1, <1>3, <1>4, <1>8, <2>2
    <3> QED
      BY <3>1
  <2>3. CASE body'.sent = body.sent /\ k = body.sent
    <3>1. body.sent - 1 \in 0..Spoken' /\ Unclaimed' = (body.sent - 1 + 1)..Spoken'
      BY <1>1, <1>3, <1>4, <1>8, <2>3
    <3> QED
      BY <3>1
  <2> QED
    BY <1>1, <1>4, <2>1, <2>2, <2>3
<1>10. ClaimsKept
  <2>1. Claimed' \subseteq Claimed
    BY <1>1, <1>2, <1>3, <1>8 DEF Claimed
  <2>2. Heard \subseteq Heard'
    BY <1>1, <1>2, <1>3, <1>8 DEF Heard
  <2> QED
    BY <1>2, <2>1, <2>2 DEF ClaimsKept
<1>11. SourceInv'
  BY <1>1, <1>2, <1>5, <1>6, <1>7, <1>9 DEF SourceInv
<1>12. CompleteInv'
  BY <1>1, <1>2 DEF CompleteInv
<1> QED
  BY <1>1, <1>2, <1>10, <1>11, <1>12, StayingFlows DEF ReportsKept

\* The body asks, asks once more, or ends: no report is added.
LEMMA BodySilent ==
  ASSUME IInv, ~task.agent, ReportsKept, BodyStep, body' \in BodyState,
         workflow' = workflow \/ \E m \in Message : ~IsReport(m) /\ workflow' = Append(workflow, m),
         body'.sent = body.sent, body'.yields = body.yields, body'.again = body.again,
         \/ body'.pc = body.pc /\ body'.result = body.result
         \/ body.pc = "running" /\ body'.pc = "returned" /\ body'.result.reports = body.yields,
         \A f \in body'.flight : IsReport(f) => f \in body.flight /\ body'.pc = body.pc
  PROVE  ReportsKept'
<1>1. /\ TypeOK /\ SourceInv /\ CompleteInv /\ FlowInv
      /\ UNCHANGED <<task, run, todo, commands, parent, inbox, told, progress>>
      /\ task.workflow /\ body.pc # "none" /\ run.acked /\ (ClaimsKept => Staying)
  BY BodyActs DEF IInv, ReportsKept
<1>2. HooksKept
  <2>1. /\ Waiting(workflow') = Waiting(workflow) /\ Rising(workflow')
        /\ Counted(workflow', run.index, body.again)
    BY <1>1, WorkflowKept
  <2> QED
    BY <1>1, <2>1 DEF HooksKept, SourceInv, CompleteInv
<1>3. SourceInv' /\ CompleteInv' /\ ClaimsKept
  <2>1. /\ run.result # NoResult => run.result = body.result /\ body.pc = "returned"
        /\ run.status = "completed" => HeardOut
        /\ run.phase = "finished" => todo = <<>> /\ run.acked
        /\ body.pc = "returned" => body.result.reports = body.sent
        /\ body.yields = body.sent
    BY <1>1 DEF SourceInv, CompleteInv
  <2>2. body'.pc # "none"
    BY <1>1
  <2> QED
    BY <1>1, <1>2, <2>1, <2>2, SourcesKept
<1> QED
  BY <1>1, <1>3, StayingFlows DEF ReportsKept

\* The body reports, asks, does either once more, and ends; its result counts what it
\* has reported.
LEMMA BodyReportsMore ==
  ASSUME IInv, ~task.agent, ReportsKept, BodyStep
  PROVE  ReportsKept'
<1>1. /\ TypeOK /\ SourceInv /\ workflow \in Seq(Message) /\ body \in BodyState /\ body' \in BodyState
      /\ body.sent \in Nat /\ body.yields = body.sent /\ body.asked \in Nat /\ body.again \in Nat
      /\ \A f \in body.flight : f \in Message /\ (IsReport(f) => f.n = body.sent)
  BY BodySteps, HookTypes DEF IInv, ReportsKept, SourceInv, BodyState
<1>2. CASE BodyReports
  <2>1. /\ body.sent + 1 \in Nat \ {0} /\ body.pc = "running"
        /\ \E kind \in {"update", "message"} :
             Sends([kind |-> kind, n |-> body.sent + 1],
                   [body EXCEPT !.sent = body.sent + 1, !.yields = body.yields + 1])
    BY <1>1, <1>2 DEF BodyReports, Executing
  <2>2. PICK x \in Message :
          /\ x.kind \in {"update", "message"} /\ x.n = body.sent + 1
          /\ Sends(x, [body EXCEPT !.sent = body.sent + 1, !.yields = body.yields + 1])
    BY <2>1 DEF Message
  <2>3. [body EXCEPT !.sent = body.sent + 1, !.yields = body.yields + 1] \in BodyState
    BY <1>1, <2>1 DEF BodyState
  <2>4. PICK F \in SUBSET Message :
          /\ workflow' = Append(workflow, x)
          /\ body' = [body EXCEPT !.sent = body.sent + 1, !.yields = body.yields + 1, !.flight = F]
          /\ \A f \in F : f = x \/ f.kind = "ask"
    BY <1>1, <2>2, <2>3, Sent
  <2>5. /\ body'.sent = body.sent + 1 /\ body'.yields = body'.sent /\ body'.pc = body.pc
        /\ body'.again = body.again /\ body'.flight = F
    BY <1>1, <2>4 DEF BodyState
  <2>6. IsReport(x) /\ \A f \in F : IsReport(f) => f.n = body'.sent
    BY <2>2, <2>4, <2>5 DEF IsReport
  <2> QED
    BY <1>1, <2>1, <2>2, <2>4, <2>5, <2>6, BodySpeaks
<1>3. CASE BodyAsks
  <2>1. /\ body.asked + 1 \in Nat \ {0}
        /\ Sends([kind |-> "ask", n |-> body.asked + 1], [body EXCEPT !.asked = body.asked + 1])
    BY <1>1, <1>3 DEF BodyAsks
  <2>2. PICK x \in Message :
          x.kind = "ask" /\ Sends(x, [body EXCEPT !.asked = body.asked + 1])
    BY <2>1 DEF Message
  <2>3. [body EXCEPT !.asked = body.asked + 1] \in BodyState
    BY <1>1, <2>1 DEF BodyState
  <2>4. PICK F \in SUBSET Message :
          /\ workflow' = Append(workflow, x)
          /\ body' = [body EXCEPT !.asked = body.asked + 1, !.flight = F]
          /\ F \subseteq body.flight \cup {x}
    <3> DEFINE b == [body EXCEPT !.asked = body.asked + 1]
    <3>1. b.flight = body.flight /\ \A F : [b EXCEPT !.flight = F] = [body EXCEPT !.asked = body.asked + 1, !.flight = F]
      BY <1>1 DEF BodyState
    <3>2. b \in BodyState /\ Sends(x, b)
      BY <2>2, <2>3
    <3> HIDE DEF b
    <3>3. /\ workflow' = Append(workflow, x)
          /\ \E F \in SUBSET Message : F \subseteq b.flight \cup {x} /\ body' = [b EXCEPT !.flight = F]
      BY <1>1, <3>2, Sent
    <3> QED
      BY <3>1, <3>3
  <2>5. /\ body'.sent = body.sent /\ body'.yields = body.yields /\ body'.pc = body.pc
        /\ body'.again = body.again /\ body'.flight = F /\ body'.result = body.result
    BY <1>1, <2>4 DEF BodyState
  <2>6. ~IsReport(x) /\ \A f \in F : IsReport(f) => f \in body.flight
    BY <2>2, <2>4 DEF IsReport
  <2> QED
    BY <1>1, <2>4, <2>5, <2>6, BodySilent
<1>4. ASSUME NEW x \in body.flight, workflow' = Append(workflow, x), BodyResends,
             body' = [body EXCEPT !.again = IF x.kind \in {"update", "message"} THEN @ + 1 ELSE @]
      PROVE  ReportsKept'
  <2>1. /\ body'.sent = body.sent /\ body'.yields = body.yields /\ body'.pc = body.pc
        /\ body'.flight = body.flight /\ body'.result = body.result /\ x \in Message
        /\ IF IsReport(x) THEN body'.again = body.again + 1 ELSE body'.again = body.again
    BY <1>1, <1>4 DEF BodyState, IsReport
  <2>2. CASE IsReport(x)
    <3>1. body.pc = "running"
      BY <1>1, <2>2 DEF SourceInv, BodyState
    <3> QED
      BY <1>1, <1>4, <2>1, <2>2, <3>1, BodySpeaks
  <2>3. CASE ~IsReport(x)
    BY <1>1, <1>4, <2>1, <2>3, BodySilent
  <2> QED
    BY <2>2, <2>3
<1>5. CASE BodyReturns \/ BodyThrows
  <2>1. /\ workflow' = workflow /\ body.pc = "running"
        /\ \E k \in {"complete", "fail", "cancel"} :
             body' = [body EXCEPT !.pc = "returned", !.flight = Unawaited(body.flight),
                                  !.result = [kind |-> k, reports |-> body.yields]]
    BY <1>5 DEF BodyReturns, BodyThrows, Executing
  <2>2. /\ body'.sent = body.sent /\ body'.yields = body.yields /\ body'.again = body.again
        /\ body'.pc = "returned" /\ body'.result.reports = body.yields
        /\ body'.flight = Unawaited(body.flight)
    BY <1>1, <2>1 DEF BodyState
  <2>3. \A f \in body'.flight : ~IsReport(f)
    BY <2>2 DEF Unawaited, IsReport
  <2> QED
    BY <1>1, <2>1, <2>2, <2>3, BodySilent
<1>6. ~BodyOwnerRequest /\ (BodyResends => \E x \in body.flight :
        /\ workflow' = Append(workflow, x)
        /\ body' = [body EXCEPT !.again = IF x.kind \in {"update", "message"} THEN @ + 1 ELSE @])
  BY DEF BodyOwnerRequest, BodyResends
<1> QED
  BY <1>2, <1>3, <1>4, <1>5, <1>6 DEF BodyStep

\* The tool reports through the task inbox until it completes.
LEMMA ToolReportsMore ==
  ASSUME IInv, ReportsKept, ToolReports \/ ToolCompletes
  PROVE  ReportsKept'
<1> DEFINE C == [kind : CommandKinds, n : Nat]
<1>1. /\ TypeOK /\ SourceInv /\ CompleteInv /\ FlowInv /\ commands \in Seq(C)
      /\ Spoken \in Nat /\ body.sent \in Nat /\ parent.sent \in Nat
      /\ parent \in [pc : {"step", "indexed", "acked", "rejected"}, settled : BOOLEAN, sent : Nat]
  BY HookTypes DEF IInv, ReportsKept, TypeOK
<1>2. /\ UNCHANGED <<task, run, todo, workflow, body, inbox, told, progress>>
      /\ parent.pc = "step" /\ ~parent.settled /\ run.phase = "running" /\ run' = run
  BY DEF ToolReports, ToolCompletes, parentOthers, Running
<1>3. /\ ~task.workflow /\ workflow = <<>> /\ body.sent = 0 /\ Unclaimed = Waiting(commands)
      /\ run.status # "completed" /\ \A c \in Range(commands) : c.kind # "complete"
  <2>1. ~task.workflow
    BY <1>2 DEF IInv, CommandsInv
  <2> QED
    BY <1>1, <1>2, <2>1, HookEmpty DEF SourceInv, CompleteInv, Unclaimed, HeardOut
<1>4. ClaimsKept => Staying
  BY <1>2 DEF Staying, Lost
<1>5. CASE ToolReports
  <2> DEFINE n == parent.sent + 1
  <2>1. PICK kind \in {"update", "message"} : commands' = Append(commands, [kind |-> kind, n |-> n])
    BY <1>5 DEF ToolReports, sendTaskCommand
  <2> DEFINE x == [kind |-> kind, n |-> n]
  <2>2. x \in C /\ IsReport(x) /\ x.n = n /\ n \in Nat /\ commands' = Append(commands, x)
        /\ x.kind # "complete"
    BY <1>1, <2>1 DEF IsReport, CommandKinds
  <2> HIDE DEF x, C
  <2>3. /\ parent'.sent = n /\ parent'.settled = parent.settled
        /\ Spoken = parent.sent /\ Spoken' = n
    <3>1. parent'.sent = n /\ parent'.settled = parent.settled
      BY <1>1, <1>5 DEF ToolReports
    <3> QED
      BY <1>1, <1>2, <1>3, <3>1 DEF Spoken
  <2>4. PICK k \in 0..Spoken : Unclaimed = (k + 1)..Spoken
    BY <1>1 DEF SourceInv
  <2>5. Waiting(commands') = Unclaimed \cup {n} /\ Rising(commands')
    <3>1. \A m \in Waiting(commands) : m <= n
      BY <1>1, <1>3, <2>3, <2>4
    <3> QED
      BY <1>1, <1>3, <2>2, <3>1, HookGrows DEF SourceInv
  <2>6. Unclaimed' = Unclaimed \cup {n} /\ Unclaimed' = (k + 1)..Spoken' /\ k \in 0..Spoken'
    BY <1>1, <1>2, <1>3, <2>3, <2>4, <2>5, HookEmpty DEF Unclaimed
  <2>7. ClaimsKept
    <3>1. Claimed' \subseteq Claimed
      BY <1>1, <2>3, <2>4, <2>6 DEF Claimed
    <3>2. Heard \subseteq Heard'
      BY <1>1, <2>3, <2>4, <2>6 DEF Heard
    <3> QED
      BY <1>2, <3>1, <3>2 DEF ClaimsKept
  <2>8. SourceInv'
    BY <1>1, <1>2, <1>3, <2>5, <2>6 DEF SourceInv
  <2>9. Range(commands') = Range(commands) \cup {x}
    BY <1>1, <2>2, RangeOfAppend
  <2>10. \A i \in DOMAIN commands' : commands'[i].kind # "complete"
    BY <1>3, <2>2, <2>9 DEF Range
  <2>11. CompleteInv'
    BY <1>1, <1>2, <1>3, <2>2, <2>9, <2>10 DEF CompleteInv, CompleteLast
  <2> QED
    BY <1>1, <1>4, <2>7, <2>8, <2>11, StayingFlows DEF ReportsKept
<1>6. CASE ToolCompletes
  <2> DEFINE x == [kind |-> "complete", n |-> 0]
  <2>1. x \in C /\ ~IsReport(x) /\ commands' = Append(commands, x)
    BY <1>6 DEF ToolCompletes, sendTaskCommand, IsReport, CommandKinds
  <2> HIDE DEF x, C
  <2>2. parent'.sent = parent.sent /\ parent'.settled
    BY <1>1, <1>6 DEF ToolCompletes
  <2>3. Waiting(commands') = Waiting(commands) /\ Rising(commands')
    BY <1>1, <2>1, HookGrows DEF SourceInv
  <2>4. Unclaimed' = Unclaimed /\ Spoken' = Spoken /\ ClaimsKept
    BY <1>2, <2>2, <2>3 DEF Unclaimed, Spoken, Claimed, Heard, ClaimsKept
  <2>5. SourceInv'
    BY <1>1, <1>2, <1>3, <2>2, <2>3, <2>4 DEF SourceInv
  <2>6. CompleteLast(commands')
    <3>1. \A i \in DOMAIN commands : commands[i].kind # "complete"
      BY <1>3 DEF Range
    <3> QED
      BY <1>1, <2>1, <3>1, Appended DEF CompleteLast
  <2>7. CompleteInv'
    BY <1>1, <1>2, <1>3, <2>2, <2>6 DEF CompleteInv
  <2> QED
    BY <1>1, <1>4, <2>4, <2>5, <2>7, StayingFlows DEF ReportsKept
<1> QED
  BY <1>5, <1>6

\* What else the parent sends is no report and no completion.
LEMMA ParentReports ==
  ASSUME IInv, ReportsKept,
         Deciding \/ (\E q \in proxied : UserAnswers(q)) \/ Cancelling \/ CancelWakes
  PROVE  ReportsKept'
<1> DEFINE C == [kind : CommandKinds, n : Nat]
<1>1. /\ TypeOK /\ SourceInv /\ CompleteInv /\ FlowInv /\ run \in RunState
      /\ parent \in [pc : {"step", "indexed", "acked", "rejected"}, settled : BOOLEAN, sent : Nat]
      /\ proxied \subseteq Nat
  BY HookTypes DEF IInv, ReportsKept, TypeOK
<1>2. /\ UNCHANGED <<task, todo, workflow, body, told, progress>>
      /\ parent'.sent = parent.sent /\ parent'.settled = parent.settled
  BY <1>1, GroupFrames DEF Deciding, StepCommits, StepFails, acknowledgeDelegatedTasksStep,
                           UserAnswers, CancelWakes, cancelOthers
<1>3. commands' = commands
      \/ \E c \in C : ~IsReport(c) /\ c.kind # "complete" /\ commands' = Append(commands, c)
  <2>1. /\ \A kind \in {"reject-dispatch", "ready", "cancel", "answer"}, n \in Nat :
             /\ [kind |-> kind, n |-> n] \in C /\ ~IsReport([kind |-> kind, n |-> n])
             /\ [kind |-> kind, n |-> n].kind # "complete"
    BY DEF CommandKinds, IsReport
  <2>2. commands' = commands
        \/ \E kind \in {"reject-dispatch", "ready", "cancel", "answer"}, n \in Nat :
             commands' = Append(commands, [kind |-> kind, n |-> n])
    BY <1>1 DEF Deciding, StepCommits, StepFails, acknowledgeDelegatedTasksStep, UserAnswers, Cancelling,
           CancelSends, CancelSees, CancelTimesOut, CancelStops, CancelCrashes, CancelWakes,
           cancelOthers, sendTaskCommand
  <2> HIDE DEF C
  <2> QED
    BY <2>1, <2>2
<1>4. /\ run'.status = run.status /\ run'.index = run.index /\ run'.result = run.result
      /\ run'.messages = run.messages /\ run'.acked = run.acked /\ run'.rejected = run.rejected
      /\ run'.phase = "finished" => run.phase = "finished"
  <2>1. run' = run \/ run' = [run EXCEPT !.phase = "killed"]
    BY GroupFrames DEF UserAnswers, Cancelling, CancelSends, CancelSees, CancelTimesOut, CancelStops,
                       CancelCrashes, CancelWakes, cancelOthers
  <2> QED
    BY <1>1, <2>1 DEF RunState
<1>5. inbox' = inbox \/ \E d \in Delivery : ~IsMessage(d) /\ inbox' = Append(inbox, d)
  <2>1. wakeTaskParentStep("cancelled") \in Delivery /\ ~IsMessage(wakeTaskParentStep("cancelled"))
    BY DEF wakeTaskParentStep, Delivery, TerminalStatuses, IsMessage
  <2> QED
    BY <2>1, GroupFrames DEF UserAnswers, CancelWakes
<1>6. HooksKept
  <2>1. /\ Waiting(commands') = Waiting(commands) /\ Rising(commands') /\ CompleteLast(commands')
        /\ \A c \in Range(commands') : c.kind = "complete" => c \in Range(commands)
    BY <1>1, <1>3, CommandsKept DEF SourceInv, CompleteInv
  <2> QED
    BY <1>1, <1>2, <2>1 DEF HooksKept, SourceInv
<1>7. SourceInv' /\ CompleteInv' /\ ClaimsKept
  BY <1>1, <1>2, <1>4, <1>6, ExecutorSame DEF SourceInv, CompleteInv
<1>8. Staying
  BY <1>2, <1>4, <1>5, <1>7 DEF Staying, Lost
<1> QED
  BY <1>1, <1>7, <1>8, StayingFlows DEF ReportsKept

\* The parent takes a delivery.
LEMMA ReceivingReports ==
  ASSUME IInv, ReportsKept, ParentReceives
  PROVE  ReportsKept'
<1>1. /\ TypeOK /\ SourceInv /\ CompleteInv /\ FlowInv
      /\ UNCHANGED <<task, run, todo, workflow, commands, body, parent>>
  BY DEF IInv, ReportsKept, ParentReceives
<1>2. SourceInv' /\ CompleteInv' /\ ClaimsKept
  BY <1>1, HooksSame, RunSame
<1> QED
  BY <1>1, <1>2, ReceivingFlows DEF ReportsKept

\* Every step preserves it.
LEMMA ReportsPreserved == IInv /\ ~task.agent /\ ReportsKept /\ [Next]_vars => ReportsKept'
<1> SUFFICES ASSUME IInv, ~task.agent, ReportsKept, [Next]_vars PROVE ReportsKept'
  OBVIOUS
<1>1. CASE Handling
  BY <1>1, SettleBodyReports, ClaimWorkflowReports, ClaimCommandReports, AnswerReports DEF Handling
<1>2. CASE Popping
  BY <1>2, PoppingReports, AnswerReports DEF Popping
<1> QED
  BY <1>1, <1>2, StepGroups, LoopReports, BodyReportsMore, ToolReportsMore, ParentReports,
     ReceivingReports

\* It holds at first: nothing has been said.
LEMMA InitReports == Init => ReportInv
<1> SUFFICES ASSUME Init PROVE ReportsKept
  BY DEF ReportInv, ReportsKept
<1>1. /\ workflow = <<>> /\ commands = <<>> /\ progress = <<>> /\ inbox = <<>> /\ told = <<>>
      /\ body.sent = 0 /\ parent.sent = 0 /\ body.pc = "none" /\ body.yields = 0
      /\ body.flight = {} /\ body.again = 0
      /\ run.index = 0 /\ run.result = NoResult /\ run.status = "working" /\ run.messages = <<>>
      /\ run.phase = "running" /\ ~run.acked /\ todo = <<appendTaskViewStep(run)>>
  BY DEF Init
<1>2. Unclaimed = {} /\ Spoken = 0 /\ Rising(<<>>)
  BY <1>1, HookEmpty DEF Unclaimed, Spoken
<1>3. Claimed = {}
  BY <1>2 DEF Claimed
<1>4. SourceInv
  <2>1. 0 \in 0..Spoken /\ Unclaimed = (0 + 1)..Spoken
    BY <1>2
  <2> QED
    BY <1>1, <1>2, <2>1, HookEmpty DEF SourceInv
<1>5. CompleteInv
  BY <1>1, RangeOfFew DEF CompleteInv, CompleteLast
<1>6. Quiet(todo) /\ Range(<<>>) = {}
  <2>1. ~Speaks(appendTaskViewStep(run))
    BY DEF appendTaskViewStep, Speaks, MessageStep, ProgressStep
  <2> QED
    BY <1>1, <2>1, QuietLists, RangeOfFew
<1>7. \A x \in Range(todo) : ~MessageStep(x) /\ ~ProgressStep(x)
  BY <1>6 DEF Quiet, Speaks
<1>8. Delivered = {} /\ Range(run.messages) = {} /\ Range(progress) = {}
  BY <1>1, <1>6 DEF Delivered
<1>9. NumberInv
  BY <1>7, <1>8 DEF NumberInv
<1>10. LineInv
  <2>1. \A i \in DOMAIN todo : ~MessageStep(todo[i])
    BY <1>7 DEF Range
  <2> QED
    BY <1>1, <1>6, <1>7, <1>8, <2>1 DEF LineInv, Ordered
<1> QED
  BY <1>3, <1>4, <1>5, <1>9, <1>10 DEF ReportsKept, FlowInv, CoverInv

\* The task's reports are accounted for throughout.
LEMMA ReportsAccounted == Spec => []ReportInv
<1>1. IInv /\ ReportInv /\ [Next]_vars => ReportInv'
  <2> SUFFICES ASSUME IInv, ReportInv, [Next]_vars, ~task'.agent PROVE ReportsKept'
    BY DEF ReportInv, ReportsKept
  <2>1. task' = task
    BY StepGroups, GroupFrames DEF Finish, ClaimBody, others, ToolReports, ToolCompletes, parentOthers,
       ParentReceives, UserAnswers, CancelWakes, cancelOthers, vars
  <2> QED
    BY <2>1, ReportsPreserved DEF ReportInv, ReportsKept
<1> QED
  BY <1>1, InitReports, TaskInvariant, PTL DEF Spec

\* Reports that are all claimed once, or have but a repeat left, are the first ones;
\* each left to claim has had its place in the count taken.
LEMMA Displaced ==
  ASSUME TypeOK, ~task.agent, SourceInv, HeardOut,
         NEW H, Claimed \subseteq H, H \subseteq Heard
  PROVE  \E k \in 0..Spoken : H = 1..k /\ k + body.again >= Spoken
<1>1. /\ Spoken \in Nat /\ body.again \in Nat /\ run.index \in Nat /\ workflow \in Seq(Message)
      /\ task.workflow \in BOOLEAN
  BY HookTypes
<1>2. PICK k \in 0..Spoken : Unclaimed = (k + 1)..Spoken
  BY DEF SourceInv
<1>3. 1..k \subseteq H
  BY <1>1, <1>2 DEF Claimed
<1>4. CASE k = Spoken
  <2>1. H = 1..k
    BY <1>3, <1>4 DEF Heard
  <2>2. k + body.again >= Spoken
    BY <1>1, <1>4
  <2> QED
    BY <2>1, <2>2
<1>5. CASE k < Spoken
  <2>1. k + 1 \in Unclaimed /\ k + 1 \in 1..Spoken
    BY <1>1, <1>2, <1>5
  <2>2. H \subseteq 1..(k + 1)
    BY <1>1, <1>2, <2>1 DEF Heard
  <2>3. task.workflow /\ Spoken <= run.index /\ k + 1 \in Waiting(workflow)
    BY <1>1, <2>1 DEF HeardOut, SourceInv, Unclaimed
  <2>4. PICK i \in DOMAIN workflow : IsReport(workflow[i]) /\ workflow[i].n = k + 1
    BY <2>3 DEF Waiting, Range
  <2>5. PICK c \in [DOMAIN workflow -> Nat] : run.index < c[i] /\ c[i] <= workflow[i].n + body.again
    BY <2>4 DEF SourceInv, Counted
  <2>6. c[i] \in Nat
    BY <2>4, <2>5
  <2>7. k + body.again >= Spoken
    BY <1>1, <1>2, <2>3, <2>4, <2>5, <2>6
  <2>8. CASE k + 1 \in H
    <3>1. \A n : n \in 1..(k + 1) <=> n \in 1..k \/ n = k + 1
      BY <1>1
    <3>2. H = 1..(k + 1)
      BY <1>3, <2>2, <2>8, <3>1
    <3>3. k + 1 \in 0..Spoken /\ k + 1 + body.again >= Spoken
      BY <1>1, <1>5, <2>7
    <3> QED
      BY <3>2, <3>3
  <2>9. CASE k + 1 \notin H
    <3>1. \A n : n \in 1..(k + 1) <=> n \in 1..k \/ n = k + 1
      BY <1>1
    <3>2. H = 1..k
      BY <1>3, <2>2, <2>9, <3>1
    <3> QED
      BY <2>7, <3>2
  <2> QED
    BY <2>8, <2>9
<1> QED
  BY <1>1, <1>2, <1>4, <1>5

\* A completed task has handed over what it has heard.
LEMMA CompletedHandedOver ==
  ASSUME IInv, ~task.agent, ReportsKept, wakeTaskParentStep("completed") \in Range(told)
  PROVE  \E k \in 0..Spoken :
           /\ HandedOver("message", told) \cup HandedOver("update", progress) = 1..k
           /\ k + body.again >= Spoken
<1> DEFINE e == wakeTaskParentStep("completed")
<1>1. /\ TypeOK /\ SourceInv /\ CompleteInv /\ FlowInv /\ EndInv /\ TodoInv /\ CancelInv /\ RunInv
  BY DEF IInv, ReportsKept
<1>2. e \in Ends /\ e.kind = "completed"
  BY DEF Ends, Delivered, IsEnd, isTerminalTaskStatus, TerminalStatuses, wakeTaskParentStep
<1>3. view.status = "completed" /\ HeardEnd # {}
  <2>1. e = wakeTaskParentStep(view.status)
    BY <1>1, <1>2 DEF EndInv
  <2>2. HeardEnd # {}
    BY <1>2, HeardEnds DEF Ends
  <2> QED
    BY <2>1, <2>2 DEF wakeTaskParentStep
<1>4. \A d \in Range(inbox) : ~IsMessage(d)
  BY <1>1, <1>3 DEF EndInv, IsEnd, IsMessage, isTerminalTaskStatus, TerminalStatuses
<1>5. ~run.rejected
  <2>1. Indexed
    BY <1>2 DEF IInv, SilentUntilIndexed, Ends, Indexed
  <2> QED
    BY <1>1, <2>1 DEF RunInv, Indexed
<1>6. run.status = "completed" /\ run.acked /\ Quiet(todo)
  <2>1. CASE Running
    <3>1. isFinished(run) /\ \A x \in Range(todo) : EndWake(x)
      BY <1>1, <1>2, <2>1 DEF EndInv
    <3>2. ~HasView(todo) /\ Quiet(todo)
      BY <3>1 DEF HasView, Quiet, EndWake, Speaks, MessageStep, ProgressStep, IsEnd, IsMessage,
                  isTerminalTaskStatus, TerminalStatuses
    <3> QED
      BY <1>1, <1>3, <3>1, <3>2 DEF TodoInv, isFinished
  <2>2. CASE ~Running
    <3>1. run.phase = "finished"
      BY <1>1, <1>3, <2>2 DEF CancelInv, Running, TypeOK, RunState
    <3>2. todo = <<>> /\ run.acked
      BY <1>1, <3>1 DEF CompleteInv
    <3>3. ~HasView(todo)
      BY <3>2, RangeOfFew DEF HasView
    <3> QED
      BY <1>1, <1>3, <3>2, <3>3, QuietLists DEF TodoInv
  <2> QED
    BY <2>1, <2>2
<1>7. HeardOut /\ ~Lost /\ Range(run.messages) = {}
  BY <1>1, <1>5, <1>6, RangeOfFew DEF CompleteInv, Lost, FlowInv, LineInv
<1> DEFINE H == HandedOver("message", told) \cup HandedOver("update", progress)
<1>8. Claimed \subseteq H
  <2> SUFFICES ASSUME NEW n \in Claimed PROVE n \in H
    OBVIOUS
  <2>1. Placed(n)
    BY <1>1, <1>7 DEF FlowInv, CoverInv
  <2>2. \/ \E d \in Range(told) : IsMessage(d) /\ d.src = n
        \/ \E d \in Range(progress) : d.kind = "update" /\ d.src = n
    BY <1>1, <1>4, <1>6, <1>7, <2>1 DEF Placed, Quiet, Delivered, FlowInv, NumberInv
  <2> QED
    BY <2>2 DEF HandedOver, Range, IsMessage
<1>9. H \subseteq Heard
  <2> SUFFICES ASSUME NEW n \in H PROVE n \in Heard
    OBVIOUS
  <2>1. \/ \E d \in Range(told) : IsMessage(d) /\ d.src = n
        \/ \E d \in Range(progress) : d.src = n
    BY DEF HandedOver, Range, IsMessage
  <2> QED
    BY <1>1, <2>1 DEF FlowInv, NumberInv, Numbered, Delivered
<1> HIDE DEF H
<1>10. \E k \in 0..Spoken : H = 1..k /\ k + body.again >= Spoken
  BY <1>1, <1>7, <1>8, <1>9, Displaced
<1> QED
  BY <1>10 DEF H

\* A task without an agent, whether a workflow body or an ordinary tool: when the
\* parent is told that it completed, the reports of its executor have been handed
\* over from the first on, in order, messages to the parent and updates to the
\* progress stream: however the result races the last reports through the channels,
\* and whatever else is repeated, answered or cancelled on the way.  All of them, if
\* no sending step of the body ran again; each that did may cost the last one left,
\* for the run counts it among the reports the result waits for.
THEOREM ReportsFirst == Spec => []ReportsBeforeEnd
<1>1. IInv /\ ReportInv => ReportsBeforeEnd
  BY CompletedHandedOver DEF ReportsBeforeEnd, ReportInv, ReportsKept, FlowInv, LineInv
<1> QED
  BY <1>1, TaskInvariant, ReportsAccounted, PTL
-----------------------------------------------------------------------------
(* Questions.  A task that asks one question at a time (an agent parks on    *)
(* its question; a body may ask again before the answer) has at most one     *)
(* open: the last.  It waits in the hook of the body or is shown by the run. *)
(* Its sending step may have put it there several times, and older questions *)
(* wait there too, but only in front of it.                                  *)

\* The questions in a hook, and that they are in the order they were asked.
IsAsk(m) == m.kind = "ask"
Asks(q) == {m.n : m \in {y \in Range(q) : IsAsk(y)}}
AsksRise(q) ==
  \A i, j \in DOMAIN q : i < j /\ IsAsk(q[i]) /\ IsAsk(q[j]) => q[i].n <= q[j].n

\* One question at a time: of every task whose body has an agent, and of a body
\* without one that asks only once.
OneAtATime == task.agent \/ task.asks <= 1

\* What is answered, shown or about to be passed on was asked; only the last
\* question may be open, it alone is sent again, it is in a hook with any other,
\* and when it has been claimed it is what the run asks.
AskedInv ==
  /\ body.answered \subseteq 1..body.asked
  /\ (1..body.asked) \ body.answered \subseteq {body.asked}
  /\ Asks(workflow) \subseteq 1..body.asked /\ AsksRise(workflow)
  /\ Asks(workflow) # {} => body.asked \in Asks(workflow)
  /\ \A f \in body.flight : IsAsk(f) => f.n = body.asked
  /\ run.requests \subseteq 1..body.asked
  /\ \A x \in Range(todo) : x.op = "answer" => x.d.n \in 1..body.asked
  /\ \A q \in (1..body.asked) \ body.answered :
       \/ q \in Asks(workflow)
       \/ isTerminalTaskStatus(run.status) \/ (run.status = "input_required" /\ run.requests = {q})
AskInv == OneAtATime => AskedInv

-----------------------------------------------------------------------------
(* Questions in a hook and in the steps in hand.                           *)

\* One more entry in a hook.
LEMMA AsksGrow ==
  ASSUME NEW q \in Seq(Message), NEW m \in Message
  PROVE  /\ ~IsAsk(m) => Asks(Append(q, m)) = Asks(q)
         /\ IsAsk(m) => Asks(Append(q, m)) = Asks(q) \cup {m.n}
         /\ AsksRise(q) /\ (IsAsk(m) => \A n \in Asks(q) : n <= m.n) => AsksRise(Append(q, m))
<1>1. Range(Append(q, m)) = Range(q) \cup {m}
  BY RangeOfAppend
<1>2. ASSUME AsksRise(q), IsAsk(m) => \A n \in Asks(q) : n <= m.n
      PROVE  AsksRise(Append(q, m))
  <2>1. ASSUME NEW i \in 1..Len(q), IsAsk(q[i])
        PROVE  q[i].n \in Asks(q)
    <3>1. q[i] \in Range(q)
      BY Indices DEF Range
    <3> QED
      BY <2>1, <3>1 DEF Asks
  <2>2. /\ DOMAIN q = 1..Len(q) /\ Len(q) \in Nat
        /\ DOMAIN Append(q, m) = 1..(Len(q) + 1)
        /\ (\A i \in 1..Len(q) : Append(q, m)[i] = q[i]) /\ Append(q, m)[Len(q) + 1] = m
    BY Appended
  <2> DEFINE s == Append(q, m)
  <2>3. /\ \A i, j \in 1..(Len(q) + 1) : i < j => i \in 1..Len(q)
        /\ \A j \in 1..(Len(q) + 1) : j \in 1..Len(q) \/ j = Len(q) + 1
    BY <2>2
  <2> HIDE DEF s
  <2>4. ASSUME NEW i \in 1..(Len(q) + 1), NEW j \in 1..(Len(q) + 1), i < j, IsAsk(s[i]), IsAsk(s[j])
        PROVE  s[i].n <= s[j].n
    <3>1. i \in 1..Len(q) /\ s[i] = q[i]
      BY <2>2, <2>3, <2>4 DEF s
    <3>2. CASE j \in 1..Len(q)
      BY <1>2, <2>2, <2>4, <3>1, <3>2 DEF AsksRise, s
    <3>3. CASE j = Len(q) + 1
      BY <1>2, <2>1, <2>2, <2>4, <3>1, <3>3 DEF s
    <3> QED
      BY <2>3, <3>2, <3>3
  <2> QED
    BY <2>2, <2>4 DEF AsksRise, s
<1> QED
  BY <1>1, <1>2 DEF Asks

\* The first entry of a hook is taken.
LEMMA AsksShrink ==
  ASSUME NEW q \in Seq(Message), q # <<>>
  PROVE  /\ ~IsAsk(Head(q)) => Asks(q) = Asks(Tail(q))
         /\ IsAsk(Head(q)) => Asks(q) = Asks(Tail(q)) \cup {Head(q).n}
         /\ AsksRise(q) => /\ AsksRise(Tail(q))
                           /\ IsAsk(Head(q)) => \A n \in Asks(Tail(q)) : Head(q).n <= n
<1>1. Range(q) = {Head(q)} \cup Range(Tail(q))
  BY RangeOfTail
<1>2. ASSUME AsksRise(q)
      PROVE  AsksRise(Tail(q)) /\ (IsAsk(Head(q)) => \A n \in Asks(Tail(q)) : Head(q).n <= n)
  <2>1. AsksRise(Tail(q))
    BY <1>2, Shifted DEF AsksRise
  <2>2. IsAsk(Head(q)) => \A i \in 1..(Len(q) - 1) : IsAsk(Tail(q)[i]) => Head(q).n <= Tail(q)[i].n
    BY <1>2, Shifted DEF AsksRise
  <2> QED
    BY <2>1, <2>2, Shifted DEF Asks, Range
<1> QED
  BY <1>1, <1>2 DEF Asks

\* Steps that pass no answer on, and two lists of them.
NoAnswer(s) == \A x \in Range(s) : x.op # "answer"
LEMMA FewAnswers == NoAnswer(<<>>) /\ \A x : x.op # "answer" => NoAnswer(<<x>>)
BY RangeOfFew DEF NoAnswer

LEMMA AnswersJoined ==
  ASSUME NEW S
  PROVE  \A s, t \in Seq(S) : s \o t \in Seq(S) /\ (NoAnswer(s) /\ NoAnswer(t) => NoAnswer(s \o t))
BY RangeConcatenation, ConcatProperties DEF NoAnswer

\* What a command makes of the questions a run shows: nothing, an end with none, the
\* question of a request, or one less, which was shown.
Showing(r, c, s) ==
  \/ /\ s.status = r.status /\ s.requests = r.requests
     /\ c.kind = "require-input" => isTerminalTaskStatus(r.status)
  \/ isTerminalTaskStatus(s.status) /\ s.requests = {}
  \/ c.kind = "require-input" /\ s.status = "input_required" /\ s.requests = {c.q}
  \/ /\ c.kind = "answered" /\ c.q \in r.requests /\ s.requests \subseteq r.requests
     /\ ~isTerminalTaskStatus(r.status)

\* So does applyTaskTransition, of a command it accepts.
LEMMA TransitionShows ==
  ASSUME NEW r \in RunState, NEW c \in Transitions, Accepts(r, c) \/ c.kind = "ready"
  PROVE  Showing(r, c, applyTaskTransition(r, c))
<1> DEFINE v == applyTaskTransition(r, c)
<1>1. ASSUME NEW t, NEW Q
      PROVE  Moved(r, t, Q).status = t /\ Moved(r, t, Q).requests = Q
  BY DEF RunState, Moved
<1>2. /\ \A t \in {"completed", "failed", "cancelled"} : isTerminalTaskStatus(t)
      /\ c.kind \in {"ready", "reject-dispatch", "cancel", "complete", "fail", "require-input", "answered"}
  BY DEF TerminalStatuses, isTerminalTaskStatus, Transitions
<1>3. /\ c.kind = "complete" => v = Moved(r, "completed", {})
      /\ c.kind \in {"fail", "reject-dispatch"} => v = Moved(r, "failed", {})
      /\ c.kind = "cancel" => v = Moved(r, "cancelled", {})
      /\ c.kind = "require-input" => v = Moved(r, "input_required", {c.q})
      /\ c.kind = "answered" => v = Moved(r, IF r.requests = {c.q} THEN "working" ELSE "input_required",
                                           r.requests \ {c.q})
      /\ c.kind = "ready" => v = r
  BY <1>2 DEF applyTaskTransition
<1> SUFFICES Showing(r, c, v)
  OBVIOUS
<1> HIDE DEF v
<1>4. CASE c.kind \in {"complete", "fail", "reject-dispatch", "cancel"}
  BY <1>1, <1>2, <1>3, <1>4 DEF Showing
<1>5. CASE c.kind = "require-input"
  BY <1>1, <1>3, <1>5 DEF Showing
<1>6. CASE c.kind = "answered"
  <2>1. c.q \in r.requests /\ ~isTerminalTaskStatus(r.status)
    BY <1>6 DEF Accepts
  <2>2. v.requests = r.requests \ {c.q}
    BY <1>1, <1>3, <1>6
  <2> QED
    BY <1>6, <2>1, <2>2 DEF Showing
<1>7. CASE c.kind = "ready"
  BY <1>3, <1>7 DEF Showing
<1> QED
  BY <1>2, <1>4, <1>5, <1>6, <1>7

\* A command passes no answer on, and shows questions so.
LEMMA CommandShows ==
  ASSUME NEW r \in RunState, NEW c \in Transitions
  PROVE  LET a == ApplyCommand(r, c)
         IN /\ NoAnswer(a.steps) /\ Showing(r, c, a.run)
            /\ \E S : a.steps \in Seq(S) /\ DurableStep \subseteq S
<1> DEFINE
      v == applyTaskTransition(r, c)
      settled == r.settled \/ (c.kind = "cancel" /\ ~r.reading)
      flushes == ~isTerminalTaskStatus(v.status) /\ r.acked
      asks == r.ask # 0 /\ r.acked /\ v.status = "input_required"
      wakes == /\ ~r.rejected /\ r.acked
               /\ c.kind # "cancel" \/ settled
               /\ \/ isTerminalTaskStatus(v.status)
                  \/ /\ ~isReadyTaskStatus(r.status)
                     /\ isReadyTaskStatus(v.status)
                     /\ r.ask = 0
      a == ApplyCommand(r, c)
<1>1. FlushedUpdates(r) \in Seq(DurableStep) /\ NoAnswer(FlushedUpdates(r))
  BY FlushedSteps DEF NoAnswer
<1>2. \A d : Wake(d).op # "answer"
  BY DEF Wake, Step
<1>3. CASE c.kind = "ready" /\ isTerminalTaskStatus(r.status)
  <2> DEFINE e == Wake(wakeTaskParentStep(r.status))
  <2>1. a = [run |-> [r EXCEPT !.updates = <<>>], steps |-> Append(FlushedUpdates(r), e)]
    BY <1>3 DEF ApplyCommand
  <2>2. a.run = [r EXCEPT !.updates = <<>>] /\ a.steps = Append(FlushedUpdates(r), e) /\ e.op # "answer"
    BY <1>2, <2>1
  <2> HIDE DEF e, a
  <2>3. FlushedUpdates(r) \in Seq(DurableStep \cup {e})
    BY <1>1
  <2>4. NoAnswer(a.steps) /\ a.steps \in Seq(DurableStep \cup {e})
    BY <1>1, <2>2, <2>3, RangeOfAppend, AppendProperties DEF NoAnswer
  <2>5. a.run.status = r.status /\ a.run.requests = r.requests
    BY <2>2 DEF RunState
  <2> QED
    BY <1>3, <2>4, <2>5 DEF a, Showing
<1>4. CASE ~(c.kind = "ready" /\ isTerminalTaskStatus(r.status)) /\ ~Accepts(r, c)
  <2>1. a = [run |-> r, steps |-> <<>>]
    BY <1>4 DEF ApplyCommand
  <2>2. c.kind = "require-input" => isTerminalTaskStatus(r.status)
    BY <1>4 DEF Accepts
  <2>3. <<>> \in Seq(DurableStep)
    OBVIOUS
  <2> QED
    BY <2>1, <2>2, <2>3, FewAnswers DEF Showing
<1>5. CASE ~(c.kind = "ready" /\ isTerminalTaskStatus(r.status)) /\ Accepts(r, c)
  <2> DEFINE
        s == [v EXCEPT !.settled = settled, !.updates = IF flushes THEN <<>> ELSE @,
                       !.ask = IF asks \/ v.status # "input_required" THEN 0 ELSE @]
        s1 == <<appendTaskViewStep(v)>>
        s2 == IF c.kind = "cancel" THEN <<Step("abort", Nothing)>> ELSE <<>>
        s3 == IF flushes THEN FlushedUpdates(r) ELSE <<>>
        s4 == IF asks THEN <<Wake(wakeWorkflowTaskInputRequestParentStep(r.ask))>>
              ELSE IF wakes THEN <<Wake(wakeTaskParentStep(v.status))>> ELSE <<>>
  <2>1. a = [run |-> s, steps |-> s1 \o s2 \o s3 \o s4]
    BY <1>5 DEF ApplyCommand
  <2>2. v \in RunState /\ Showing(r, c, v)
    BY <1>5, TransitionMoves, TransitionShows
  <2> HIDE DEF v
  <2>3. s.status = v.status /\ s.requests = v.requests
    BY <2>2, ZenonT(40) DEF RunState
  <2> DEFINE
        S == DurableStep \cup {appendTaskViewStep(v), Step("abort", Nothing),
               Wake(wakeWorkflowTaskInputRequestParentStep(r.ask)), Wake(wakeTaskParentStep(v.status))}
  <2>4. /\ DurableStep \subseteq S /\ <<>> \in Seq(S) /\ \A x \in S : <<x>> \in Seq(S)
        /\ {appendTaskViewStep(v), Step("abort", Nothing),
            Wake(wakeWorkflowTaskInputRequestParentStep(r.ask)), Wake(wakeTaskParentStep(v.status))} \subseteq S
    OBVIOUS
  <2> HIDE DEF S
  <2>5. appendTaskViewStep(v).op # "answer" /\ Step("abort", Nothing).op # "answer"
    BY DEF appendTaskViewStep, Step
  <2>6. s1 \in Seq(S) /\ NoAnswer(s1)
    BY <2>4, <2>5, FewAnswers
  <2>7. s2 \in Seq(S) /\ NoAnswer(s2)
    BY <2>4, <2>5, FewAnswers
  <2>8. s3 \in Seq(S) /\ NoAnswer(s3)
    BY <1>1, <2>4, FewAnswers
  <2>9. s4 \in Seq(S) /\ NoAnswer(s4)
    BY <1>2, <2>4, FewAnswers
  <2> HIDE DEF s, s1, s2, s3, s4
  <2>10. \A x, y \in Seq(S) : x \o y \in Seq(S) /\ (NoAnswer(x) /\ NoAnswer(y) => NoAnswer(x \o y))
    BY AnswersJoined
  <2>11. NoAnswer(s1 \o s2 \o s3 \o s4) /\ s1 \o s2 \o s3 \o s4 \in Seq(S)
    BY <2>6, <2>7, <2>8, <2>9, <2>10
  <2>12. Showing(r, c, s)
    BY <2>2, <2>3 DEF Showing
  <2> QED
    BY <2>1, <2>4, <2>11, <2>12
<1> QED
  BY <1>3, <1>4, <1>5

\* What is no command shows the same questions and passes no answer on.
LEMMA HandlersShow ==
  ASSUME NEW r \in RunState
  PROVE  /\ \A u : LET h == handleUpdate(r, u)
                   IN NoAnswer(h.steps) /\ h.run.status = r.status /\ h.run.requests = r.requests
         /\ \A u : LET h == handleMessage(r, u)
                   IN NoAnswer(h.steps) /\ h.run.status = r.status /\ h.run.requests = r.requests
         /\ \A n : LET h == handleOwnerRequest(r, n)
                   IN NoAnswer(h.steps) /\ h.run.status = r.status /\ h.run.requests = r.requests
<1>1. \A x : /\ [r EXCEPT !.updates = x].status = r.status /\ [r EXCEPT !.updates = x].requests = r.requests
             /\ [r EXCEPT !.messages = x].status = r.status /\ [r EXCEPT !.messages = x].requests = r.requests
             /\ [r EXCEPT !.owners = x].status = r.status /\ [r EXCEPT !.owners = x].requests = r.requests
  BY DEF RunState
<1>2. NoAnswer(<<>>) /\ \A d : NoAnswer(<<Wake(d)>>) /\ NoAnswer(<<Step("progress", d)>>)
  BY FewAnswers DEF Wake, Step
<1>3. ASSUME NEW u
      PROVE  LET h == handleUpdate(r, u)
             IN NoAnswer(h.steps) /\ h.run.status = r.status /\ h.run.requests = r.requests
  BY <1>1, <1>2 DEF handleUpdate
<1>4. ASSUME NEW u
      PROVE  LET h == handleMessage(r, u)
             IN NoAnswer(h.steps) /\ h.run.status = r.status /\ h.run.requests = r.requests
  BY <1>1, <1>2 DEF handleMessage
<1>5. ASSUME NEW n
      PROVE  LET h == handleOwnerRequest(r, n)
             IN NoAnswer(h.steps) /\ h.run.status = r.status /\ h.run.requests = r.requests
  BY <1>1, <1>2 DEF handleOwnerRequest
<1> QED
  BY <1>3, <1>4, <1>5

\* Nor does an acknowledgement change what is shown.
LEMMA AcknowledgedShows ==
  ASSUME NEW r \in RunState, NEW rejects
  PROVE  Acknowledged(r, rejects).status = r.status /\ Acknowledged(r, rejects).requests = r.requests
BY DEF Acknowledged, RunState

-----------------------------------------------------------------------------
(* What a step does to the questions.                                      *)

\* The types the proofs need.
LEMMA AskTypes ==
  ASSUME TypeOK
  PROVE  /\ workflow \in Seq(Message) /\ body \in BodyState
         /\ todo \in Seq(DurableStep) /\ run \in RunState /\ body.asked \in Nat
         /\ task.asks \in Nat /\ task.workflow \in BOOLEAN
BY TaskConstants DEF TypeOK, BodyState

\* A step that poses no question and settles none with an answer; it may send the
\* open question again, and pass on an answer to a question that is shown.
LEMMA AskedStays ==
  ASSUME AskedInv, body'.asked = body.asked, body'.answered = body.answered,
         \A f \in body'.flight : f \in body.flight \/ ~IsAsk(f),
         AsksRise(workflow'),
         \/ Asks(workflow') = Asks(workflow)
         \/ body.asked \in 1..body.asked /\ Asks(workflow') = Asks(workflow) \cup {body.asked},
         \/ run'.status = run.status /\ run'.requests = run.requests
         \/ isTerminalTaskStatus(run'.status) /\ run'.requests = {},
         \A x \in Range(todo') : x.op = "answer" => x.d.n \in run.requests \/ x \in Range(todo)
  PROVE  AskedInv'
<1>1. \A x \in Range(todo') : x.op = "answer" => x.d.n \in 1..body.asked
  BY DEF AskedInv
<1>2. run'.requests \subseteq 1..body.asked
  BY DEF AskedInv
<1>3. \A f \in body'.flight : IsAsk(f) => f.n = body.asked
  BY DEF AskedInv
<1> QED
  BY <1>1, <1>2, <1>3 DEF AskedInv

\* The result of the body settles the task.
LEMMA SettleBodyAsked ==
  ASSUME IInv, AskedInv, SettleBody
  PROVE  AskedInv'
<1> DEFINE r == [run EXCEPT !.settled = TRUE]
           c == [kind |-> run.result.kind, q |-> 0]
           a == ApplyCommand(r, c)
           x == IF a.run.status = "cancelled" /\ run.acked /\ ~run.rejected
                  THEN <<Wake(wakeTaskParentStep("cancelled"))>> ELSE <<>>
<1>1. /\ run.result # NoResult /\ run' = [a.run EXCEPT !.result = NoResult]
      /\ todo' = a.steps \o x /\ UNCHANGED <<workflow, body>>
  BY DEF SettleBody, ResultDue
<1>2. TypeOK /\ run \in RunState /\ task.agent \in BOOLEAN /\ NoResult \in Result
  BY HookTypes DEF IInv, NoResult, Result
<1>3. r \in RunState /\ r.status = run.status /\ r.requests = run.requests
  BY <1>2 DEF RunState
<1>4. c \in Transitions /\ c.kind \in {"complete", "fail", "cancel"}
  BY <1>1, <1>2 DEF RunState, Result, RunInv, IInv, Transitions
<1>5. Applicable(r, c)
  BY <1>1, <1>2 DEF Applicable, r, c, IInv, RunInv, RunState, Result
<1> HIDE DEF r, c
<1>6. /\ NoAnswer(a.steps) /\ Showing(r, c, a.run)
      /\ a.run \in RunState /\ a.steps \in Seq(DurableStep)
  BY <1>2, <1>3, <1>4, <1>5, CommandShows, ApplyCommandFacts DEF Applied
<1> HIDE DEF a
<1>7. run'.status = a.run.status /\ run'.requests = a.run.requests
  BY <1>1, <1>2, <1>6 DEF RunState
<1>8. NoAnswer(todo')
  <2> DEFINE e == Wake(wakeTaskParentStep("cancelled"))
  <2>1. x \in Seq(DurableStep \cup {e}) /\ NoAnswer(x)
    <3>1. e.op # "answer"
      BY DEF Wake, Step
    <3>2. <<>> \in Seq(DurableStep \cup {e}) /\ <<e>> \in Seq(DurableStep \cup {e})
      OBVIOUS
    <3>3. x = <<>> \/ x = <<e>>
      OBVIOUS
    <3> HIDE DEF e, x
    <3> QED
      BY <3>1, <3>2, <3>3, FewAnswers
  <2> HIDE DEF x, e
  <2>2. a.steps \in Seq(DurableStep \cup {e})
    BY <1>6
  <2> QED
    BY <1>1, <1>6, <2>1, <2>2, AnswersJoined
<1> QED
  BY <1>1, <1>3, <1>4, <1>6, <1>7, <1>8, AskedStays DEF Showing, NoAnswer, AskedInv

\* What the body sent is claimed: a question is now asked by the run, or the task
\* has ended.
LEMMA ClaimWorkflowAsked ==
  ASSUME IInv, AskedInv, ClaimWorkflow
  PROVE  AskedInv'
<1> DEFINE m == Head(workflow)
           counted == [run EXCEPT !.index = @ + 1]
           report == [n |-> m.n, index |-> run.index]
           r == [run EXCEPT !.ask = m.n]
           c == [kind |-> "require-input", q |-> m.n]
           a == ApplyCommand(r, c)
<1>1. /\ workflow # <<>> /\ workflow' = Tail(workflow) /\ UNCHANGED body /\ TypeOK
  BY DEF ClaimWorkflow, others, IInv, ReaderInv
<1>2. /\ workflow \in Seq(Message) /\ run \in RunState /\ body.asked \in Nat
  BY <1>1, AskTypes
<1>3. m.kind \in {"update", "message", "owner", "ask"} /\ m.n \in Nat \ {0}
  <2>1. m \in Message
    BY <1>1, <1>2, Shifted
  <2> QED
    BY <2>1 DEF Message
<1>4. /\ AsksRise(workflow')
      /\ ~IsAsk(m) => Asks(workflow') = Asks(workflow)
      /\ IsAsk(m) => /\ Asks(workflow) = Asks(workflow') \cup {m.n}
                     /\ \A n \in Asks(workflow') : m.n <= n
  <2>1. AsksRise(workflow)
    BY DEF AskedInv
  <2> QED
    BY <1>1, <1>2, <2>1, AsksShrink
<1>5. CASE m.kind # "ask"
  <2>1. /\ counted \in RunState /\ counted.status = run.status /\ counted.requests = run.requests
    <3>1. run.index + 1 \in Nat
      BY <1>2 DEF RunState
    <3> QED
      BY <1>2, <3>1 DEF RunState
  <2>2. \/ run' = handleUpdate(counted, report).run /\ todo' = handleUpdate(counted, report).steps
        \/ run' = handleMessage(counted, report).run /\ todo' = handleMessage(counted, report).steps
        \/ run' = handleOwnerRequest(run, m.n).run /\ todo' = handleOwnerRequest(run, m.n).steps
    BY <1>3, <1>5 DEF ClaimWorkflow
  <2> HIDE DEF counted, report, m
  <2>3. NoAnswer(todo') /\ run'.status = run.status /\ run'.requests = run.requests
    BY <1>2, <2>1, <2>2, HandlersShow
  <2> QED
    BY <1>1, <1>4, <1>5, <2>3, AskedStays DEF NoAnswer, IsAsk
<1>6. CASE m.kind = "ask"
  <2>1. run' = a.run /\ todo' = a.steps
    BY <1>6 DEF ClaimWorkflow
  <2>2. r \in RunState /\ r.status = run.status /\ r.requests = run.requests
    BY <1>2, <1>3 DEF RunState
  <2>3. c \in Transitions /\ c.kind = "require-input" /\ c.q = m.n
    BY <1>3 DEF Transitions
  <2> HIDE DEF m, r, c
  <2>4. NoAnswer(a.steps) /\ Showing(r, c, a.run)
    BY <2>2, <2>3, CommandShows
  <2> HIDE DEF a
  <2>5. m.n \in 1..body.asked /\ Asks(workflow') \subseteq 1..body.asked
    BY <1>4, <1>6 DEF AskedInv, IsAsk
  <2>6. Asks(workflow') # {} => body.asked \in Asks(workflow')
    <3>1. body.asked \in Asks(workflow)
      BY <1>4, <1>6 DEF AskedInv, IsAsk
    <3>2. ASSUME m.n = body.asked, NEW n \in Asks(workflow')
          PROVE  n = body.asked
      BY <1>2, <1>4, <1>6, <2>5, <3>2 DEF IsAsk
    <3> QED
      BY <1>4, <1>6, <3>1, <3>2 DEF IsAsk
  <2>7. run'.requests \subseteq 1..body.asked
    BY <2>1, <2>2, <2>3, <2>4, <2>5 DEF Showing, AskedInv
  <2>8. isTerminalTaskStatus(run'.status) \/ (run'.status = "input_required" /\ run'.requests = {m.n})
    BY <2>1, <2>2, <2>3, <2>4 DEF Showing
  <2>9. ASSUME NEW q \in (1..body.asked) \ body.answered
        PROVE  q \in Asks(workflow') \/ q = m.n
    <3>1. q = body.asked /\ body.asked \in Asks(workflow)
      BY <1>4, <1>6, <2>9 DEF AskedInv, IsAsk
    <3> QED
      BY <1>4, <1>6, <3>1 DEF IsAsk
  <2> QED
    BY <1>1, <1>4, <2>1, <2>4, <2>5, <2>6, <2>7, <2>8, <2>9 DEF AskedInv, NoAnswer
<1> QED
  BY <1>5, <1>6

\* What the parent sent is claimed: an answer is passed on only to a question shown.
LEMMA ClaimCommandAsked ==
  ASSUME IInv, AskedInv, ClaimCommand
  PROVE  AskedInv'
<1> DEFINE c == Head(commands)
           acks == c.kind \in {"ready", "reject-dispatch"}
           rejects == c.kind = "reject-dispatch"
           r == IF acks THEN Acknowledged(run, rejects) ELSE run
           report == [n |-> c.n, index |-> c.n]
           t == [kind |-> c.kind, q |-> 0]
           a == ApplyCommand(r, t)
           f == IF acks THEN flushPendingTraffic(run, rejects) ELSE <<>>
<1>1. /\ commands # <<>> /\ UNCHANGED workflow /\ TypeOK
      /\ body'.asked = body.asked /\ body'.answered = body.answered
      /\ body'.flight = body.flight /\ AsksRise(workflow)
  <2>1. commands # <<>> /\ UNCHANGED workflow /\ TypeOK /\ AsksRise(workflow)
    BY DEF ClaimCommand, others, IInv, ReaderInv, AskedInv
  <2>2. body' = body \/ body' = [body EXCEPT !.pc = "running", !.starts = @ + 1]
    BY DEF ClaimCommand
  <2> QED
    BY <2>1, <2>2, AskTypes DEF BodyState
<1>2. /\ run \in RunState /\ task.agent \in BOOLEAN /\ task.workflow \in BOOLEAN
      /\ c \in [kind : CommandKinds, n : Nat]
  BY <1>1, HookTypes, Shifted
<1>3. c.kind \in CommandKinds
  BY <1>2
<1>4. /\ c.kind = "update" => /\ run' = handleUpdate(run, report).run
                              /\ todo' = <<>> \o handleUpdate(run, report).steps
      /\ c.kind = "message" => /\ run' = handleMessage(run, report).run
                               /\ todo' = <<>> \o handleMessage(run, report).steps
      /\ c.kind = "answer" => /\ run' = run
                              /\ todo' = <<>> \o resolveAnsweredCommand(run, c.n)
      /\ c.kind \notin {"update", "message", "answer"} => run' = a.run /\ todo' = f \o a.steps
  BY DEF ClaimCommand
<1> HIDE DEF c
<1>5. <<>> \o <<>> = <<>> /\ \A x : <<>> \o <<x>> = <<x>>
  OBVIOUS
<1>6. CASE c.kind \in {"update", "message"}
  <2>1. PICK h \in {handleUpdate(run, report), handleMessage(run, report)} :
          run' = h.run /\ todo' = <<>> \o h.steps
    BY <1>4, <1>6
  <2> HIDE DEF report
  <2>2. NoAnswer(h.steps) /\ h.run.status = run.status /\ h.run.requests = run.requests
    BY <1>2, <2>1, HandlersShow
  <2>3. h.steps = <<>> \/ \E x : h.steps = <<x>>
    BY <2>1 DEF handleUpdate, handleMessage
  <2>4. NoAnswer(todo')
    BY <1>5, <2>1, <2>2, <2>3
  <2> QED
    BY <1>1, <2>1, <2>2, <2>4, AskedStays DEF NoAnswer
<1>7. CASE c.kind = "answer"
  <2> DEFINE x == Step("answer", [kind |-> "answer", n |-> c.n, src |-> c.n])
  <2>1. todo' = <<>> \/ (todo' = <<x>> /\ c.n \in run.requests)
    BY <1>4, <1>5, <1>7 DEF resolveAnsweredCommand
  <2>2. x.d.n = c.n
    BY DEF Step
  <2> HIDE DEF x
  <2>3. \A y \in Range(todo') : y.d.n \in run.requests
    BY <2>1, <2>2, RangeOfFew
  <2> QED
    BY <1>1, <1>4, <1>7, <2>3, AskedStays
<1>8. CASE c.kind \notin {"update", "message", "answer"}
  <2>1. c.kind \in {"ready", "reject-dispatch", "cancel", "complete"} /\ rejects \in BOOLEAN
    BY <1>3, <1>8 DEF CommandKinds
  <2>2. r \in RunState /\ r.status = run.status /\ r.requests = run.requests
    <3>1. CASE acks
      <4>1. r = Acknowledged(run, rejects)
        BY <3>1
      <4> DEFINE k == Acknowledged(run, rejects)
      <4>2. k \in RunState
        BY <1>2, <2>1, AcknowledgedFacts
      <4>3. k.status = run.status /\ k.requests = run.requests
        BY <1>2, AcknowledgedShows
      <4> HIDE DEF k
      <4>4. r = k
        BY <4>1 DEF k
      <4> HIDE DEF r
      <4> QED
        BY <4>2, <4>3, <4>4
    <3>2. CASE ~acks
      BY <1>2, <3>2
    <3> QED
      BY <3>1, <3>2
  <2>3. f \in Seq(DurableStep) /\ NoAnswer(f)
    <3>1. CASE acks
      BY <1>2, <2>1, <3>1, PendingSteps DEF NoAnswer
    <3>2. CASE ~acks
      BY <3>2, FewAnswers
    <3> QED
      BY <3>1, <3>2
  <2>4. t \in Transitions /\ t.kind # "require-input" /\ t.kind # "answered"
    BY <2>1 DEF Transitions
  <2>5. run' = a.run /\ todo' = f \o a.steps
    BY <1>4, <1>8
  <2> HIDE DEF r, f, t
  <2>6. /\ NoAnswer(a.steps) /\ Showing(r, t, a.run)
        /\ \E S : a.steps \in Seq(S) /\ DurableStep \subseteq S
    BY <2>2, <2>4, CommandShows
  <2> HIDE DEF a
  <2>7. NoAnswer(todo')
    <3>1. PICK S : a.steps \in Seq(S) /\ DurableStep \subseteq S
      BY <2>6
    <3>2. f \in Seq(S)
      BY <2>3, <3>1
    <3> QED
      BY <2>3, <2>5, <2>6, <3>1, <3>2, AnswersJoined
  <2> QED
    BY <1>1, <2>2, <2>4, <2>5, <2>6, <2>7, AskedStays DEF Showing, NoAnswer
<1> QED
  BY <1>6, <1>7, <1>8

\* An answer arrives: the question it settles is the open one or none is.
LEMMA DeliverAnswerAsked ==
  ASSUME IInv, AskedInv, DeliverAnswer
  PROVE  AskedInv'
<1> DEFINE n == Current.d.n
           c == [kind |-> "answered", q |-> n]
           a == ApplyCommand(run, c)
<1>1. /\ todo # <<>> /\ Current.op = "answer" /\ TypeOK
      /\ run' = a.run /\ todo' = a.steps /\ body' = [body EXCEPT !.answered = @ \cup {n}]
      /\ UNCHANGED workflow
  BY DEF DeliverAnswer, Performs, IInv
<1>2. run \in RunState /\ todo \in Seq(DurableStep)
  BY <1>1, AskTypes
<1>3. Current \in DurableStep /\ Current \in Range(todo)
  BY <1>1, <1>2, HeadSteps DEF Current
<1>4. c \in Transitions /\ c.kind = "answered" /\ c.q = n
  BY <1>3 DEF Transitions, DurableStep, Delivery
<1>5. n \in 1..body.asked
  BY <1>1, <1>3 DEF AskedInv
<1>6. /\ body'.asked = body.asked /\ body'.answered = body.answered \cup {n}
      /\ body'.flight = body.flight
  BY <1>1, AskTypes DEF BodyState
<1> HIDE DEF c, n
<1>7. NoAnswer(a.steps) /\ Showing(run, c, a.run)
  BY <1>2, <1>4, CommandShows
<1> HIDE DEF a
<1>8. run'.requests \subseteq 1..body.asked
  BY <1>1, <1>4, <1>7 DEF AskedInv, Showing
<1>9. ASSUME NEW q \in (1..body.asked) \ body'.answered, q \notin Asks(workflow)
      PROVE  isTerminalTaskStatus(run'.status) \/ (run'.status = "input_required" /\ run'.requests = {q})
  <2>1. q # n /\ (isTerminalTaskStatus(run.status) \/ (run.status = "input_required" /\ run.requests = {q}))
    BY <1>6, <1>9 DEF AskedInv
  <2> QED
    BY <1>1, <1>4, <1>7, <2>1 DEF Showing
<1>10. (1..body.asked) \ body'.answered \subseteq {body.asked} /\ body'.answered \subseteq 1..body.asked
  BY <1>5, <1>6 DEF AskedInv
<1> QED
  BY <1>1, <1>6, <1>7, <1>8, <1>9, <1>10 DEF AskedInv, NoAnswer

\* The body asks: nothing it asked before is open.
LEMMA BodyAsksAsked ==
  ASSUME IInv, OneAtATime, AskedInv, BodyAsks
  PROVE  AskedInv'
<1> DEFINE k == body.asked + 1
           m == [kind |-> "ask", n |-> k]
           b == [body EXCEPT !.asked = k]
<1>1. /\ TypeOK /\ body.asked < task.asks /\ (task.agent => Unanswered = {})
      /\ Sends(m, b) /\ UNCHANGED <<run, todo>>
  BY DEF BodyAsks, bodyOthers, IInv
<1>2. workflow \in Seq(Message) /\ body \in BodyState /\ body.asked \in Nat /\ task.asks \in Nat
  BY <1>1, AskTypes
<1>3. m \in Message /\ IsAsk(m) /\ m.n = k /\ b \in BodyState
  <2>1. k \in Nat \ {0}
    BY <1>2
  <2> HIDE DEF k
  <2> QED
    BY <1>2, <2>1 DEF IsAsk, Message, BodyState
<1>4. body'.asked = k /\ body'.answered = body.answered /\ workflow' = Append(workflow, m)
  <2>1. workflow' = Append(workflow, m) /\ \E F : body' = [b EXCEPT !.flight = F]
    BY <1>1 DEF Sends
  <2> QED
    BY <1>2, <2>1 DEF BodyState
<1>5. 1..body.asked \subseteq body.answered
  <2>1. CASE task.agent
    BY <1>1, <2>1 DEF Unanswered
  <2>2. CASE ~task.agent
    BY <1>1, <1>2, <2>2 DEF OneAtATime
  <2> QED
    BY <2>1, <2>2
<1>6. \A f \in body'.flight : IsAsk(f) => f.n = k
  <2>1. body'.flight \subseteq {f \in body.flight : ~task.agent} \cup {m}
    <3>1. body' = [b EXCEPT !.flight =
                {f \in @ : ~task.agent /\ (f.kind = "ask" \/ m.kind = "ask")} \cup {m}]
      BY <1>1 DEF Sends
    <3> QED
      BY <1>2, <3>1 DEF BodyState
  <2>2. ASSUME NEW f \in body.flight, ~task.agent, IsAsk(f)
        PROVE  FALSE
    <3>1. f.n = body.asked /\ body.asked = 0
      BY <1>1, <1>2, <2>2 DEF AskedInv, OneAtATime
    <3>2. f.n \in Nat \ {0}
      BY <1>2 DEF BodyState, Message
    <3> QED
      BY <3>1, <3>2
  <2> QED
    BY <1>3, <2>1, <2>2
<1>7. /\ Asks(workflow') = Asks(workflow) \cup {k} /\ AsksRise(workflow')
      /\ Asks(workflow) \subseteq 1..body.asked
  <2>1. AsksRise(workflow) /\ Asks(workflow) \subseteq 1..body.asked
    BY DEF AskedInv
  <2>2. \A n \in Asks(workflow) : n <= m.n
    BY <1>2, <1>3, <2>1
  <2> HIDE DEF m
  <2> QED
    BY <1>2, <1>3, <1>4, <2>1, <2>2, AsksGrow
<1>8. /\ (1..k) \ body.answered \subseteq {k} /\ 1..body.asked \subseteq 1..k /\ k \in 1..k
  BY <1>2, <1>5
<1> HIDE DEF k, m, b
<1> QED
  BY <1>1, <1>4, <1>6, <1>7, <1>8 DEF AskedInv

\* A step of the body sends again: what it asks is the open question.
LEMMA BodyResendsAsked ==
  ASSUME IInv, AskedInv, BodyResends
  PROVE  AskedInv'
<1>1. PICK m \in body.flight :
        /\ workflow' = Append(workflow, m)
        /\ body' = [body EXCEPT !.again = IF m.kind \in {"update", "message"} THEN @ + 1 ELSE @]
  BY DEF BodyResends
<1>2. workflow \in Seq(Message) /\ body \in BodyState /\ body.asked \in Nat
  BY AskTypes DEF IInv
<1>3. m \in Message /\ m.n \in Nat \ {0}
  BY <1>2 DEF BodyState, Message
<1>4. /\ body'.asked = body.asked /\ body'.answered = body.answered /\ body'.flight = body.flight
      /\ UNCHANGED <<run, todo>>
  BY <1>1, <1>2 DEF BodyState, BodyResends
<1>5. /\ IsAsk(m) => m.n = body.asked
      /\ AsksRise(workflow) /\ Asks(workflow) \subseteq 1..body.asked
  BY DEF AskedInv
<1>6. /\ AsksRise(workflow')
      /\ ~IsAsk(m) => Asks(workflow') = Asks(workflow)
      /\ IsAsk(m) => Asks(workflow') = Asks(workflow) \cup {body.asked} /\ body.asked \in 1..body.asked
  BY <1>1, <1>2, <1>3, <1>5, AsksGrow
<1> QED
  BY <1>4, <1>6, AskedStays

\* No other step poses or settles a question.
LEMMA OthersAsked ==
  ASSUME IInv, AskedInv,
         \/ Finish \/ ClaimBody \/ Reading \/ Popping \/ (BodyStep /\ ~BodyAsks /\ ~BodyResends)
         \/ ToolReports \/ ToolCompletes \/ Deciding \/ ParentReceives
         \/ (\E q \in proxied : UserAnswers(q)) \/ Cancelling \/ CancelWakes \/ UNCHANGED vars
  PROVE  AskedInv'
<1>1. /\ TypeOK /\ run \in RunState /\ workflow \in Seq(Message) /\ todo \in Seq(DurableStep)
      /\ AsksRise(workflow) /\ body \in BodyState
  BY AskTypes DEF IInv, AskedInv
<1>2. run'.status = run.status /\ run'.requests = run.requests
  <2>1. CASE Finish \/ ClaimBody
    BY <1>1, <2>1 DEF Finish, ClaimBody, RunState
  <2>2. CASE Cancelling
    <3>1. run' = run \/ run' = [run EXCEPT !.phase = "killed"]
      BY <2>2 DEF Cancelling, CancelSends, CancelSees, CancelTimesOut, CancelStops, CancelCrashes
    <3> QED
      BY <1>1, <3>1 DEF RunState
  <2>3. CASE Reading \/ Popping \/ BodyStep \/ Deciding
    BY <2>3, GroupFrames
  <2>4. CASE \/ ToolReports \/ ToolCompletes \/ ParentReceives \/ CancelWakes \/ UNCHANGED vars
             \/ \E q \in proxied : UserAnswers(q)
    BY <2>4 DEF ToolReports, ToolCompletes, ParentReceives, CancelWakes, UserAnswers, parentOthers,
                cancelOthers, vars
  <2> QED
    BY <2>1, <2>2, <2>3, <2>4
<1>3. \A x \in Range(todo') : x \in Range(todo)
  <2>1. CASE Popping
    <3>1. todo # <<>> /\ (todo' = todo \/ todo' = Tail(todo) \/ todo' = <<>>)
      BY <2>1 DEF Popping, PublishView, AbortBody, AppendProgress, WakeParent, AnswerUnreachable,
                  DoneOrAgain, Performs
    <3> QED
      BY <1>1, <3>1, RangeOfTail, RangeOfFew
  <2>2. CASE Reading \/ BodyStep \/ Deciding \/ Cancelling
    BY <2>2, GroupFrames
  <2>3. CASE \/ Finish \/ ClaimBody \/ ToolReports \/ ToolCompletes \/ ParentReceives \/ CancelWakes
             \/ UNCHANGED vars \/ \E q \in proxied : UserAnswers(q)
    BY <2>3 DEF Finish, ClaimBody, ToolReports, ToolCompletes, ParentReceives, CancelWakes, UserAnswers,
                parentOthers, cancelOthers, vars
  <2> QED
    BY <2>1, <2>2, <2>3
<1>4. /\ Asks(workflow') = Asks(workflow) /\ AsksRise(workflow')
      /\ body'.asked = body.asked /\ body'.answered = body.answered
      /\ \A f \in body'.flight : f \in body.flight \/ ~IsAsk(f)
  <2>1. CASE BodyStep /\ ~BodyAsks /\ ~BodyResends
    <3>1. CASE BodyReports
      <4>1. PICK kind \in {"update", "message"}, y \in Nat :
              Sends([kind |-> kind, n |-> body.sent + 1], [body EXCEPT !.sent = @ + 1, !.yields = y])
        <5>1. body.yields \in Nat /\ body.yields + 1 \in Nat
          BY <1>1 DEF BodyState
        <5> QED
          BY <3>1, <5>1 DEF BodyReports
      <4> DEFINE m == [kind |-> kind, n |-> body.sent + 1]
                 b == [body EXCEPT !.sent = @ + 1, !.yields = y]
      <4>2. /\ m \in Message /\ ~IsAsk(m) /\ b \in BodyState
            /\ b.asked = body.asked /\ b.answered = body.answered /\ b.flight = body.flight
        <5>1. body.sent + 1 \in Nat \ {0} /\ body.sent + 1 \in Nat
          BY <1>1 DEF BodyState
        <5>2. m \in Message /\ ~IsAsk(m)
          BY <5>1 DEF IsAsk, Message
        <5> QED
          BY <1>1, <5>1, <5>2 DEF BodyState
      <4>3. Sends(m, b)
        BY <4>1
      <4> HIDE DEF m, b
      <4>4. /\ workflow' = Append(workflow, m)
            /\ \E F : F \subseteq b.flight \cup {m} /\ body' = [b EXCEPT !.flight = F]
        BY <1>1, <4>2, <4>3, Sent
      <4>5. /\ body'.asked = body.asked /\ body'.answered = body.answered
            /\ body'.flight \subseteq body.flight \cup {m}
        BY <4>2, <4>4 DEF BodyState
      <4> QED
        BY <1>1, <4>2, <4>4, <4>5, AsksGrow
    <3>2. CASE BodyOwnerRequest
      <4> DEFINE m == [kind |-> "owner", n |-> body.owned + 1]
                 b == [body EXCEPT !.owned = @ + 1]
      <4>1. Sends(m, b) /\ body.owned + 1 \in 0..2 /\ body.owned + 1 \in Nat \ {0}
        BY <1>1, <3>2 DEF BodyOwnerRequest, BodyState
      <4>2. /\ m \in Message /\ ~IsAsk(m) /\ b \in BodyState
            /\ b.asked = body.asked /\ b.answered = body.answered /\ b.flight = body.flight
        BY <1>1, <4>1 DEF IsAsk, Message, BodyState
      <4> HIDE DEF m, b
      <4>3. /\ workflow' = Append(workflow, m)
            /\ \E F : F \subseteq b.flight \cup {m} /\ body' = [b EXCEPT !.flight = F]
        BY <1>1, <4>1, <4>2, Sent
      <4>4. /\ body'.asked = body.asked /\ body'.answered = body.answered
            /\ body'.flight \subseteq body.flight \cup {m}
        BY <4>2, <4>3 DEF BodyState
      <4> QED
        BY <1>1, <4>2, <4>3, <4>4, AsksGrow
    <3>3. CASE BodyReturns \/ BodyThrows
      <4>1. \E kind : body' = [body EXCEPT !.pc = "returned", !.flight = Unawaited(@),
                                  !.result = [kind |-> kind, reports |-> body.yields]]
        BY <3>3, Zenon DEF BodyReturns, BodyThrows
      <4>2. workflow' = workflow
        BY <3>3 DEF BodyReturns, BodyThrows
      <4>3. /\ body'.asked = body.asked /\ body'.answered = body.answered
            /\ body'.flight = Unawaited(body.flight)
        BY <1>1, <4>1 DEF BodyState
      <4> QED
        BY <1>1, <4>2, <4>3 DEF Unawaited
    <3> QED
      BY <2>1, <3>1, <3>2, <3>3 DEF BodyStep
  <2>2. CASE Popping
    <3>1. workflow' = workflow /\ (body' = body \/ body' = [body EXCEPT !.aborted = TRUE])
      BY <2>2 DEF Popping, PublishView, AbortBody, AppendProgress, WakeParent, AnswerUnreachable, others
    <3> QED
      BY <1>1, <3>1 DEF BodyState
  <2>3. CASE Reading \/ Deciding \/ Cancelling
    BY <1>1, <2>3, GroupFrames
  <2>4. CASE \/ Finish \/ ClaimBody \/ ToolReports \/ ToolCompletes \/ ParentReceives \/ CancelWakes
             \/ UNCHANGED vars \/ \E q \in proxied : UserAnswers(q)
    <3>1. workflow' = workflow /\ body' = body
      BY <2>4 DEF Finish, ClaimBody, ToolReports, ToolCompletes, ParentReceives, CancelWakes, UserAnswers,
                  parentOthers, cancelOthers, vars, others
    <3> QED
      BY <1>1, <3>1
  <2> QED
    BY <2>1, <2>2, <2>3, <2>4
<1> QED
  BY <1>2, <1>3, <1>4, AskedStays

\* Every step keeps the invariant.
LEMMA AskedPreserved == IInv /\ OneAtATime /\ AskedInv /\ [Next]_vars => AskedInv'
BY StepGroups, SettleBodyAsked, ClaimWorkflowAsked, ClaimCommandAsked, DeliverAnswerAsked, BodyAsksAsked,
   BodyResendsAsked, OthersAsked DEF Handling

\* Nothing is asked at first.
LEMMA InitAsked == Init => AskInv
<1> SUFFICES ASSUME Init PROVE AskedInv
  BY DEF AskInv
<1>1. /\ body.asked = 0 /\ body.answered = {} /\ body.flight = {} /\ run.requests = {} /\ workflow = <<>>
      /\ todo = <<appendTaskViewStep(run)>>
  BY DEF Init
<1>2. Range(workflow) = {} /\ Range(todo) = {appendTaskViewStep(run)} /\ DOMAIN workflow = {}
  BY <1>1, RangeOfFew
<1>3. appendTaskViewStep(run).op # "answer"
  BY DEF appendTaskViewStep
<1>4. Asks(workflow) = {} /\ AsksRise(workflow)
  BY <1>1, <1>2 DEF Asks, AsksRise
<1> QED
  BY <1>1, <1>2, <1>3, <1>4 DEF AskedInv

\* Questions are accounted for: the inductive invariant.
LEMMA AskedOnce == Spec => []AskInv
<1>1. IInv /\ AskInv /\ [Next]_vars => AskInv'
  <2>1. [Next]_vars => task' = task
    BY StepGroups, GroupFrames DEF Finish, ClaimBody, ToolReports, ToolCompletes, ParentReceives,
       CancelWakes, UserAnswers, parentOthers, cancelOthers, vars, others
  <2> QED
    BY <2>1, AskedPreserved DEF AskInv, OneAtATime
<1> QED
  BY <1>1, InitAsked, TaskInvariant, PTL DEF Spec

\* A task that asks one question at a time is shown as working only while it waits
\* for nobody: everything its executor asked has been answered, or is still on its
\* way to the run: whatever answers arrive late, are repeated, do not reach an agent,
\* or race a cancellation.  (A body without an agent that asks again before the
\* answer is the other case: its questions are not kept apart.)
THEOREM WorkingAnswered == Spec => [](OneAtATime => WorkingMeansAnswered)
<1>1. ASSUME IInv, AskedInv, view.status = "working", todo = <<>>, NEW q \in 1..body.asked,
             q \notin body.answered
      PROVE  [kind |-> "ask", n |-> q] \in Range(workflow)
  <2>1. run.status = "working"
    BY <1>1, RangeOfFew DEF IInv, TodoInv, HasView
  <2>2. q \in Asks(workflow)
    BY <1>1, <2>1 DEF AskedInv, isTerminalTaskStatus, TerminalStatuses
  <2>3. PICK m \in Range(workflow) : IsAsk(m) /\ m.n = q
    BY <2>2 DEF Asks
  <2>4. m \in Message
    BY <1>1, AskTypes, RangeOfQueue DEF IInv
  <2> QED
    BY <2>3, <2>4 DEF IsAsk, Message
<1>2. IInv /\ AskInv => (OneAtATime => WorkingMeansAnswered)
  BY <1>1 DEF AskInv, WorkingMeansAnswered
<1> QED
  BY <1>2, TaskInvariant, AskedOnce, PTL
=============================================================================
