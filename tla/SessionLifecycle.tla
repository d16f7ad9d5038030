-------------------------- MODULE SessionLifecycle --------------------------
(***************************************************************************)
(* The life of one session run (workflow-entry.ts workflowEntry and        *)
(* runDriverLoop, workflow-entry-finalization.ts): the claims at the       *)
(* start, one turn after another, the parked waits, the finalization of a  *)
(* finished, reset or expired session, the two finally blocks, and the     *)
(* crash path that any throwing step enters.                               *)
(*                                                                         *)
(* Every awaited step is one action and, where the step can throw, a       *)
(* second action for the throw (retries are the workflow engine's and      *)
(* happen before).  A turn is one action: SessionTurns models what goes on *)
(* inside it and inside the parked wait.                                   *)
(***************************************************************************)
EXTENDS Integers, FiniteSets

CONSTANTS
  Mode,         \* "conversation" or "task"
  Callers,      \* callers that can await a reply of this session
  First,        \* the delegated caller that created the session, or NoCaller
  NoCaller,
  Children,     \* child sessions turns can start
  Attempts,     \* authorization attempts
  MaxTurns,     \* bound: turns run
  MaxFaults,    \* bound: steps that throw
  MaxDeclines   \* bound: session limits declined while parked

ASSUME LifecycleConstants ==
  /\ Mode \in {"conversation", "task"}
  /\ NoCaller \notin Callers
  /\ First \in Callers \cup {NoCaller}
  /\ MaxTurns \in Nat /\ MaxFaults \in Nat /\ MaxDeclines \in Nat

VARIABLES
  pc,               \* the step the run is at, see Steps
  thrown,           \* an exception is propagating
  outcome,          \* how the driver loop was left, see Outcomes
  \* ---- CrashCleanupState -------------------------------------------------
  caller,           \* the caller whose reply is unsettled, or NoCaller
  callerResolved,
  created,          \* lastSessionState is defined
  recorded,         \* the children in lastSessionState
  terminalEmitted,
  \* ---- the current TurnDriverAction -------------------------------------
  action,           \* "done" or "park"
  cancelled,        \* action.cancelled
  settled,          \* action.settled is defined
  expected,         \* action.authorizationAttemptIds
  collected,        \* collectedAuthPayloads
  \* ---- the world -----------------------------------------------------------
  timer,            \* the session timeout run
  live,             \* child sessions that run and were not asked to end
  turns, faults, declines,
  \* ---- history -------------------------------------------------------------
  asked,            \* callers that have asked for a reply
  answers,          \* answers[c]: replies the run has delivered to caller c
  turnEvents,       \* terminal session events emitted inside turns
  driverEvents,     \* terminal session events emitted by this run's steps
  reports,          \* task results reported to the parent
  broken            \* a step of the catch or a reply after the end has thrown

cleanupVars == <<caller, callerResolved, created, recorded, terminalEmitted>>
actionVars == <<action, cancelled, settled, expected>>
worldVars == <<timer, live, turns, declines>>
histVars == <<asked, answers, turnEvents, driverEvents, reports, broken>>
vars == <<pc, thrown, outcome, cleanupVars, actionVars, collected, worldVars,
          faults, histVars>>

Steps == {"claim", "resolve", "timer", "bind", "turn", "decide", "settle",
          "notifyCancelled", "rekey", "notifyParked", "parked", "cancelWait",
          "settleWait", "finTerminate", "finEmit", "finCallback", "finParent",
          "finCaller", "leaveLoop", "dispose", "crash", "crashTerminate",
          "crashEmit", "crashCallback", "crashParent", "crashCaller",
          "returned", "failed"}
Outcomes == {"none", "conflict", "result", "expired"}
Over == pc \in {"returned", "failed"}

-----------------------------------------------------------------------------
(* Helpers.                                                                *)

\* A step awaited at p throws; q is the innermost finally or catch.
Throws(p, q) ==
  /\ pc = p
  /\ faults < MaxFaults
  /\ faults' = faults + 1
  /\ thrown' = TRUE
  /\ pc' = q
  /\ UNCHANGED <<outcome, cleanupVars, actionVars, collected, worldVars>>

\* A step of the catch throws: the exception leaves workflowEntry.
Escapes(p) ==
  /\ Throws(p, "failed")
  /\ broken' = TRUE
  /\ UNCHANGED <<asked, answers, turnEvents, driverEvents, reports>>

\* notifyTurnCallerStep returned.
Answer(c) == answers' = [answers EXCEPT ![c] = @ + 1]

\* The finalization of an expired session runs after the loop's finally block,
\* every other one inside it.
FinalThrowsTo == IF outcome = "expired" THEN "crash" ELSE "leaveLoop"
FinalReturnsTo == IF outcome = "expired" THEN "returned" ELSE "leaveLoop"

-----------------------------------------------------------------------------
(* Setup.                                                                  *)

\* createSessionStep and the three hook claims, Promise.allSettled.
Claims ==
  /\ pc = "claim"
  /\ created' = TRUE
  /\ pc' = "resolve"
  /\ UNCHANGED <<thrown, outcome, caller, callerResolved, recorded, terminalEmitted,
                 actionVars, collected, worldVars, faults, histVars>>

\* The continuation alias belongs to another run: the command is forwarded to
\* its owner and this run ends with an empty result.
ClaimConflicts ==
  /\ pc = "claim"
  /\ outcome' = "conflict"
  /\ pc' = "dispose"
  /\ UNCHANGED <<thrown, cleanupVars, actionVars, collected, worldVars, faults, histVars>>

\* A claim, or forwarding the command of a loser, throws.
ClaimThrows == Throws("claim", "dispose") /\ UNCHANGED histVars

\* resolveInitialTurnCallerStep, run only for a delegated session.
ResolvesCaller ==
  /\ pc = "resolve"
  /\ caller' = First
  /\ callerResolved' = TRUE
  /\ pc' = "timer"
  /\ UNCHANGED <<thrown, outcome, created, recorded, terminalEmitted, actionVars,
                 collected, worldVars, faults, histVars>>

ResolveThrows ==
  /\ First # NoCaller
  /\ Throws("resolve", "dispose")
  /\ UNCHANGED histVars

StartsTimer ==
  /\ pc = "timer"
  /\ timer' = "live"
  /\ pc' = "bind"
  /\ UNCHANGED <<thrown, outcome, cleanupVars, actionVars, collected, live, turns,
                 declines, faults, histVars>>

\* sessionTimeoutMs is false: there is no timer.
SkipsTimer ==
  /\ pc = "timer"
  /\ pc' = "bind"
  /\ UNCHANGED <<thrown, outcome, cleanupVars, actionVars, collected, worldVars,
                 faults, histVars>>

TimerThrows == Throws("timer", "leaveLoop") /\ UNCHANGED histVars

-----------------------------------------------------------------------------
(* runTurn.                                                                *)

\* bindTurnCallerContextStep, skipped without a caller.
BindsCaller ==
  /\ pc = "bind"
  /\ pc' = "turn"
  /\ UNCHANGED <<thrown, outcome, cleanupVars, actionVars, collected, worldVars,
                 faults, histVars>>

BindThrows ==
  /\ caller # NoCaller
  /\ Throws("bind", "leaveLoop")
  /\ UNCHANGED histVars

\* The turn ran, starting the children ch; its action and state are adopted.
TurnReturns(ch) ==
  /\ pc = "turn"
  /\ turns < MaxTurns
  /\ turns' = turns + 1
  /\ live' = live \cup ch
  /\ recorded' = recorded \cup ch
  /\ pc' = "decide"
  /\ UNCHANGED <<thrown, outcome, caller, callerResolved, created, terminalEmitted,
                 collected, timer, declines, faults, asked, answers, driverEvents,
                 reports, broken>>

\* The turn's last step closed the stream with session.completed or .failed.
TurnDone(ch) ==
  /\ TurnReturns(ch)
  /\ action' = "done" /\ cancelled' = FALSE
  /\ settled' = FALSE /\ expected' = {}
  /\ turnEvents' = turnEvents + 1

\* The turn parked: settled or not, with or without authorization challenges.
TurnParks(ch, ok, att) ==
  /\ TurnReturns(ch)
  /\ action' = "park" /\ cancelled' = FALSE
  /\ settled' = ok /\ expected' = att
  /\ UNCHANGED turnEvents

\* Wrong variant: the cancelled park keeps the verdict of the previous turn.
TurnIsCancelledStale(ch) ==
  /\ TurnReturns(ch)
  /\ action' = "park" /\ cancelled' = TRUE
  /\ UNCHANGED <<settled, expected, turnEvents>>

\* A cancelled park carries neither a verdict nor challenges.
TurnIsCancelled(ch) ==
  /\ TurnReturns(ch)
  /\ action' = "park" /\ cancelled' = TRUE
  /\ settled' = FALSE /\ expected' = {}
  /\ UNCHANGED turnEvents

\* A turn-error: the children the turn started are not in the driver's state.
TurnThrows(ch) ==
  /\ pc = "turn"
  /\ faults < MaxFaults
  /\ faults' = faults + 1
  /\ thrown' = TRUE
  /\ live' = live \cup ch
  /\ pc' = "leaveLoop"
  /\ UNCHANGED <<outcome, cleanupVars, actionVars, collected, timer, turns, declines,
                 histVars>>

-----------------------------------------------------------------------------
(* The loop: settle, answer, park.                                         *)

Decides ==
  /\ pc = "decide"
  /\ pc' = IF action = "done" THEN "finTerminate"
           ELSE IF cancelled THEN "settle" ELSE "rekey"
  /\ UNCHANGED <<thrown, outcome, cleanupVars, actionVars, collected, worldVars,
                 faults, histVars>>

\* settleCancelledTurnStep emits turn.cancelled and session.waiting.
SettlesTurn ==
  /\ pc = "settle"
  /\ pc' = "notifyCancelled"
  /\ UNCHANGED <<thrown, outcome, cleanupVars, actionVars, collected, worldVars,
                 faults, asked, answers, turnEvents, driverEvents, reports, broken>>

\* notifyCancelledTaskCallerStep.
NotifiesCancelled ==
  /\ pc = "notifyCancelled"
  /\ IF caller = NoCaller THEN UNCHANGED answers ELSE Answer(caller)
  /\ pc' = "rekey"
  /\ UNCHANGED <<thrown, outcome, cleanupVars, actionVars, collected, worldVars,
                 faults, asked, turnEvents, driverEvents, reports, broken>>

Rekeys ==
  /\ pc = "rekey"
  /\ pc' = "notifyParked"
  /\ UNCHANGED <<thrown, outcome, cleanupVars, actionVars, collected, worldVars,
                 faults, histVars>>

\* Wrong variants: the answered caller stays in the cell; the callbacks of the
\* previous park are forgotten.
AnswersParkedKeepsCaller ==
  /\ pc = "notifyParked"
  /\ IF settled /\ ~cancelled /\ caller # NoCaller THEN Answer(caller)
     ELSE UNCHANGED answers
  /\ collected' = collected \cap expected
  /\ pc' = "parked"
  /\ UNCHANGED <<thrown, outcome, cleanupVars, actionVars, worldVars, faults, asked,
                 turnEvents, driverEvents, reports, broken>>
AnswersParkedForgets ==
  /\ pc = "notifyParked"
  /\ IF settled /\ ~cancelled /\ caller # NoCaller THEN Answer(caller)
     ELSE UNCHANGED answers
  /\ caller' = IF settled \/ cancelled THEN NoCaller ELSE caller
  /\ collected' = {}
  /\ pc' = "parked"
  /\ UNCHANGED <<thrown, outcome, callerResolved, created, recorded, terminalEmitted,
                 actionVars, worldVars, faults, asked, turnEvents, driverEvents,
                 reports, broken>>

\* A settled park answers its caller and forgets it, a cancelled one forgets
\* the caller it has already answered, any other keeps it.  nextParkedActivity
\* then prunes callbacks of attempts the park no longer expects.
AnswersParked ==
  /\ pc = "notifyParked"
  /\ IF settled /\ ~cancelled /\ caller # NoCaller THEN Answer(caller)
     ELSE UNCHANGED answers
  /\ caller' = IF settled \/ cancelled THEN NoCaller ELSE caller
  /\ collected' = collected \cap expected
  /\ pc' = "parked"
  /\ UNCHANGED <<thrown, outcome, callerResolved, created, recorded, terminalEmitted,
                 actionVars, worldVars, faults, asked, turnEvents, driverEvents,
                 reports, broken>>

LoopThrows ==
  /\ \E p \in {"settle", "notifyCancelled", "rekey", "notifyParked", "parked",
               "cancelWait", "settleWait"} : Throws(p, "leaveLoop")
  /\ pc = "notifyCancelled" => caller # NoCaller
  /\ pc = "notifyParked" => settled /\ ~cancelled /\ caller # NoCaller
  /\ UNCHANGED histVars

\* Every expected attempt has reported: resume the challenge.
Ready == expected # {} /\ expected \subseteq collected

Resumes ==
  /\ pc = "parked"
  /\ Ready
  /\ turns < MaxTurns
  /\ collected' = {}
  /\ pc' = "bind"
  /\ UNCHANGED <<thrown, outcome, cleanupVars, actionVars, worldVars, faults, histVars>>

\* A callback: the first of an expected attempt counts, others are dropped.
TakesCallback(a) ==
  /\ pc = "parked"
  /\ expected # {} /\ ~Ready
  /\ collected' = IF a \in expected THEN collected \cup {a} ELSE collected
  /\ UNCHANGED <<pc, thrown, outcome, cleanupVars, actionVars, worldVars, faults, histVars>>

\* A delivery or a clear or compact command starts the next turn; a delivery
\* may carry the caller that awaits that turn.
TakesDelivery(c) ==
  /\ pc = "parked"
  /\ ~Ready
  /\ turns < MaxTurns
  /\ c \notin asked
  /\ caller' = IF c = NoCaller THEN caller ELSE c
  /\ asked' = asked \cup ({c} \ {NoCaller})
  /\ pc' = "bind"
  /\ UNCHANGED <<thrown, outcome, callerResolved, created, recorded, terminalEmitted,
                 actionVars, collected, worldVars, faults, answers, turnEvents,
                 driverEvents, reports, broken>>

\* The deadline passed: leave the loop, finalize after its finally block.
Expires ==
  /\ pc = "parked"
  /\ ~Ready
  /\ timer = "fired"
  /\ outcome' = "expired"
  /\ pc' = "leaveLoop"
  /\ UNCHANGED <<thrown, cleanupVars, actionVars, collected, worldVars, faults, histVars>>

\* reset, or the inbox closed: finalize inside the loop.
Resets ==
  /\ pc = "parked"
  /\ ~Ready
  /\ outcome' = "result"
  /\ pc' = "finTerminate"
  /\ UNCHANGED <<thrown, cleanupVars, actionVars, collected, worldVars, faults, histVars>>

\* A descendant's session limit was declined while parked (cancel-turn).
DeclinesLimit ==
  /\ pc = "parked"
  /\ ~Ready
  /\ declines < MaxDeclines
  /\ declines' = declines + 1
  /\ pc' = "cancelWait"
  /\ UNCHANGED <<thrown, outcome, cleanupVars, actionVars, collected, timer, live,
                 turns, faults, asked, answers, turnEvents, driverEvents, reports, broken>>

\* cancelDescendantTurnsStep.
CancelsWait ==
  /\ pc = "cancelWait"
  /\ pc' = "settleWait"
  /\ UNCHANGED <<thrown, outcome, cleanupVars, actionVars, collected, worldVars,
                 faults, histVars>>

\* settleCancelledTurnStep, then re-enter the loop with the same action, its
\* `settled` cleared, and without the caller.
SettlesWait ==
  /\ pc = "settleWait"
  /\ settled' = FALSE
  /\ caller' = NoCaller
  /\ pc' = "decide"
  /\ UNCHANGED <<thrown, outcome, callerResolved, created, recorded, terminalEmitted,
                 action, cancelled, expected, collected, worldVars, faults, asked,
                 answers, turnEvents, driverEvents, reports, broken>>

-----------------------------------------------------------------------------
(* Finalization: finalizeDone and finalizeExpiredSession.                  *)

\* terminateChildSessionsStep asks every recorded child to end and only logs a
\* request that fails; after a done turn the terminal event is out.
FinTerminates ==
  /\ pc = "finTerminate"
  /\ live' = live \ recorded
  /\ terminalEmitted' = (terminalEmitted \/ action = "done")
  /\ outcome' = IF outcome = "none" THEN "result" ELSE outcome
  /\ pc' = IF action # "done" THEN "finEmit"
           ELSE IF Mode = "task" THEN "finCallback" ELSE "finCaller"
  /\ UNCHANGED <<thrown, caller, callerResolved, created, recorded, actionVars,
                 collected, timer, turns, declines, faults, histVars>>

\* Wrong variant: the flag is not set after the event.
FinEmitsUnmarked ==
  /\ pc = "finEmit"
  /\ driverEvents' = driverEvents + 1
  /\ pc' = IF Mode = "task" THEN "finCallback" ELSE "finCaller"
  /\ UNCHANGED <<thrown, outcome, cleanupVars, actionVars, collected, worldVars,
                 faults, asked, answers, turnEvents, reports, broken>>

\* emitTerminalSessionCompletionStep catches whatever its event handlers throw.
FinEmits ==
  /\ pc = "finEmit"
  /\ driverEvents' = driverEvents + 1
  /\ terminalEmitted' = TRUE
  /\ pc' = IF Mode = "task" THEN "finCallback" ELSE "finCaller"
  /\ UNCHANGED <<thrown, outcome, caller, callerResolved, created, recorded,
                 actionVars, collected, worldVars, faults, asked, answers,
                 turnEvents, reports, broken>>

\* fireSessionCallbackStep, then notifyDelegatedParentStep.
FinCallsBack ==
  /\ pc = "finCallback"
  /\ pc' = "finParent"
  /\ UNCHANGED <<thrown, outcome, cleanupVars, actionVars, collected, worldVars,
                 faults, histVars>>

FinTellsParent ==
  /\ pc = "finParent"
  /\ reports' = reports + 1
  /\ pc' = FinalReturnsTo
  /\ UNCHANGED <<thrown, outcome, cleanupVars, actionVars, collected, worldVars,
                 faults, asked, answers, turnEvents, driverEvents, broken>>

FinAnswersCaller ==
  /\ pc = "finCaller"
  /\ IF caller = NoCaller THEN UNCHANGED answers ELSE Answer(caller)
  /\ pc' = FinalReturnsTo
  /\ UNCHANGED <<thrown, outcome, cleanupVars, actionVars, collected, worldVars,
                 faults, asked, turnEvents, driverEvents, reports, broken>>

FinTerminateThrows == Throws("finTerminate", FinalThrowsTo) /\ UNCHANGED histVars

\* After the terminal event a reply that cannot be delivered is not retried.
FinReplyThrows ==
  /\ \E p \in {"finCallback", "finParent", "finCaller"} : Throws(p, FinalThrowsTo)
  /\ pc = "finCaller" => caller # NoCaller
  /\ broken' = TRUE
  /\ UNCHANGED <<asked, answers, turnEvents, driverEvents, reports>>

-----------------------------------------------------------------------------
(* The finally blocks.                                                     *)

\* Dispose the settled turn's control hook and the session timeout.
LeavesLoop ==
  /\ pc = "leaveLoop"
  /\ timer' = IF timer = "live" THEN "cancelled" ELSE timer
  /\ pc' = "dispose"
  /\ UNCHANGED <<thrown, outcome, cleanupVars, actionVars, collected, live, turns,
                 declines, faults, histVars>>

\* Disposing the control hook of a settled turn may throw, and cancelling the
\* timer; the first leaves the timer running.
LeaveThrows ==
  /\ turns > 0 \/ timer # "none"
  /\ Throws("leaveLoop", "dispose")
  /\ UNCHANGED histVars

\* Wrong variant: an expired session returns without being finalized.
DisposesExpired ==
  /\ pc = "dispose"
  /\ pc' = IF thrown THEN "crash" ELSE "returned"
  /\ UNCHANGED <<thrown, outcome, cleanupVars, actionVars, collected, worldVars,
                 faults, histVars>>

\* commandInbox.dispose, then the catch, the expired session or the return.
Disposes ==
  /\ pc = "dispose"
  /\ pc' = IF thrown THEN "crash"
           ELSE IF outcome = "expired" THEN "finTerminate" ELSE "returned"
  /\ UNCHANGED <<thrown, outcome, cleanupVars, actionVars, collected, worldVars,
                 faults, histVars>>

\* Releasing a hook throws: the exception replaces the result, of a run that
\* lost the claim too.
DisposeThrows == Throws("dispose", "crash") /\ UNCHANGED histVars

-----------------------------------------------------------------------------
(* The catch.                                                              *)

\* Wrong variants: the catch reports again after a terminal event; it leaves the
\* children running.
CatchesAlways ==
  /\ pc = "crash"
  /\ pc' = IF created THEN "crashTerminate" ELSE "crashEmit"
  /\ UNCHANGED <<thrown, outcome, cleanupVars, actionVars, collected, worldVars,
                 faults, histVars>>
CatchesKeepsChildren ==
  /\ pc = "crash"
  /\ pc' = IF terminalEmitted THEN "failed" ELSE "crashEmit"
  /\ UNCHANGED <<thrown, outcome, cleanupVars, actionVars, collected, worldVars,
                 faults, histVars>>

\* After a terminal event the error is only rethrown.
Catches ==
  /\ pc = "crash"
  /\ pc' = IF terminalEmitted THEN "failed"
           ELSE IF created THEN "crashTerminate" ELSE "crashEmit"
  /\ UNCHANGED <<thrown, outcome, cleanupVars, actionVars, collected, worldVars,
                 faults, histVars>>

CrashTerminates ==
  /\ pc = "crashTerminate"
  /\ live' = live \ recorded
  /\ pc' = "crashEmit"
  /\ UNCHANGED <<thrown, outcome, cleanupVars, actionVars, collected, timer, turns,
                 declines, faults, histVars>>

\* Wrong variant: a caller that was never resolved is not looked up.
CrashEmitsResolvedOnly ==
  /\ pc = "crashEmit"
  /\ driverEvents' = driverEvents + 1
  /\ terminalEmitted' = TRUE
  /\ pc' = IF Mode = "task" THEN "crashCallback"
           ELSE IF caller # NoCaller THEN "crashCaller" ELSE "failed"
  /\ UNCHANGED <<thrown, outcome, caller, callerResolved, created, recorded,
                 actionVars, collected, worldVars, faults, asked, answers,
                 turnEvents, reports, broken>>

\* emitTerminalSessionFailureStep; then task mode reports to the parent and
\* conversation mode to the caller: the one in the cell, or, if it was never
\* resolved, the one resolveCallerForCrash finds.
CrashEmits ==
  /\ pc = "crashEmit"
  /\ driverEvents' = driverEvents + 1
  /\ terminalEmitted' = TRUE
  /\ pc' = IF Mode = "task" THEN "crashCallback"
           ELSE IF caller # NoCaller \/ ~callerResolved THEN "crashCaller" ELSE "failed"
  /\ UNCHANGED <<thrown, outcome, caller, callerResolved, created, recorded,
                 actionVars, collected, worldVars, faults, asked, answers,
                 turnEvents, reports, broken>>

CrashCallsBack ==
  /\ pc = "crashCallback"
  /\ pc' = "crashParent"
  /\ UNCHANGED <<thrown, outcome, cleanupVars, actionVars, collected, worldVars,
                 faults, histVars>>

CrashTellsParent ==
  /\ pc = "crashParent"
  /\ reports' = reports + 1
  /\ pc' = "failed"
  /\ UNCHANGED <<thrown, outcome, cleanupVars, actionVars, collected, worldVars,
                 faults, asked, answers, turnEvents, driverEvents, broken>>

CrashAnswersCaller ==
  /\ pc = "crashCaller"
  /\ LET c == IF callerResolved THEN caller ELSE First
     IN IF c = NoCaller THEN UNCHANGED answers ELSE Answer(c)
  /\ pc' = "failed"
  /\ UNCHANGED <<thrown, outcome, cleanupVars, actionVars, collected, worldVars,
                 faults, asked, turnEvents, driverEvents, reports, broken>>

\* Resolving the caller again may fail too: then nobody is notified.
CrashThrows ==
  \E p \in {"crashTerminate", "crashCallback", "crashParent", "crashCaller"} : Escapes(p)

-----------------------------------------------------------------------------
\* The timeout run wakes up and signals the stable command inbox.
TimerFires ==
  /\ timer = "live"
  /\ timer' = "fired"
  /\ UNCHANGED <<pc, thrown, outcome, cleanupVars, actionVars, collected, live,
                 turns, declines, faults, histVars>>

Init ==
  /\ pc = "claim" /\ thrown = FALSE /\ outcome = "none"
  /\ caller = NoCaller /\ callerResolved = FALSE /\ recorded = {}
  /\ terminalEmitted = FALSE /\ created = FALSE
  /\ action = "park" /\ cancelled = FALSE /\ settled = FALSE /\ expected = {}
  /\ collected = {}
  /\ timer = "none" /\ live = {} /\ turns = 0 /\ faults = 0 /\ declines = 0
  /\ asked = {First} \ {NoCaller}
  /\ answers = [c \in Callers |-> 0]
  /\ turnEvents = 0 /\ driverEvents = 0 /\ reports = 0
  /\ broken = FALSE

SetupStep ==
  \/ Claims \/ ClaimConflicts \/ ClaimThrows
  \/ ResolvesCaller \/ ResolveThrows
  \/ StartsTimer \/ SkipsTimer \/ TimerThrows \/ TimerFires

TurnStep ==
  \/ BindsCaller \/ BindThrows
  \/ \E ch \in SUBSET Children :
       \/ TurnDone(ch)
       \/ \E ok \in BOOLEAN, att \in SUBSET Attempts : TurnParks(ch, ok, att)
       \/ TurnIsCancelled(ch)
       \/ TurnThrows(ch)

LoopStep ==
  \/ Decides \/ SettlesTurn \/ NotifiesCancelled \/ Rekeys \/ AnswersParked
  \/ LoopThrows

ParkedStep ==
  \/ Resumes
  \/ \E a \in Attempts : TakesCallback(a)
  \/ \E c \in Callers \cup {NoCaller} : TakesDelivery(c)
  \/ Expires \/ Resets
  \/ DeclinesLimit \/ CancelsWait \/ SettlesWait

FinalStep ==
  \/ FinTerminates \/ FinEmits \/ FinCallsBack \/ FinTellsParent \/ FinAnswersCaller
  \/ FinTerminateThrows \/ FinReplyThrows

LeaveStep == LeavesLoop \/ LeaveThrows \/ Disposes \/ DisposeThrows

CrashStep ==
  \/ Catches \/ CrashTerminates \/ CrashEmits \/ CrashCallsBack \/ CrashTellsParent
  \/ CrashAnswersCaller \/ CrashThrows

Next ==
  \/ SetupStep \/ TurnStep \/ LoopStep \/ ParkedStep
  \/ FinalStep \/ LeaveStep \/ CrashStep

Spec == Init /\ [][Next]_vars

-----------------------------------------------------------------------------
(* Properties.                                                             *)

ControlType ==
  /\ pc \in Steps /\ thrown \in BOOLEAN /\ outcome \in Outcomes
CleanupType ==
  /\ caller \in Callers \cup {NoCaller} /\ callerResolved \in BOOLEAN
  /\ recorded \subseteq Children
  /\ terminalEmitted \in BOOLEAN /\ created \in BOOLEAN
ActionType ==
  /\ action \in {"done", "park"} /\ cancelled \in BOOLEAN /\ settled \in BOOLEAN
  /\ expected \subseteq Attempts /\ collected \subseteq Attempts
  /\ cancelled => action = "park" /\ ~settled /\ expected = {}
WorldType ==
  /\ timer \in {"none", "live", "fired", "cancelled"} /\ live \subseteq Children
  /\ turns \in 0..MaxTurns /\ faults \in 0..MaxFaults /\ declines \in 0..MaxDeclines
HistType ==
  /\ asked \subseteq Callers /\ answers \in [Callers -> Nat]
  /\ turnEvents \in Nat /\ driverEvents \in Nat /\ reports \in Nat
  /\ broken \in BOOLEAN

\* Type invariant; a cancelled action is a park without verdict or challenges.
TypeOK == ControlType /\ CleanupType /\ ActionType /\ WorldType /\ HistType

\* The run lost the claim of its continuation alias and ended without a result.
Conflicted == outcome = "conflict" /\ ~thrown

\* The run's own steps announce the end of the session at most once, whatever
\* throws during finalization, in the finally blocks or in the catch.
DriverAnnouncesOnce == driverEvents <= 1

\* "so the channel still sees a terminal event": a session that started and is
\* over has a terminal event, unless the catch itself threw.
EndIsAnnounced ==
  Over /\ ~Conflicted /\ ~broken => turnEvents + driverEvents >= 1

\* No child the driver knows of outlives the session, on the normal, the
\* expired and the crash path alike, unless terminating them threw.
NoRecordedChildOutlives ==
  Over /\ ~broken => live \cap recorded = {}

\* Replies to callers (conversation mode): a caller gets one reply at most,
\* across turns, finalization and the crash path.  The exception is a caller
\* told that its turn was cancelled when the rekey that follows throws: the
\* cell still holds it, and the crash path rejects it too.
RepliesOnce ==
  Mode = "conversation" =>
    \A c \in Callers : \/ answers[c] <= 1
                       \/ answers[c] = 2 /\ cancelled /\ thrown /\ c = caller

\* "reject it with the error instead of leaving it parked forever": the caller
\* in the cell when the session ends has its reply, also when the session
\* failed before the caller was resolved.
LastCallerAnswered ==
  Mode = "conversation" /\ Over /\ ~broken /\ ~Conflicted =>
    LET c == IF callerResolved THEN caller ELSE First
    IN c # NoCaller => answers[c] >= 1

\* A task session reports to its parent exactly once, unless reporting threw.
TaskReportsOnce ==
  Mode = "task" =>
    /\ reports <= 1
    /\ Over /\ ~broken /\ ~Conflicted => reports = 1

\* "Callbacks accumulate across intervening turns": a callback of an attempt
\* that is still expected is only given up to resume the challenge.
CallbacksAccumulate ==
  [][\A a \in collected \ collected' : a \notin expected \/ expected \subseteq collected]_vars

=============================================================================
