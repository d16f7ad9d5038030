----------------------- MODULE SessionLifecycle_proofs -----------------------
(***************************************************************************)
(* Proofs about SessionLifecycle, for every mode, every set of callers,    *)
(* children and authorization attempts, and every number of turns and of   *)
(* throwing steps.                                                         *)
(*                                                                         *)
(* What a run owes (a terminal event, the end of its children, a reply)    *)
(* depends on where it is, so the inductive invariant says for each stage  *)
(* what has been discharged and what cannot have been yet.                 *)
(***************************************************************************)
EXTENDS SessionLifecycle, TLAPS

Setup == {"claim", "resolve"}
Loop == {"timer", "bind", "turn", "decide", "settle", "notifyCancelled", "rekey",
         "notifyParked", "parked", "cancelWait", "settleWait"}
Final == {"finTerminate", "finEmit", "finCallback", "finParent", "finCaller"}
Crash == {"crashTerminate", "crashEmit", "crashCallback", "crashParent", "crashCaller"}
Leaving == {"leaveLoop", "dispose", "crash"}
Reporting == {"finCallback", "finParent", "crashCallback", "crashParent"}
Answering == {"finCaller", "crashCaller"}
\* No terminal event of this run can be out at these steps.
BeforeTerminal == Setup \cup Loop \cup {"finTerminate", "finEmit", "crashTerminate", "crashEmit"}

\* Where an exception can be propagating and which outcomes are decided.
ControlInv ==
  /\ pc \in Setup \cup Loop \cup Final => ~thrown
  /\ pc \in Setup \cup Loop => outcome = "none"
  /\ pc \in {"finEmit", "finCallback", "finParent", "finCaller"} =>
       outcome \in {"result", "expired"}
  /\ pc = "leaveLoop" => thrown \/ outcome = "expired"
                         \/ (outcome = "result" /\ terminalEmitted)
  /\ pc = "dispose" => thrown \/ outcome \in {"conflict", "expired"}
                       \/ (outcome = "result" /\ terminalEmitted)
  /\ pc \in {"crash"} \cup Crash => thrown
  /\ pc \in Reporting => Mode = "task"
  /\ pc \in Answering => Mode = "conversation"
  /\ pc \in Setup => ~callerResolved
  /\ pc \in Loop \cup Final => callerResolved
  /\ ~created => pc \in {"claim"} \cup {"dispose", "crash", "returned", "failed"} \cup Crash
  /\ pc = "claim" => ~created
  /\ pc \in {"settle", "notifyCancelled"} => cancelled
  /\ outcome = "conflict" =>
       ~created /\ pc \in {"dispose", "crash", "returned", "failed"} \cup Crash
  /\ outcome \in {"result", "expired"} => created /\ callerResolved

\* The flag, the events behind it and the reports that follow it.
TerminalInv ==
  /\ pc \in BeforeTerminal => ~terminalEmitted
  /\ pc \in Leaving /\ outcome = "expired" /\ ~thrown => ~terminalEmitted
  /\ pc \in Reporting \cup Answering => terminalEmitted
  /\ pc = "returned" => Conflicted \/ terminalEmitted
  /\ pc = "failed" => terminalEmitted \/ broken
  /\ ~terminalEmitted => driverEvents = 0 /\ reports = 0
  /\ driverEvents <= 1
  /\ action = "done" => turnEvents >= 1
  /\ terminalEmitted => turnEvents + driverEvents >= 1
  /\ pc \in Reporting => reports = 0
  /\ reports <= 1
  /\ Mode = "task" /\ terminalEmitted /\ ~broken => pc \in Reporting \/ reports = 1

\* Recorded children have been asked to end before the run announces its end.
ChildrenInv ==
  /\ ~created => recorded = {}
  /\ pc \in {"finEmit", "crashEmit"} => live \cap recorded = {}
  /\ terminalEmitted => live \cap recorded = {}

\* The caller in the cell and the replies delivered so far.
RepliesInv ==
  /\ caller # NoCaller => caller \in asked
  /\ First # NoCaller => First \in asked
  /\ \A c \in Callers \ asked : answers[c] = 0
  /\ ~callerResolved => caller = NoCaller
  /\ ~callerResolved /\ pc # "failed" => \A c \in Callers : answers[c] = 0
  /\ \A c \in Callers : c # caller => answers[c] <= 1
  /\ caller # NoCaller =>
       /\ pc \in (Loop \cup Final) \ {"rekey", "notifyParked"} => answers[caller] = 0
       /\ pc \in {"rekey", "notifyParked"} => answers[caller] = IF cancelled THEN 1 ELSE 0
       /\ pc \in Leaving =>
            \/ answers[caller] = 0
            \/ answers[caller] = 1 /\ (terminalEmitted \/ (cancelled /\ thrown))
       /\ pc \in Crash =>
            answers[caller] = 0 \/ (answers[caller] = 1 /\ cancelled /\ thrown)
       /\ pc \in {"returned", "failed"} =>
            answers[caller] <= 1 \/ (answers[caller] = 2 /\ cancelled /\ thrown)

\* The caller a session that is over owes a reply to.
Held == IF callerResolved THEN caller ELSE First
HeldInv ==
  Mode = "conversation" /\ terminalEmitted /\ ~broken /\ Held # NoCaller =>
    pc \in Answering \/ answers[Held] >= 1

IInv == TypeOK /\ ControlInv /\ TerminalInv /\ ChildrenInv /\ RepliesInv /\ HeldInv



\* The tuples the actions leave unchanged are expanded everywhere.
USE LifecycleConstants DEF cleanupVars, actionVars, worldVars, histVars

-----------------------------------------------------------------------------
(* Type correctness, one lemma per group of variables.                     *)

\* The initial state is well typed.
LEMMA InitTypeOK == Init => TypeOK
<1> SUFFICES ASSUME Init PROVE TypeOK
  OBVIOUS
<1> USE DEF Init
<1>1. ControlType
  BY DEF ControlType, Steps, Outcomes
<1>2. CleanupType
  BY DEF CleanupType
<1>3. ActionType
  BY DEF ActionType
<1>4. WorldType
  BY DEF WorldType
<1>5. HistType
  BY DEF HistType
<1> QED
  BY <1>1, <1>2, <1>3, <1>4, <1>5 DEF TypeOK

\* Every step leads to a step of the run, a decided exception and an outcome.
LEMMA NextControlType == TypeOK /\ [Next]_vars => ControlType'
<1> SUFFICES ASSUME TypeOK, [Next]_vars PROVE ControlType'
  OBVIOUS
<1> USE DEF TypeOK, ControlType, Steps, Outcomes
<1>1. CASE SetupStep
  BY <1>1 DEF SetupStep, Claims, ClaimConflicts, ClaimThrows, ResolvesCaller,
     ResolveThrows, StartsTimer, SkipsTimer, TimerThrows, TimerFires, Throws
<1>2. CASE TurnStep
  BY <1>2 DEF TurnStep, BindsCaller, BindThrows, TurnDone, TurnParks,
     TurnIsCancelled, TurnThrows, TurnReturns, Throws
<1>3. CASE LoopStep
  BY <1>3 DEF LoopStep, Decides, SettlesTurn, NotifiesCancelled, Rekeys,
     AnswersParked, LoopThrows, Throws, Answer
<1>4. CASE ParkedStep
  BY <1>4 DEF ParkedStep, Resumes, TakesCallback, TakesDelivery, Expires,
     Resets, DeclinesLimit, CancelsWait, SettlesWait
<1>5. CASE FinalStep
  BY <1>5 DEF FinalStep, FinTerminates, FinEmits, FinCallsBack,
     FinTellsParent, FinAnswersCaller, FinTerminateThrows, FinReplyThrows,
     FinalThrowsTo, FinalReturnsTo, Throws, Answer
<1>6. CASE LeaveStep
  BY <1>6 DEF LeaveStep, LeavesLoop, LeaveThrows, Disposes, DisposeThrows,
     Throws
<1>7. CASE CrashStep
  BY <1>7 DEF CrashStep, Catches, CrashTerminates, CrashEmits, CrashCallsBack,
     CrashTellsParent, CrashAnswersCaller, CrashThrows, Throws, Escapes,
     Answer
<1>8. CASE UNCHANGED vars
  BY <1>8 DEF vars
<1> QED
  BY <1>1, <1>2, <1>3, <1>4, <1>5, <1>6, <1>7, <1>8 DEF Next

\* The crash cleanup state keeps its types.
LEMMA NextCleanupType == TypeOK /\ [Next]_vars => CleanupType'
<1> SUFFICES ASSUME TypeOK, [Next]_vars PROVE CleanupType'
  OBVIOUS
<1> USE DEF TypeOK, CleanupType
<1>1. CASE SetupStep
  BY <1>1 DEF SetupStep, Claims, ClaimConflicts, ClaimThrows, ResolvesCaller,
     ResolveThrows, StartsTimer, SkipsTimer, TimerThrows, TimerFires, Throws
<1>2. CASE TurnStep
  BY <1>2 DEF TurnStep, BindsCaller, BindThrows, TurnDone, TurnParks,
     TurnIsCancelled, TurnThrows, TurnReturns, Throws
<1>3. CASE LoopStep
  BY <1>3 DEF LoopStep, Decides, SettlesTurn, NotifiesCancelled, Rekeys,
     AnswersParked, LoopThrows, Throws, Answer
<1>4. CASE ParkedStep
  BY <1>4 DEF ParkedStep, Resumes, TakesCallback, TakesDelivery, Expires,
     Resets, DeclinesLimit, CancelsWait, SettlesWait
<1>5. CASE FinalStep
  BY <1>5 DEF FinalStep, FinTerminates, FinEmits, FinCallsBack,
     FinTellsParent, FinAnswersCaller, FinTerminateThrows, FinReplyThrows,
     FinalThrowsTo, FinalReturnsTo, Throws, Answer
<1>6. CASE LeaveStep
  BY <1>6 DEF LeaveStep, LeavesLoop, LeaveThrows, Disposes, DisposeThrows,
     Throws
<1>7. CASE CrashStep
  BY <1>7 DEF CrashStep, Catches, CrashTerminates, CrashEmits, CrashCallsBack,
     CrashTellsParent, CrashAnswersCaller, CrashThrows, Throws, Escapes,
     Answer
<1>8. CASE UNCHANGED vars
  BY <1>8 DEF vars
<1> QED
  BY <1>1, <1>2, <1>3, <1>4, <1>5, <1>6, <1>7, <1>8 DEF Next

\* A turn that is cancelled drops the verdict and the challenges of the turn
\* before; re-entering the loop clears only the verdict.
LEMMA NextActionType == TypeOK /\ [Next]_vars => ActionType'
<1> SUFFICES ASSUME TypeOK, [Next]_vars PROVE ActionType'
  OBVIOUS
<1> USE DEF TypeOK, ActionType
<1>1. CASE SetupStep
  BY <1>1 DEF SetupStep, Claims, ClaimConflicts, ClaimThrows, ResolvesCaller,
     ResolveThrows, StartsTimer, SkipsTimer, TimerThrows, TimerFires, Throws
<1>2. CASE TurnStep
  <2>1. CASE \E ch \in SUBSET Children : TurnDone(ch)
    BY <2>1 DEF TurnDone, TurnReturns
  <2>2. CASE \E ch \in SUBSET Children, ok \in BOOLEAN, att \in SUBSET
     Attempts : TurnParks(ch, ok, att)
    BY <2>2 DEF TurnParks, TurnReturns
  <2>3. CASE \E ch \in SUBSET Children : TurnIsCancelled(ch)
    BY <2>3 DEF TurnIsCancelled, TurnReturns
  <2>4. CASE \E ch \in SUBSET Children : TurnThrows(ch)
    BY <2>4 DEF TurnThrows
  <2>5. CASE BindsCaller \/ BindThrows
    BY <2>5 DEF BindsCaller, BindThrows, Throws
  <2> QED
    BY <1>2, <2>1, <2>2, <2>3, <2>4, <2>5 DEF TurnStep
<1>3. CASE LoopStep
  BY <1>3 DEF LoopStep, Decides, SettlesTurn, NotifiesCancelled, Rekeys,
     AnswersParked, LoopThrows, Throws, Answer
<1>4. CASE ParkedStep
  <2>1. CASE \E a \in Attempts : TakesCallback(a)
    BY <2>1 DEF TakesCallback
  <2>2. CASE \E c \in Callers \cup {NoCaller} : TakesDelivery(c)
    BY <2>2 DEF TakesDelivery
  <2>3. CASE SettlesWait
    BY <2>3 DEF SettlesWait
  <2>4. CASE Resumes \/ Expires \/ Resets \/ DeclinesLimit \/ CancelsWait
    BY <2>4 DEF Resumes, Expires, Resets, DeclinesLimit, CancelsWait
  <2> QED
    BY <1>4, <2>1, <2>2, <2>3, <2>4 DEF ParkedStep
<1>5. CASE FinalStep
  BY <1>5 DEF FinalStep, FinTerminates, FinEmits, FinCallsBack,
     FinTellsParent, FinAnswersCaller, FinTerminateThrows, FinReplyThrows,
     FinalThrowsTo, FinalReturnsTo, Throws, Answer
<1>6. CASE LeaveStep
  BY <1>6 DEF LeaveStep, LeavesLoop, LeaveThrows, Disposes, DisposeThrows,
     Throws
<1>7. CASE CrashStep
  BY <1>7 DEF CrashStep, Catches, CrashTerminates, CrashEmits, CrashCallsBack,
     CrashTellsParent, CrashAnswersCaller, CrashThrows, Throws, Escapes,
     Answer
<1>8. CASE UNCHANGED vars
  BY <1>8 DEF vars
<1> QED
  BY <1>1, <1>2, <1>3, <1>4, <1>5, <1>6, <1>7, <1>8 DEF Next

\* Children stay children, and the counters stay within their bounds.
LEMMA NextWorldType == TypeOK /\ [Next]_vars => WorldType'
<1> SUFFICES ASSUME TypeOK, [Next]_vars PROVE WorldType'
  OBVIOUS
<1> USE DEF TypeOK, WorldType
<1>1. CASE SetupStep
  BY <1>1 DEF SetupStep, Claims, ClaimConflicts, ClaimThrows, ResolvesCaller,
     ResolveThrows, StartsTimer, SkipsTimer, TimerThrows, TimerFires, Throws
<1>2. CASE TurnStep
  BY <1>2 DEF TurnStep, BindsCaller, BindThrows, TurnDone, TurnParks,
     TurnIsCancelled, TurnThrows, TurnReturns, Throws
<1>3. CASE LoopStep
  BY <1>3 DEF LoopStep, Decides, SettlesTurn, NotifiesCancelled, Rekeys,
     AnswersParked, LoopThrows, Throws, Answer
<1>4. CASE ParkedStep
  BY <1>4 DEF ParkedStep, Resumes, TakesCallback, TakesDelivery, Expires,
     Resets, DeclinesLimit, CancelsWait, SettlesWait
<1>5. CASE FinalStep
  BY <1>5 DEF FinalStep, FinTerminates, FinEmits, FinCallsBack,
     FinTellsParent, FinAnswersCaller, FinTerminateThrows, FinReplyThrows,
     FinalThrowsTo, FinalReturnsTo, Throws, Answer
<1>6. CASE LeaveStep
  BY <1>6 DEF LeaveStep, LeavesLoop, LeaveThrows, Disposes, DisposeThrows,
     Throws
<1>7. CASE CrashStep
  BY <1>7 DEF CrashStep, Catches, CrashTerminates, CrashEmits, CrashCallsBack,
     CrashTellsParent, CrashAnswersCaller, CrashThrows, Throws, Escapes,
     Answer
<1>8. CASE UNCHANGED vars
  BY <1>8 DEF vars
<1> QED
  BY <1>1, <1>2, <1>3, <1>4, <1>5, <1>6, <1>7, <1>8 DEF Next

\* Only a caller, never NoCaller, is asked for or answered.
LEMMA NextHistType == TypeOK /\ [Next]_vars => HistType'
<1> SUFFICES ASSUME TypeOK, [Next]_vars PROVE HistType'
  OBVIOUS
<1> USE DEF TypeOK, CleanupType, HistType
<1>1. CASE SetupStep
  BY <1>1 DEF SetupStep, Claims, ClaimConflicts, ClaimThrows, ResolvesCaller,
     ResolveThrows, StartsTimer, SkipsTimer, TimerThrows, TimerFires, Throws
<1>2. CASE TurnStep
  BY <1>2 DEF TurnStep, BindsCaller, BindThrows, TurnDone, TurnParks,
     TurnIsCancelled, TurnThrows, TurnReturns, Throws
<1>3. CASE LoopStep
  BY <1>3 DEF LoopStep, Decides, SettlesTurn, NotifiesCancelled, Rekeys,
     AnswersParked, LoopThrows, Throws, Answer
<1>4. CASE ParkedStep
  BY <1>4 DEF ParkedStep, Resumes, TakesCallback, TakesDelivery, Expires,
     Resets, DeclinesLimit, CancelsWait, SettlesWait
<1>5. CASE FinalStep
  <2>1. CASE FinEmits
    BY <2>1 DEF FinEmits
  <2>2. CASE FinTellsParent
    BY <2>2 DEF FinTellsParent, FinalReturnsTo
  <2>3. CASE FinAnswersCaller
    BY <2>3 DEF FinAnswersCaller, FinalReturnsTo, Answer
  <2>4. CASE FinTerminates \/ FinCallsBack \/ FinTerminateThrows \/
     FinReplyThrows
    BY <2>4 DEF FinTerminates, FinCallsBack, FinTerminateThrows,
       FinReplyThrows, FinalThrowsTo, Throws
  <2> QED
    BY <1>5, <2>1, <2>2, <2>3, <2>4 DEF FinalStep
<1>6. CASE LeaveStep
  BY <1>6 DEF LeaveStep, LeavesLoop, LeaveThrows, Disposes, DisposeThrows,
     Throws
<1>7. CASE CrashStep
  <2>1. CASE CrashEmits
    BY <2>1 DEF CrashEmits
  <2>2. CASE CrashTellsParent
    BY <2>2 DEF CrashTellsParent
  <2>3. CASE CrashAnswersCaller
    BY <2>3 DEF CrashAnswersCaller, Answer
  <2>4. CASE Catches \/ CrashTerminates \/ CrashCallsBack \/ CrashThrows
    BY <2>4 DEF Catches, CrashTerminates, CrashCallsBack, CrashThrows, Throws,
       Escapes
  <2> QED
    BY <1>7, <2>1, <2>2, <2>3, <2>4 DEF CrashStep
<1>8. CASE UNCHANGED vars
  BY <1>8 DEF vars
<1> QED
  BY <1>1, <1>2, <1>3, <1>4, <1>5, <1>6, <1>7, <1>8 DEF Next

\* The state of a session run is well typed, and a cancelled action carries
\* neither a verdict nor authorization challenges, however the run goes.
THEOREM TypeCorrect == Spec => []TypeOK
<1>1. TypeOK /\ [Next]_vars => TypeOK'
  BY NextControlType, NextCleanupType, NextActionType, NextWorldType, NextHistType
     DEF TypeOK
<1> QED
  BY <1>1, InitTypeOK, PTL DEF Spec

-----------------------------------------------------------------------------
(* The inductive invariant, one lemma per part.                            *)

\* Nothing has happened initially.
LEMMA InitIInv == Init => IInv
<1> SUFFICES ASSUME Init PROVE IInv
  OBVIOUS
<1> USE DEF Init, Setup, Loop, Final, Crash, Leaving, Reporting, Answering, BeforeTerminal
<1>1. ControlInv
  BY DEF ControlInv
<1>2. TerminalInv
  BY DEF TerminalInv
<1>3. ChildrenInv
  BY DEF ChildrenInv
<1>4. RepliesInv
  BY DEF RepliesInv
<1>5. HeldInv
  BY DEF HeldInv
<1> QED
  BY <1>1, <1>2, <1>3, <1>4, <1>5, InitTypeOK DEF IInv

\* An exception propagates only through the finally blocks and the catch, and
\* a loop is left with an outcome or an exception.
LEMMA NextControlInv == TypeOK /\ ControlInv /\ TerminalInv /\ [Next]_vars => ControlInv'
<1> SUFFICES ASSUME TypeOK /\ ControlInv /\ TerminalInv, [Next]_vars PROVE ControlInv'
  OBVIOUS
<1> USE DEF ControlInv, TerminalInv, Outcomes, TypeOK, ControlType,
            CleanupType, ActionType, HistType, Conflicted, Setup, Loop, Final,
            Crash, Leaving, Reporting, Answering, BeforeTerminal
<1>1. CASE SetupStep
  BY <1>1 DEF SetupStep, Claims, ClaimConflicts, ClaimThrows, ResolvesCaller,
     ResolveThrows, StartsTimer, SkipsTimer, TimerThrows, TimerFires, Throws
<1>2. CASE TurnStep
  BY <1>2 DEF TurnStep, BindsCaller, BindThrows, TurnDone, TurnParks,
     TurnIsCancelled, TurnThrows, TurnReturns, Throws
<1>3. CASE LoopStep
  BY <1>3 DEF LoopStep, Decides, SettlesTurn, NotifiesCancelled, Rekeys,
     AnswersParked, LoopThrows, Throws, Answer
<1>4. CASE ParkedStep
  BY <1>4 DEF ParkedStep, Resumes, TakesCallback, TakesDelivery, Expires,
     Resets, DeclinesLimit, CancelsWait, SettlesWait
<1>5. CASE FinalStep
  <2>1. CASE FinTerminates
    BY <2>1 DEF FinTerminates
  <2>2. CASE FinEmits
    BY <2>2 DEF FinEmits
  <2>3. CASE FinCallsBack
    BY <2>3 DEF FinCallsBack
  <2>4. CASE FinTellsParent
    BY <2>4 DEF FinTellsParent, FinalReturnsTo
  <2>5. CASE FinAnswersCaller
    BY <2>5 DEF FinAnswersCaller, FinalReturnsTo, Answer
  <2>6. CASE FinTerminateThrows
    BY <2>6 DEF FinTerminateThrows, FinalThrowsTo, Throws
  <2>7. CASE FinReplyThrows
    BY <2>7 DEF FinReplyThrows, FinalThrowsTo, Throws
  <2> QED
    BY <1>5, <2>1, <2>2, <2>3, <2>4, <2>5, <2>6, <2>7 DEF FinalStep
<1>6. CASE LeaveStep
  BY <1>6 DEF LeaveStep, LeavesLoop, LeaveThrows, Disposes, DisposeThrows,
     Throws
<1>7. CASE CrashStep
  BY <1>7 DEF CrashStep, Catches, CrashTerminates, CrashEmits, CrashCallsBack,
     CrashTellsParent, CrashAnswersCaller, CrashThrows, Throws, Escapes,
     Answer
<1>8. CASE UNCHANGED vars
  BY <1>8 DEF vars
<1> QED
  BY <1>1, <1>2, <1>3, <1>4, <1>5, <1>6, <1>7, <1>8 DEF Next

\* The flag follows the terminal event, the reports follow the flag, and once
\* the flag is set the catch reports nothing.
LEMMA NextTerminalInv == TypeOK /\ ControlInv /\ TerminalInv /\ [Next]_vars => TerminalInv'
<1> SUFFICES ASSUME TypeOK /\ ControlInv /\ TerminalInv, [Next]_vars PROVE TerminalInv'
  OBVIOUS
<1> USE DEF TerminalInv, ControlInv, TypeOK, ControlType, CleanupType,
            ActionType, HistType, Conflicted, Setup, Loop, Final, Crash, Leaving,
            Reporting, Answering, BeforeTerminal
<1>1. CASE SetupStep
  BY <1>1 DEF SetupStep, Claims, ClaimConflicts, ClaimThrows, ResolvesCaller,
     ResolveThrows, StartsTimer, SkipsTimer, TimerThrows, TimerFires, Throws
<1>2. CASE TurnStep
  BY <1>2 DEF TurnStep, BindsCaller, BindThrows, TurnDone, TurnParks,
     TurnIsCancelled, TurnThrows, TurnReturns, Throws
<1>3. CASE LoopStep
  BY <1>3 DEF LoopStep, Decides, SettlesTurn, NotifiesCancelled, Rekeys,
     AnswersParked, LoopThrows, Throws, Answer
<1>4. CASE ParkedStep
  BY <1>4 DEF ParkedStep, Resumes, TakesCallback, TakesDelivery, Expires,
     Resets, DeclinesLimit, CancelsWait, SettlesWait
<1>5. CASE FinalStep
  BY <1>5 DEF FinalStep, FinTerminates, FinEmits, FinCallsBack,
     FinTellsParent, FinAnswersCaller, FinTerminateThrows, FinReplyThrows,
     FinalThrowsTo, FinalReturnsTo, Throws, Answer
<1>6. CASE LeaveStep
  <2>1. CASE LeavesLoop
    BY <2>1 DEF LeavesLoop
  <2>2. CASE LeaveThrows
    BY <2>2 DEF LeaveThrows, Throws
  <2>3. CASE Disposes
    BY <2>3 DEF Disposes
  <2>4. CASE DisposeThrows
    BY <2>4 DEF DisposeThrows, Throws
  <2> QED
    BY <1>6, <2>1, <2>2, <2>3, <2>4 DEF LeaveStep
<1>7. CASE CrashStep
  BY <1>7 DEF CrashStep, Catches, CrashTerminates, CrashEmits, CrashCallsBack,
     CrashTellsParent, CrashAnswersCaller, CrashThrows, Throws, Escapes,
     Answer
<1>8. CASE UNCHANGED vars
  BY <1>8 DEF vars
<1> QED
  BY <1>1, <1>2, <1>3, <1>4, <1>5, <1>6, <1>7, <1>8 DEF Next

\* The children are asked to end before the flag is set, and no turn runs
\* after it is.
LEMMA NextChildrenInv ==
  TypeOK /\ ControlInv /\ TerminalInv /\ ChildrenInv /\ [Next]_vars => ChildrenInv'
<1> SUFFICES ASSUME TypeOK /\ ControlInv /\ TerminalInv /\ ChildrenInv, [Next]_vars
             PROVE  ChildrenInv'
  OBVIOUS
<1> USE DEF ChildrenInv, TerminalInv, ControlInv, WorldType, TypeOK,
            ControlType, CleanupType, ActionType, HistType, Conflicted, Setup,
            Loop, Final, Crash, Leaving, Reporting, Answering, BeforeTerminal
<1>1. CASE SetupStep
  BY <1>1 DEF SetupStep, Claims, ClaimConflicts, ClaimThrows, ResolvesCaller,
     ResolveThrows, StartsTimer, SkipsTimer, TimerThrows, TimerFires, Throws
<1>2. CASE TurnStep
  BY <1>2 DEF TurnStep, BindsCaller, BindThrows, TurnDone, TurnParks,
     TurnIsCancelled, TurnThrows, TurnReturns, Throws
<1>3. CASE LoopStep
  BY <1>3 DEF LoopStep, Decides, SettlesTurn, NotifiesCancelled, Rekeys,
     AnswersParked, LoopThrows, Throws, Answer
<1>4. CASE ParkedStep
  BY <1>4 DEF ParkedStep, Resumes, TakesCallback, TakesDelivery, Expires,
     Resets, DeclinesLimit, CancelsWait, SettlesWait
<1>5. CASE FinalStep
  BY <1>5 DEF FinalStep, FinTerminates, FinEmits, FinCallsBack,
     FinTellsParent, FinAnswersCaller, FinTerminateThrows, FinReplyThrows,
     FinalThrowsTo, FinalReturnsTo, Throws, Answer
<1>6. CASE LeaveStep
  BY <1>6 DEF LeaveStep, LeavesLoop, LeaveThrows, Disposes, DisposeThrows,
     Throws
<1>7. CASE CrashStep
  BY <1>7 DEF CrashStep, Catches, CrashTerminates, CrashEmits, CrashCallsBack,
     CrashTellsParent, CrashAnswersCaller, CrashThrows, Throws, Escapes,
     Answer
<1>8. CASE UNCHANGED vars
  BY <1>8 DEF vars
<1> QED
  BY <1>1, <1>2, <1>3, <1>4, <1>5, <1>6, <1>7, <1>8 DEF Next

\* A caller in the cell has no reply, but for the two windows in which it was
\* told and not yet forgotten.
LEMMA NextRepliesInv ==
  TypeOK /\ ControlInv /\ TerminalInv /\ RepliesInv /\ [Next]_vars => RepliesInv'
<1> SUFFICES ASSUME TypeOK /\ ControlInv /\ TerminalInv /\ RepliesInv, [Next]_vars
             PROVE  RepliesInv'
  OBVIOUS
<1> USE DEF RepliesInv, TerminalInv, ControlInv, TypeOK, ControlType,
            CleanupType, ActionType, HistType, Conflicted, Setup, Loop, Final,
            Crash, Leaving, Reporting, Answering, BeforeTerminal
<1>1. CASE SetupStep
  BY <1>1 DEF SetupStep, Claims, ClaimConflicts, ClaimThrows, ResolvesCaller,
     ResolveThrows, StartsTimer, SkipsTimer, TimerThrows, TimerFires, Throws
<1>2. CASE TurnStep
  BY <1>2 DEF TurnStep, BindsCaller, BindThrows, TurnDone, TurnParks,
     TurnIsCancelled, TurnThrows, TurnReturns, Throws
<1>3. CASE LoopStep
  <2>1. CASE Decides
    BY <2>1 DEF Decides
  <2>2. CASE SettlesTurn
    BY <2>2 DEF SettlesTurn
  <2>3. CASE NotifiesCancelled
    BY <2>3 DEF NotifiesCancelled, Answer
  <2>4. CASE Rekeys
    BY <2>4 DEF Rekeys
  <2>5. CASE AnswersParked
    BY <2>5 DEF AnswersParked, Answer
  <2>6. CASE LoopThrows
    BY <2>6 DEF LoopThrows, Throws
  <2> QED
    BY <1>3, <2>1, <2>2, <2>3, <2>4, <2>5, <2>6 DEF LoopStep
<1>4. CASE ParkedStep
  BY <1>4 DEF ParkedStep, Resumes, TakesCallback, TakesDelivery, Expires,
     Resets, DeclinesLimit, CancelsWait, SettlesWait
<1>5. CASE FinalStep
  BY <1>5 DEF FinalStep, FinTerminates, FinEmits, FinCallsBack,
     FinTellsParent, FinAnswersCaller, FinTerminateThrows, FinReplyThrows,
     FinalThrowsTo, FinalReturnsTo, Throws, Answer
<1>6. CASE LeaveStep
  BY <1>6 DEF LeaveStep, LeavesLoop, LeaveThrows, Disposes, DisposeThrows,
     Throws
<1>7. CASE CrashStep
  BY <1>7 DEF CrashStep, Catches, CrashTerminates, CrashEmits, CrashCallsBack,
     CrashTellsParent, CrashAnswersCaller, CrashThrows, Throws, Escapes,
     Answer
<1>8. CASE UNCHANGED vars
  BY <1>8 DEF vars
<1> QED
  BY <1>1, <1>2, <1>3, <1>4, <1>5, <1>6, <1>7, <1>8 DEF Next

\* Once the terminal event is out, the held caller is about to be answered or
\* has its reply.
LEMMA NextHeldInv ==
  TypeOK /\ ControlInv /\ TerminalInv /\ RepliesInv /\ HeldInv /\ [Next]_vars => HeldInv'
<1> SUFFICES ASSUME TypeOK /\ ControlInv /\ TerminalInv /\ RepliesInv /\ HeldInv, [Next]_vars
             PROVE  HeldInv'
  OBVIOUS
<1> USE DEF HeldInv, Held, RepliesInv, TerminalInv, ControlInv, TypeOK,
            ControlType, CleanupType, ActionType, HistType, Conflicted, Setup,
            Loop, Final, Crash, Leaving, Reporting, Answering, BeforeTerminal
<1>1. CASE SetupStep
  BY <1>1 DEF SetupStep, Claims, ClaimConflicts, ClaimThrows, ResolvesCaller,
     ResolveThrows, StartsTimer, SkipsTimer, TimerThrows, TimerFires, Throws
<1>2. CASE TurnStep
  BY <1>2 DEF TurnStep, BindsCaller, BindThrows, TurnDone, TurnParks,
     TurnIsCancelled, TurnThrows, TurnReturns, Throws
<1>3. CASE LoopStep
  BY <1>3 DEF LoopStep, Decides, SettlesTurn, NotifiesCancelled, Rekeys,
     AnswersParked, LoopThrows, Throws, Answer
<1>4. CASE ParkedStep
  BY <1>4 DEF ParkedStep, Resumes, TakesCallback, TakesDelivery, Expires,
     Resets, DeclinesLimit, CancelsWait, SettlesWait
<1>5. CASE FinalStep
  <2>1. CASE FinTerminates
    BY <2>1 DEF FinTerminates
  <2>2. CASE FinEmits
    BY <2>2 DEF FinEmits
  <2>3. CASE FinCallsBack
    BY <2>3 DEF FinCallsBack
  <2>4. CASE FinTellsParent
    BY <2>4 DEF FinTellsParent, FinalReturnsTo
  <2>5. CASE FinAnswersCaller
    BY <2>5 DEF FinAnswersCaller, FinalReturnsTo, Answer
  <2>6. CASE FinTerminateThrows
    BY <2>6 DEF FinTerminateThrows, FinalThrowsTo, Throws
  <2>7. CASE FinReplyThrows
    BY <2>7 DEF FinReplyThrows, FinalThrowsTo, Throws
  <2> QED
    BY <1>5, <2>1, <2>2, <2>3, <2>4, <2>5, <2>6, <2>7 DEF FinalStep
<1>6. CASE LeaveStep
  BY <1>6 DEF LeaveStep, LeavesLoop, LeaveThrows, Disposes, DisposeThrows,
     Throws
<1>7. CASE CrashStep
  <2>1. CASE Catches
    BY <2>1 DEF Catches
  <2>2. CASE CrashTerminates
    BY <2>2 DEF CrashTerminates
  <2>3. CASE CrashEmits
    BY <2>3 DEF CrashEmits
  <2>4. CASE CrashCallsBack
    BY <2>4 DEF CrashCallsBack
  <2>5. CASE CrashTellsParent
    BY <2>5 DEF CrashTellsParent
  <2>6. CASE CrashAnswersCaller
    BY <2>6 DEF CrashAnswersCaller, Answer
  <2>7. CASE CrashThrows
    BY <2>7 DEF CrashThrows, Throws, Escapes
  <2> QED
    BY <1>7, <2>1, <2>2, <2>3, <2>4, <2>5, <2>6, <2>7 DEF CrashStep
<1>8. CASE UNCHANGED vars
  BY <1>8 DEF vars
<1> QED
  BY <1>1, <1>2, <1>3, <1>4, <1>5, <1>6, <1>7, <1>8 DEF Next

\* The invariant holds in every reachable state.
THEOREM Invariance == Spec => []IInv
<1>1. TypeOK /\ [Next]_vars => TypeOK'
  BY NextControlType, NextCleanupType, NextActionType, NextWorldType, NextHistType
     DEF TypeOK
<1>2. IInv /\ [Next]_vars => IInv'
  BY <1>1, NextControlInv, NextTerminalInv, NextChildrenInv, NextRepliesInv,
     NextHeldInv DEF IInv
<1> QED
  BY <1>2, InitIInv, PTL DEF Spec

-----------------------------------------------------------------------------
(* The properties.                                                         *)

\* The steps of the run announce the end of the session at most once, however
\* many of them throw: terminalEmitted keeps the catch from announcing again.
THEOREM AnnouncesOnce == Spec => []DriverAnnouncesOnce
<1>1. IInv => DriverAnnouncesOnce
  BY DEF IInv, TerminalInv, DriverAnnouncesOnce
<1> QED
  BY <1>1, Invariance, PTL

\* A session that started and is over has announced its end, unless a step of
\* the catch threw: also when it expired, was reset, or crashed during setup.
THEOREM EndAnnounced == Spec => []EndIsAnnounced
<1>1. IInv => EndIsAnnounced
  BY DEF IInv, TypeOK, HistType, TerminalInv, Over, Conflicted, EndIsAnnounced
<1> QED
  BY <1>1, Invariance, PTL

\* When the run is over, no child in its last session state still runs, unless
\* a step of the catch threw.
THEOREM ChildrenTerminated == Spec => []NoRecordedChildOutlives
<1>1. IInv => NoRecordedChildOutlives
  BY DEF IInv, ControlInv, TerminalInv, ChildrenInv, Conflicted, Over,
     NoRecordedChildOutlives
<1> QED
  BY <1>1, Invariance, PTL

\* A caller gets one reply at most, over all turns, finalization and the crash
\* path, but for a cancelled caller whose cell the run had no time to clear.
THEOREM AtMostOneReply == Spec => []RepliesOnce
<1>1. ASSUME IInv PROVE RepliesOnce
  <2> SUFFICES ASSUME NEW c \in Callers
               PROVE  \/ answers[c] <= 1
                      \/ answers[c] = 2 /\ cancelled /\ thrown /\ c = caller
    BY DEF RepliesOnce
  <2>1. CASE c # caller
    BY <1>1, <2>1 DEF IInv, RepliesInv
  <2>2. CASE c = caller
    BY <1>1, <2>2 DEF IInv, TypeOK, ControlType, HistType, RepliesInv, Steps, Setup,
       Loop, Final, Crash, Leaving, ControlInv
  <2> QED BY <2>1, <2>2
<1> QED
  BY <1>1, Invariance, PTL

\* The caller a finished session holds has a reply, unless delivering one threw:
\* nobody who is still in the cell waits forever.
THEOREM HeldCallerAnswered == Spec => []LastCallerAnswered
<1>1. IInv => LastCallerAnswered
  BY DEF IInv, ControlInv, TerminalInv, HeldInv, Held, Over, Answering, Conflicted,
     LastCallerAnswered
<1> QED
  BY <1>1, Invariance, PTL

\* A task session reports its result or its failure to the parent at most once,
\* and has done so when it is over, unless reporting threw.
THEOREM ReportsOnce == Spec => []TaskReportsOnce
<1>1. IInv => TaskReportsOnce
  BY DEF IInv, TerminalInv, Reporting, Over, Conflicted, TaskReportsOnce
<1> QED
  BY <1>1, Invariance, PTL

\* No step gives up a collected callback of an attempt the park still expects,
\* except to resume that challenge.
THEOREM CallbacksKept == Spec => CallbacksAccumulate
<1>1. [Next]_vars =>
        [\A a \in collected \ collected' :
           a \notin expected \/ expected \subseteq collected]_vars
  <2> SUFFICES ASSUME Next
               PROVE  \A a \in collected \ collected' :
                        a \notin expected \/ expected \subseteq collected
    OBVIOUS
  <2>1. CASE SetupStep
    BY <2>1 DEF SetupStep, Claims, ClaimConflicts, ClaimThrows, ResolvesCaller,
       ResolveThrows, StartsTimer, SkipsTimer, TimerThrows, TimerFires, Throws
  <2>2. CASE TurnStep
    BY <2>2 DEF TurnStep, BindsCaller, BindThrows, TurnDone, TurnParks,
       TurnIsCancelled, TurnThrows, TurnReturns, Throws
  <2>3. CASE LoopStep
    BY <2>3 DEF LoopStep, Decides, SettlesTurn, NotifiesCancelled, Rekeys,
       AnswersParked, LoopThrows, Throws
  <2>4. CASE ParkedStep
    BY <2>4 DEF ParkedStep, Resumes, Ready, TakesCallback, TakesDelivery, Expires,
       Resets, DeclinesLimit, CancelsWait, SettlesWait
  <2>5. CASE FinalStep
    BY <2>5 DEF FinalStep, FinTerminates, FinEmits, FinCallsBack, FinTellsParent,
       FinAnswersCaller, FinTerminateThrows, FinReplyThrows, Throws
  <2>6. CASE LeaveStep
    BY <2>6 DEF LeaveStep, LeavesLoop, LeaveThrows, Disposes, DisposeThrows, Throws
  <2>7. CASE CrashStep
    BY <2>7 DEF CrashStep, Catches, CrashTerminates, CrashEmits, CrashCallsBack,
       CrashTellsParent, CrashAnswersCaller, CrashThrows, Escapes, Throws
  <2> QED
    BY <2>1, <2>2, <2>3, <2>4, <2>5, <2>6, <2>7 DEF Next
<1> QED
  BY <1>1, PTL DEF Spec, CallbacksAccumulate
=============================================================================
