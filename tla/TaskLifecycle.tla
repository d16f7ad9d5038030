--------------------------- MODULE TaskLifecycle ---------------------------
(***************************************************************************)
(* What a background task promises the session that dispatched it          *)
(* (tasks/types.ts, tasks/transitions.ts): its status moves until it is    *)
(* terminal and then never again; the session decides once whether the     *)
(* task is its own; a task that is hears how it ended once, and truly.     *)
(***************************************************************************)
TerminalStatuses == {"completed", "failed", "cancelled"}
Statuses == TerminalStatuses \cup {"working", "input_required"}
isTerminalTaskStatus(s) == s \in TerminalStatuses

VARIABLES
  dispatch,   \* the session's decision: pending, accepted, rejected
  status,     \* the status anybody can read
  heard       \* the end the session has heard of, or "none"

vars == <<dispatch, status, heard>>

Init == dispatch = "pending" /\ status = "working" /\ heard = "none"

Decide ==
  /\ dispatch = "pending"
  /\ dispatch' \in {"accepted", "rejected"}
  /\ UNCHANGED <<status, heard>>

Move ==
  /\ ~isTerminalTaskStatus(status)
  /\ status' \in Statuses
  /\ UNCHANGED <<dispatch, heard>>

Hear ==
  /\ dispatch = "accepted" /\ isTerminalTaskStatus(status) /\ heard = "none"
  /\ heard' = status
  /\ UNCHANGED <<dispatch, status>>

Next == Decide \/ Move \/ Hear
Spec == Init /\ [][Next]_vars
=============================================================================
