--------------------------- MODULE MCAgentHandles ---------------------------
(* Small instances of AgentHandles for TLC.                                *)
EXTENDS AgentHandles
CONSTANTS a1, a2, t1, t2, t3, r1, k1, k2
=============================================================================
