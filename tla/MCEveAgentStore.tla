--------------------------- MODULE MCEveAgentStore ---------------------------
(* Small instances of EveAgentStore for TLC.                               *)
EXTENDS EveAgentStore
CONSTANTS m1, m2, x1
=============================================================================
