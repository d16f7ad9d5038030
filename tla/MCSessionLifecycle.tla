------------------------- MODULE MCSessionLifecycle -------------------------
(* Small instances of SessionLifecycle for TLC.                            *)
EXTENDS SessionLifecycle
CONSTANTS p1, p2, k1, a1, a2
=============================================================================
