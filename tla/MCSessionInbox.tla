--------------------------- MODULE MCSessionInbox ---------------------------
(* Small instances of SessionInbox for TLC.                                *)
EXTENDS SessionInbox
=============================================================================
