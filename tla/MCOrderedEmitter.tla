-------------------------- MODULE MCOrderedEmitter --------------------------
(* Small instances of OrderedEmitter for TLC.                              *)
EXTENDS OrderedEmitter
CONSTANTS q1, q2

\* Deltas of a message and of a tool input, two partials of one call, a barrier.
StreamEvents == {[kind |-> "append", key |-> "message", size |-> 1],
                 [kind |-> "append", key |-> "input", size |-> 2],
                 [kind |-> "partial", key |-> "call", size |-> 0],
                 [kind |-> "other", key |-> "step", size |-> 0]}
=============================================================================
