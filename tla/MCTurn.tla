------------------------------- MODULE MCTurn -------------------------------
(* A TLC instance of Turn: two tool calls in one or two rounds. *)
EXTENDS Turn

CONSTANTS k1, k2
=============================================================================
