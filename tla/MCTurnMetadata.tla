--------------------------- MODULE MCTurnMetadata ---------------------------
(* Small instances of TurnMetadata. *)
EXTENDS TurnMetadata, TLC

CONSTANTS e1, c1, c2

OfOne == [c \in Callers |-> e1]
AtOne == [x \in Editors |-> e1]
=============================================================================
