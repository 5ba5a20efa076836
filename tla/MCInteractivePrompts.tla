------------------------ MODULE MCInteractivePrompts ------------------------
(* A small instance: a registration and its successor under the same owner. *)
EXTENDS InteractivePrompts

CONSTANTS l1, l2, o1

OwnerOf == [l \in {l1, l2} |-> o1]
=============================================================================
