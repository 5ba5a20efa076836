------------------------- MODULE MCSessionRegistry -------------------------
(* The TLC instance of SessionRegistry.                                    *)
EXTENDS SessionRegistry, TLC

Symmetric == Permutations(Callers) \cup Permutations(Addresses) \cup Permutations(Incarnations)
=============================================================================
