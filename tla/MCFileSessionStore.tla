------------------------- MODULE MCFileSessionStore -------------------------
(* Small instances of FileSessionStore. *)
EXTENDS FileSessionStore, TLC

CONSTANTS w1, w2, i1, i2

Symmetric == Permutations(Workers) \cup Permutations(Incarnations)
=============================================================================
