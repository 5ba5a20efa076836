--------------------------- MODULE MCSessionState ---------------------------
(* Small instances of SessionState.                                        *)
EXTENDS SessionState, TLC

CONSTANTS e1, e2, c1, c2, i1, i2

\* Two engines with one future each.
OneEach == c1 :> e1 @@ c2 :> e2

\* One engine with two futures.
BothFirst == c1 :> e1 @@ c2 :> e1

\* The two engines are interchangeable together with their futures.
EngineSymmetry ==
    {c1 :> c2 @@ c2 :> c1 @@ e1 :> e2 @@ e2 :> e1} \cup Permutations(Incarnations)
=============================================================================
