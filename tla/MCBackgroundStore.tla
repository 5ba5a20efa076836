------------------------- MODULE MCBackgroundStore -------------------------
EXTENDS BackgroundStore, TLC

HostSymmetry == Permutations(Hosts)
=============================================================================
