----------------------------- MODULE MCRecovery -----------------------------
EXTENDS Recovery, TLC
CONSTANTS v1, v2
MCLoaded == <<v1, v1, v1>>
Symmetry == Permutations(Clients)
=============================================================================
