---------------------------- MODULE MCBufferPool ----------------------------
(***************************************************************************)
(* BufferPool for TLC: the pages of file x, and one page of file y.        *)
(***************************************************************************)
EXTENDS BufferPool, TLC

CONSTANTS x, y, y1

MCFileOf == [p \in Pages |-> IF p = y1 THEN y ELSE x]

Symmetry == Permutations(Threads) \cup Permutations(Frames)
=============================================================================
