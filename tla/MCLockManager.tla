--------------------------- MODULE MCLockManager ---------------------------
(* LockManager for TLC: transactions are interchangeable, and so are rids. *)
EXTENDS LockManager, TLC

Symmetry == Permutations(Txns) \cup Permutations(Rids)
=============================================================================
