--------------------------- MODULE MCTransactions ---------------------------
(***************************************************************************)
(* Transactions for TLC: updates that leave the key alone or set it to a   *)
(* constant, and, for number keys, updates that add one to it.             *)
(***************************************************************************)
EXTENDS Transactions, TLC

ConstantSets == {[k \in Keys |-> c] : c \in Keys} \cup {[k \in Keys |-> k]}
IncrementSets == {[k \in {j \in Keys : j + 1 \in Keys} |-> k + 1]}

Symmetry == Permutations(Txns) \cup Permutations(Rids) \cup Permutations(Keys)
=============================================================================
