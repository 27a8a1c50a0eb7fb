---------------------------- MODULE MCBPlusTree ----------------------------
(***************************************************************************)
(* BPlusTree for TLC: keys of one column.                                  *)
(***************************************************************************)
EXTENDS BPlusTree

CONSTANT N

OneColumn == {<<k>> : k \in 1 .. N}
OwnRid == [key \in Keys |-> <<"rid", key>>]

\* Rows that came in ascending order, in descending order, and from both ends,
\* and a table of so few rows that its tree may lose its root.
Rows == [i \in 1 .. N - 1 |-> <<i>>]
Zigzag == [i \in 1 .. N - 1 |-> IF i % 2 = 1 THEN <<(i + 1) \div 2>> ELSE <<N - i \div 2>>]
OneColumnLoads == {Rows, Reverse(Rows), Zigzag, SubSeq(Rows, 1, 4)}

Range1(op1, v1, op2, v2) == [eq |-> <<>>, range |-> {[op |-> op1, val |-> v1], [op |-> op2, val |-> v2]}]
OneColumnQueries ==
  {[eq |-> <<k>>, range |-> {}] : k \in 1 .. N} \cup
  {[eq |-> <<>>, range |-> {[op |-> op, val |-> v]}] :
      op \in {"<", "<=", ">", ">=", "<>"}, v \in {1, N \div 2, N}} \cup
  {Range1(">", 2, "<=", N - 2), Range1(">=", 3, ">", 3), Range1(">=", 5, "<", 5), Range1("<=", 6, "<", 6)}
OneColumnJunk == {<<0>>}
=============================================================================
