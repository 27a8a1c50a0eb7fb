------------------------------- MODULE MCQuery -------------------------------
(* Four tables, small buffers, and statements of every shape *)
EXTENDS Query, TLC

Column(t, n, ty) == [tab |-> t, name |-> n, type |-> ty]
MCCols == [a |-> <<Column("a", "id", "INT"), Column("a", "x", "INT")>>,
           b |-> <<Column("b", "id", "INT"), Column("b", "y", "BIGINT")>>,
           c |-> <<Column("c", "z", "INT"), Column("c", "s", "STRING")>>,
           d |-> <<Column("d", "w", "INT")>>]
MCIndexes == [a |-> <<>>, b |-> <<<<"id">>>>, c |-> <<>>, d |-> <<>>]

At(t, n) == [tab |-> t, name |-> n]
Number(v) == [type |-> "INT", val |-> v]
Text(v) == [type |-> "STRING", val |-> v]
OnVal(l, op, v) == [lhs |-> l, op |-> op, is_rhs_val |-> TRUE, rhs |-> At("", ""), rhs_val |-> v]
OnCol(l, op, r) == [lhs |-> l, op |-> op, is_rhs_val |-> FALSE, rhs |-> r, rhs_val |-> Number(0)]

Select(tables, conds) ==
  [tables |-> tables, cols |-> <<>>, agg |-> None, conds |-> conds, order |-> <<>>,
   has_limit |-> FALSE, limit |-> 0]
Of(s, cols) == [s EXCEPT !.cols = cols]
Agg(s, agg, col) == [s EXCEPT !.agg = agg, !.cols = <<col>>]
By(s, order) == [s EXCEPT !.order = order]
Top(s, n) == [s EXCEPT !.has_limit = TRUE, !.limit = n]

A == <<"a">>
B == <<"b">>
AB == <<"a", "b">>
ABC == <<"a", "b", "c">>

\* Two conditions between the tables, in either order and direction.
Sides == {OnCol(At("a", "id"), "<", At("b", "id")), OnCol(At("b", "id"), "=", At("a", "id"))}
Thirds == {OnCol(At("c", "z"), ">=", At("a", "x")), OnCol(At("b", "id"), "<=", At("c", "z"))}

Joined == {Select(ABC, cs) : cs \in UNION {{<<s, t>>, <<t, s>>} : s \in Sides, t \in Thirds}}
          \cup {Select(ABC, <<s, t, OnCol(At("b", "id"), ">=", At("a", "id"))>>) : s \in Sides, t \in Thirds}
          \cup {Select(<<"c", "b", "a">>, <<s>>) : s \in Sides} \cup {Select(AB, <<s>>) : s \in Sides}
          \cup {Select(<<"a", "b", "c", "d">>, <<s, OnCol(At("c", "z"), "=", At("d", "w")),
                                                OnCol(At("", "w"), ">=", At("a", "x"))>>) : s \in Sides}
          \cup {Select(ABC, <<>>), Select(AB, <<OnVal(At("", "x"), "<", Number(1)),
                                                OnCol(At("b", "id"), ">", At("a", "id"))>>)}
Single == {Of(Select(A, <<OnVal(At("", "id"), "<=", Number(1))>>), <<At("", "x")>>),
           Select(B, <<OnVal(At("", "id"), ">", Number(0))>>),
           Select(<<"c">>, <<OnVal(At("", "s"), "=", Text(1))>>),
           Select(<<"a", "c">>, <<OnVal(At("", "z"), ">", Number(0))>>),
           Select(A, <<OnCol(At("", "id"), "<", At("a", "x"))>>)}
Sorted == {By(Select(A, <<>>), <<<<At("", "x"), TRUE>>, <<At("a", "id"), FALSE>>>>),
           By(Select(A, <<>>), <<<<At("", "x"), FALSE>>>>),
           Top(By(Select(A, <<>>), <<<<At("", "x"), TRUE>>>>), 0),
           Top(By(Select(A, <<>>), <<<<At("", "x"), TRUE>>>>), 1),
           Top(By(Select(A, <<>>), <<<<At("", "id"), FALSE>>>>), 2),
           Top(By(Select(A, <<>>), <<<<At("", "id"), FALSE>>>>), 3),
           By(Select(AB, <<OnCol(At("a", "id"), "<", At("b", "id"))>>),
              <<<<At("", "y"), TRUE>>, <<At("", "x"), FALSE>>>>)}
Aggregated == {Agg(Select(A, <<>>), f, At("", "x")) : f \in {"COUNT", "SUM", "MAX", "MIN"}}
              \cup {Agg(Select(AB, <<OnCol(At("a", "id"), "<", At("b", "id"))>>), f, At("a", "x")) :
                      f \in {"SUM", "MIN"}}
              \cup {Agg(Select(AB, <<>>), "COUNT", At("", "")), Agg(Select(B, <<>>), "MAX", At("", "y")),
                    Agg(Select(A, <<>>), "MAX", At("", "nowhere"))}
\* Refused by the analyzer, or known to fail.
Refused == {Of(Select(AB, <<>>), <<At("", "id")>>), Of(Select(A, <<>>), <<At("b", "id")>>),
            Select(<<"e">>, <<>>), Select(<<"c">>, <<OnVal(At("", "s"), "=", Number(1))>>),
            Select(<<"a", "c">>, <<OnCol(At("", "x"), "=", At("", "s"))>>)}
Failing == {Select(AB, <<OnVal(At("b", "id"), "=", Number(1))>>),
            By(Select(B, <<OnVal(At("", "id"), "=", Number(1))>>), <<<<At("", "y"), TRUE>>>>),
            Select(AB, <<OnCol(At("b", "id"), "<", At("b", "y"))>>)}

MCStatements == Joined \cup Single \cup Sorted \cup Aggregated \cup Refused \cup Failing

\* Tables over several pages, an empty page between two, equal rows, no rows.
As == {<<>>, <<<<<<2, 2>>, <<2, 2>>>>, <<<<2, 0>>>>>>, <<<<<<0, 0>>, <<0, 2>>>>, <<<<1, 1>>, <<1, 1>>>>>>,
       <<<<<<1, 0>>, <<0, 2>>>>, <<<<2, 1>>, <<0, 0>>>>, <<<<1, 1>>, <<0, 1>>>>, <<<<2, 2>>>>>>,
       <<<<<<1, 0>>>>, <<>>, <<<<0, 1>>, <<0, 1>>>>>>,
       <<<<<<2, 1>>, <<0, 0>>>>, <<<<1, 2>>, <<0, 1>>>>, <<<<2, 0>>>>>>}
Bs == {<<>>, <<<<<<3, 2>>, <<1, 0>>>>, <<<<2, 1>>, <<0, 1>>>>, <<<<4, 2>>>>>>, <<<<<<1, 1>>, <<0, 2>>>>>>, <<<<<<2, 0>>, <<3, 1>>>>, <<<<0, 0>>, <<1, 2>>>>>>}
Cs == {<<>>, <<<<<<0, 0>>, <<2, 2>>>>, <<<<1, 1>>, <<1, 1>>>>, <<<<2, 1>>>>>>, <<<<<<1, 1>>, <<2, 0>>>>>>, <<<<<<2, 1>>>>, <<<<0, 1>>, <<1, 0>>>>>>}
MCContents == [a : As, b : Bs, c : Cs, d : {<<<<<<1>>, <<2>>>>>>}]
=============================================================================
