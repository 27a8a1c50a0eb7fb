------------------------------- MODULE Planner -------------------------------
(***************************************************************************)
(* The analyzer and the planner of a select statement                      *)
(* (src/analyze/analyze.cpp, src/optimizer/planner.cpp): names are         *)
(* resolved, literals get the type of their column, and the conditions are *)
(* handed to the scans and joins of a plan.                                *)
(*                                                                         *)
(* A statement is a record: the tables; the columns asked for, empty for   *)
(* "*"; agg, the aggregate function of its only column or None; conds; the *)
(* order by columns as pairs <<column, descending>>; has_limit and limit.  *)
(* A column is written [tab, name], with tab = "" when it is not           *)
(* qualified.  The name "" is the "*" of COUNT.  A literal is a value      *)
(* [type, val], "INT" for a number without a point or "STRING".            *)
(***************************************************************************)
EXTENDS Integers, FiniteSets, SequencesExt

CONSTANTS Cols,     \* DbMeta: the columns [tab, name, type] of each table
          Indexes,  \* the indexes of each table, sequences of column names
          None

-----------------------------------------------------------------------------
(* Analyze *)

get_all_cols(tables) == FlattenSeq([i \in DOMAIN tables |-> Cols[tables[i]]])

\* The positions of a column reference in a list of columns.
Places(cols, target) == {i \in DOMAIN cols : /\ cols[i].name = target.name
                                             /\ target.tab \in {"", cols[i].tab}}

\* check_column does not throw: a qualified column is there, and an
\* unqualified one in one table only.
Checks(cols, target) ==
  IF target.tab = "" THEN Cardinality(Places(cols, target)) = 1 ELSE Places(cols, target) # {}

\* What check_column returns: the column with the name of its table.
check_column(cols, target) ==
  LET i == CHOOSE i \in Places(cols, target) : TRUE
  IN [tab |-> cols[i].tab, name |-> target.name]

TypeOf(cols, target) == cols[CHOOSE i \in Places(cols, target) : TRUE].type

Numbers == {"INT", "BIGINT", "FLOAT"}
Texts == {"STRING", "DATETIME"}
type_compatible(t1, t2) == {t1, t2} \subseteq Numbers \/ {t1, t2} \subseteq Texts

\* convert_sv_value does not throw for this literal and type; numbers are taken
\* to be in the range of the type.
Converts(lit, type) == type \in IF lit.type = "INT" THEN Numbers ELSE Texts

\* get_check_clause accepts a condition; what it makes of it.
CheckClause(cols, cond) ==
  /\ Checks(cols, cond.lhs)
  /\ IF cond.is_rhs_val THEN Converts(cond.rhs_val, TypeOf(cols, cond.lhs))
     ELSE /\ Checks(cols, cond.rhs)
          /\ type_compatible(TypeOf(cols, cond.lhs), TypeOf(cols, cond.rhs))
Clause(cols, cond) ==
  [cond EXCEPT !.lhs = check_column(cols, @),
               !.rhs = IF cond.is_rhs_val THEN @ ELSE check_column(cols, @),
               !.rhs_val = IF cond.is_rhs_val THEN [@ EXCEPT !.type = TypeOf(cols, cond.lhs)] ELSE @]

\* The columns of the result.  An aggregate's column that is in no table
\* passes, for the sake of COUNT(*).
SelectChecks(cols, ast) ==
  \A i \in DOMAIN ast.cols : \/ Checks(cols, ast.cols[i])
                             \/ /\ ast.agg # None /\ ast.cols[i].tab = ""
                                /\ Places(cols, ast.cols[i]) = {}
SelectCols(cols, ast) ==
  IF ast.cols = <<>> THEN [i \in DOMAIN cols |-> [tab |-> cols[i].tab, name |-> cols[i].name]]
  ELSE [i \in DOMAIN ast.cols |-> IF Checks(cols, ast.cols[i]) THEN check_column(cols, ast.cols[i])
                                                              ELSE ast.cols[i]]

\* do_analyze throws nothing.
Accepts(ast) ==
  /\ \A i \in DOMAIN ast.tables : ast.tables[i] \in DOMAIN Cols
  /\ LET cols == get_all_cols(ast.tables)
     IN /\ SelectChecks(cols, ast)
        /\ \A i \in DOMAIN ast.conds : CheckClause(cols, ast.conds[i])
        /\ \A i \in DOMAIN ast.order : Checks(cols, ast.order[i][1])

do_analyze(ast) ==
  LET cols == get_all_cols(ast.tables)
  IN [ast EXCEPT !.cols  = SelectCols(cols, ast),
                 !.conds = [i \in DOMAIN @ |-> Clause(cols, @[i])],
                 !.order = [i \in DOMAIN @ |-> <<check_column(cols, @[i][1]), @[i][2]>>]]

-----------------------------------------------------------------------------
(* Planner: plans are trees of records *)

SortPlan(plan, order, limit) == [kind |-> "sort", subplan |-> plan, order |-> order, limit |-> limit]
ProjectionPlan(plan, cols) == [kind |-> "projection", subplan |-> plan, cols |-> cols]
AggPlan(plan, agg) == [kind |-> "agg", subplan |-> plan, agg |-> agg]
JoinPlan(left, right, conds) == [kind |-> "join", left |-> left, right |-> right, conds |-> conds]

\* The value conditions of a table, and the indexes with one on their first column.
ValueConds(conds) == SelectSeq(conds, LAMBDA c : c.is_rhs_val)
Matching(t, conds) ==
  {i \in DOMAIN Indexes[t] : \E c \in ToSet(ValueConds(conds)) : c.lhs.name = Indexes[t][i][1]}

\* get_index_cols: the first such index.
get_index_cols(t, conds) ==
  IF Matching(t, conds) = {} THEN <<>>
  ELSE Indexes[t][CHOOSE i \in Matching(t, conds) : \A j \in Matching(t, conds) : i <= j]

ScanPlan(t, conds) ==
  [kind |-> "scan", tab |-> t, conds |-> conds, index |-> get_index_cols(t, conds)]


\* pop_conds takes the value conditions of a table and the conditions between
\* two columns of one table, whichever that is.
Pops(cond, t) == IF cond.is_rhs_val THEN cond.lhs.tab = t ELSE cond.lhs.tab = cond.rhs.tab
pop_conds(conds, t) == SelectSeq(conds, LAMBDA c : Pops(c, t))

\* The scans of the tables, and the conditions that are left.
Scans(query) ==
  FoldLeft(LAMBDA acc, t : [scans |-> Append(acc.scans, ScanPlan(t, pop_conds(acc.conds, t))),
                            conds |-> SelectSeq(acc.conds, LAMBDA c : ~Pops(c, t))],
           [scans |-> <<>>, conds |-> query.conds], query.tables)

swap_op(op) == CASE op = "<" -> ">" [] op = ">" -> "<" [] op = "<=" -> ">=" [] op = ">=" -> "<="
                 [] OTHER -> op
Swap(cond) == [cond EXCEPT !.lhs = cond.rhs, !.rhs = cond.lhs, !.op = swap_op(@)]

\* Mutant: the sides are never exchanged.
PlacedAsWritten(cond, left_res) == cond

\* push_conds at the join of the two sides: the column of the left side comes first.
Placed(cond, left_res) == IF left_res = 2 THEN Swap(cond) ELSE cond

\* push_conds puts a condition at the join that has one of its tables on each
\* side.  The number tells the caller which sides were met: 1 the left column's
\* table, 2 the right column's, 3 the condition has found its place.
RECURSIVE push_conds(_, _)
push_conds(cond, plan) ==
  IF plan.kind = "scan"
  THEN <<IF plan.tab = cond.lhs.tab THEN 1 ELSE IF plan.tab = cond.rhs.tab THEN 2 ELSE 0, plan>>
  ELSE LET l == push_conds(cond, plan.left)
           r == push_conds(cond, plan.right)
       IN IF l[1] = 3 THEN <<3, [plan EXCEPT !.left = l[2]]>>
          ELSE IF r[1] = 3 THEN <<3, [plan EXCEPT !.right = r[2]]>>
          ELSE IF 0 \in {l[1], r[1]} THEN <<l[1] + r[1], plan>>
          ELSE <<3, [plan EXCEPT !.conds = Append(@, Placed(cond, l[1]))]>>

pop_scan(scans, t) == scans[CHOOSE i \in DOMAIN scans : scans[i].tab = t]

\* A further condition of make_one_rel: its tables that are not joined yet come
\* to the left of what there is.
JoinCond(scans, acc, cond) ==
  LET lnew == cond.lhs.tab \notin acc.joined
      rnew == cond.rhs.tab \notin acc.joined
      l    == pop_scan(scans, cond.lhs.tab)
      r    == pop_scan(scans, cond.rhs.tab)
  IN [joined |-> acc.joined \cup {cond.lhs.tab, cond.rhs.tab},
      plan |-> CASE lnew /\ rnew   -> JoinPlan(JoinPlan(l, r, <<cond>>), acc.plan, <<>>)
                 [] lnew /\ ~rnew  -> JoinPlan(l, acc.plan, <<cond>>)
                 [] ~lnew /\ rnew  -> JoinPlan(r, acc.plan, <<Swap(cond)>>)
                 [] ~lnew /\ ~rnew -> push_conds(cond, acc.plan)[2]]

make_one_rel(query) ==
  LET s == Scans(query)
      c == s.conds
      first == IF c = <<>> THEN [joined |-> {query.tables[1]}, plan |-> s.scans[1]]
               ELSE [joined |-> {Head(c).lhs.tab, Head(c).rhs.tab},
                     plan |-> JoinPlan(pop_scan(s.scans, Head(c).lhs.tab),
                                       pop_scan(s.scans, Head(c).rhs.tab), <<Head(c)>>)]
      joins == IF c = <<>> THEN first
               ELSE FoldLeft(LAMBDA acc, cond : JoinCond(s.scans, acc, cond), first, Tail(c))
      rest  == SelectSeq(s.scans, LAMBDA p : p.tab \notin joins.joined)
  IN IF Len(query.tables) = 1 THEN s.scans[1]
     ELSE FoldLeft(LAMBDA plan, p : JoinPlan(p, plan, <<>>), joins.plan, rest)

\* A limit counts only with an order by.
generate_sort_plan(query, plan) ==
  IF query.order = <<>> THEN plan
  ELSE SortPlan(plan, query.order, IF query.has_limit THEN query.limit ELSE -1)

\* The projection: for COUNT(*) all columns.
ProjectedCols(query) ==
  IF query.agg = "COUNT" /\ query.cols[1].name = ""
  THEN SelectCols(get_all_cols(query.tables), [query EXCEPT !.cols = <<>>])
  ELSE query.cols

generate_agg_plan(query, plan) == IF query.agg = None THEN plan ELSE AggPlan(plan, query.agg)

generate_select_plan(query) ==
  generate_agg_plan(query,
    ProjectionPlan(generate_sort_plan(query, make_one_rel(query)), ProjectedCols(query)))
=============================================================================
