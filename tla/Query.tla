-------------------------------- MODULE Query --------------------------------
(***************************************************************************)
(* A select statement from the analyzer to the last row: the plan of       *)
(* Planner becomes a tree of executors (src/portal.h), and select_from     *)
(* (src/execution/execution_manager.cpp) draws the rows from its root with *)
(* beginTuple and nextTuple.                                               *)
(*                                                                         *)
(* A row is a sequence of numbers, one for each column, whose types are    *)
(* those of the columns; data gives every table its pages of rows.  The    *)
(* statement holds a shared lock on its tables, so data does not change.   *)
(* An executor is a record of the fields the code keeps; beginTuple and    *)
(* nextTuple give the executor that they leave.  An exception ends the     *)
(* statement: the executor that raised it is marked thrown.                *)
(***************************************************************************)
EXTENDS Planner

CONSTANTS Statements,       \* the select statements
          Contents,         \* the contents of the database
          TuplesPerStep,    \* tuple_num_per_step
          OuterBufferSize,  \* OUTER_BUFFER_SIZE
          InnerBufferSize   \* INNER_BUFFER_SIZE

ASSUME BufferSizes == {TuplesPerStep, OuterBufferSize, InnerBufferSize} \subseteq Nat \ {0}

VARIABLES ast,    \* the statement
          data,   \* the pages of each table
          phase,  \* how far it has come
          query,  \* the analyzed statement
          plan,   \* its plan
          root,   \* the executor at the root
          out     \* the rows printed

vars == <<ast, data, phase, query, plan, root, out>>

-----------------------------------------------------------------------------
(* Values and conditions *)

\* The comparison operators of Value: values of different types are neither
\* equal nor ordered.
Less(x, y) == x.type = y.type /\ x.val < y.val
Compare(op, x, y) ==
  CASE op = "="  -> x = y
    [] op = "!=" -> x # y
    [] op = "<"  -> Less(x, y)
    [] op = ">"  -> Less(y, x)
    [] op = "<=" -> ~Less(y, x)
    [] op = ">=" -> ~Less(x, y)

\* ColMeta::find_from_cols goes by the name alone.
Named(cols, name) == {i \in DOMAIN cols : cols[i].name = name}
find_from_cols(cols, name) == CHOOSE i \in Named(cols, name) : \A j \in Named(cols, name) : i <= j

\* get_col and get_col_offset go by table and name.
PlaceOf(cols, target) == CHOOSE i \in DOMAIN cols : cols[i].tab = target.tab /\ cols[i].name = target.name

read_from_record(cols, row, i) == [type |-> cols[i].type, val |-> row[i]]
FieldNamed(cols, row, name) == read_from_record(cols, row, find_from_cols(cols, name))

NotFound(cond, cols) == \/ Named(cols, cond.lhs.name) = {}
                        \/ ~cond.is_rhs_val /\ Named(cols, cond.rhs.name) = {}

test_record(cond, cols, row) ==
  Compare(cond.op, FieldNamed(cols, row, cond.lhs.name),
          IF cond.is_rhs_val THEN cond.rhs_val ELSE FieldNamed(cols, row, cond.rhs.name))

test_join_record(cond, lcols, lrow, rcols, rrow) ==
  Compare(cond.op, FieldNamed(lcols, lrow, cond.lhs.name), FieldNamed(rcols, rrow, cond.rhs.name))

\* A scan tests its conditions in turn, up to the first that fails or throws.
Verdict(conds, cols, row) ==
  LET stops == {i \in DOMAIN conds : IF NotFound(conds[i], cols) THEN TRUE
                                     ELSE ~test_record(conds[i], cols, row)}
      first == CHOOSE i \in stops : \A j \in stops : i <= j
  IN IF stops = {} THEN "keep" ELSE IF NotFound(conds[first], cols) THEN "throw" ELSE "drop"

-----------------------------------------------------------------------------
(* Scans *)

\* A scan: pages are those of the table, or for an index scan one page for each
\* row, in the order of the key.  The range that an index scan cuts out with the
\* conditions on the key is part of BPlusTree; here they are tested on each row.
KeyOrder(t, index, rows) ==
  SortSeq(rows, LAMBDA r, s : r[find_from_cols(Cols[t], index[1])] < s[find_from_cols(Cols[t], index[1])])
ScanPages(p) ==
  IF p.index = <<>> THEN data[p.tab]
  ELSE LET rows == KeyOrder(p.tab, p.index, FlattenSeq(data[p.tab]))
       IN [i \in DOMAIN rows |-> <<rows[i]>>]

ScanExecutor(p) ==
  [kind |-> "scan", cols |-> Cols[p.tab], conds |-> p.conds, pages |-> ScanPages(p), page |-> 0,
   buf |-> <<>>, idx |-> 1, is_end |-> FALSE, thrown |-> FALSE]

Hits(e, i) == SelectSeq(e.pages[i], LAMBDA row : Verdict(e.conds, e.cols, row) = "keep")
Throws(e, i) == \E k \in DOMAIN e.pages[i] : Verdict(e.conds, e.cols, e.pages[i][k]) = "throw"

\* The loop over the pages, to the next one with a row.
LoadPage(e, from) ==
  LET stops == {i \in from..Len(e.pages) : Hits(e, i) # <<>> \/ Throws(e, i)}
      i     == CHOOSE i \in stops : \A j \in stops : i <= j
  IN IF stops = {} THEN [e EXCEPT !.buf = <<>>, !.is_end = TRUE]
     ELSE [e EXCEPT !.page = i, !.buf = Hits(e, i), !.idx = 1,
                    !.is_end = Throws(e, i), !.thrown = Throws(e, i)]

ScanBegin(e) == LoadPage([e EXCEPT !.is_end = FALSE, !.idx = 1], 1)
ScanNext(e) ==
  IF e.idx = Len(e.buf) THEN LoadPage([e EXCEPT !.idx = @ + 1], e.page + 1)
  ELSE [e EXCEPT !.idx = @ + 1]

-----------------------------------------------------------------------------
(* The operations of an executor *)

\* One recursive operator stands for the virtual methods and for the loops that
\* call them.
RECURSIVE Do(_, _, _)
beginTuple(e) == Do("beginTuple", e, <<>>)
nextTuple(e) == Do("nextTuple", e, <<>>)

\* Rows of e into a buffer, until it is full or they end: the rows, and e after.
Fill(e, size) == Do("fill", e, <<<<>>, size>>)

\* The nested loops of a join from the pair (i, j) on.
Seek(e, i, j) == Do("seek", e, <<i, j>>)

is_end(e) == e.is_end

\* Next: the row an executor stands on.
RECURSIVE Row(_)
Row(e) ==
  CASE e.kind = "scan" -> e.buf[e.idx]
    [] e.kind = "join" -> e.lbuf[e.li] \o e.rbuf[e.ri]
    [] e.kind = "sort" -> e.buf[e.idx]
    [] e.kind = "projection" -> [i \in DOMAIN e.sel_idxs |-> Row(e.prev)[e.sel_idxs[i]]]
    [] e.kind = "agg"  -> <<e.res>>

FillFrom(buf, e, size) ==
  IF Len(buf) = size \/ is_end(e) THEN <<buf, e>>
  ELSE Do("fill", nextTuple(e), <<Append(buf, Row(e)), size>>)

\* All rows of e, and e at its end.
RECURSIVE Drain(_, _)
Drain(buf, e) == IF is_end(e) THEN <<buf, e>> ELSE Drain(Append(buf, Row(e)), nextTuple(e))

-----------------------------------------------------------------------------
(* NestedLoopJoinExecutor: a block of left rows against blocks of right rows *)

JoinExecutor(l, r, conds) ==
  [kind |-> "join", left |-> l, right |-> r, cols |-> l.cols \o r.cols, conds |-> conds,
   lbuf |-> <<>>, rbuf |-> <<>>, li |-> 1, ri |-> 1, is_end |-> FALSE]

Joins(e, i, j) ==
  \A k \in DOMAIN e.conds :
     test_join_record(e.conds[k], e.left.cols, e.lbuf[i], e.right.cols, e.rbuf[j])

\* Mutant: the right side is not started again for a further left block.
NextBlocksOnce(e) ==
  LET r == Fill(e.right, InnerBufferSize)
  IN IF r[1] # <<>> THEN Seek([e EXCEPT !.rbuf = r[1], !.right = r[2]], 1, 1)
     ELSE [e EXCEPT !.lbuf = <<>>, !.rbuf = <<>>, !.is_end = TRUE]

\* The next blocks: of the right, or when that is exhausted of the left, with
\* the right from its start.
NextBlocks(e) ==
  LET r == Fill(e.right, InnerBufferSize)
      l == Fill(e.left, OuterBufferSize)
      again == Fill(beginTuple(e.right), InnerBufferSize)
  IN IF r[1] # <<>> THEN Seek([e EXCEPT !.rbuf = r[1], !.right = r[2]], 1, 1)
     ELSE IF l[1] = <<>>
     THEN [e EXCEPT !.lbuf = <<>>, !.left = l[2], !.rbuf = <<>>, !.right = r[2], !.is_end = TRUE]
     ELSE Seek([e EXCEPT !.lbuf = l[1], !.left = l[2], !.rbuf = again[1], !.right = again[2]], 1, 1)

SeekFrom(e, i, j) ==
  LET pairs == {p \in (i..Len(e.lbuf)) \X (1..Len(e.rbuf)) : (p[1] > i \/ p[2] >= j) /\ Joins(e, p[1], p[2])}
      first == CHOOSE p \in pairs : \A q \in pairs : p[1] < q[1] \/ (p[1] = q[1] /\ p[2] <= q[2])
  IN IF pairs # {} THEN [e EXCEPT !.li = first[1], !.ri = first[2]] ELSE NextBlocks(e)

\* beginTuple never sets is_end_ to false.
JoinBegin(e) ==
  LET l == Fill(beginTuple(e.left), OuterBufferSize)
      r == Fill(beginTuple(e.right), InnerBufferSize)
      b == [e EXCEPT !.left = l[2], !.lbuf = l[1], !.right = r[2], !.rbuf = r[1]]
  IN IF l[1] = <<>> THEN [e EXCEPT !.left = l[2], !.lbuf = <<>>, !.is_end = TRUE]
     ELSE IF r[1] = <<>> THEN [b EXCEPT !.is_end = TRUE]
     ELSE Seek(b, 1, 1)

JoinNext(e) == Seek(e, e.li, e.ri + 1)

-----------------------------------------------------------------------------
(* SortExecutor: sorted runs of TuplesPerStep rows, merged two by two *)

\* The first key in which two rows differ, 0 if there is none.
Differ(keys, r, s) ==
  LET ks == {k \in DOMAIN keys : r[keys[k][1]] # s[keys[k][1]]}
  IN IF ks = {} THEN 0 ELSE CHOOSE k \in ks : \A j \in ks : k <= j
KeyBefore(key, r, s) == IF key[2] THEN r[key[1]] > s[key[1]] ELSE r[key[1]] < s[key[1]]

cmp_record(keys, r, s) ==
  LET k == Differ(keys, r, s) IN IF k = 0 THEN FALSE ELSE KeyBefore(keys[k], r, s)

\* Mutant: the merge knows ascending order only.
CmpAscending(keys, r, s) ==
  LET k == Differ(keys, r, s) IN IF k = 0 THEN TRUE ELSE r[keys[k][1]] < s[keys[k][1]]

cmp_raw_data(keys, r, s) ==
  LET k == Differ(keys, r, s) IN IF k = 0 THEN TRUE ELSE KeyBefore(keys[k], r, s)

\* The temporary files: the rows of e in sorted runs.  (std::sort may leave
\* equal rows in any order; the properties do not tell them apart.)
RECURSIVE Runs(_, _, _)
Runs(files, e, keys) ==
  LET f == Fill(e, TuplesPerStep)
  IN IF f[1] = <<>> THEN <<files, f[2]>>
     ELSE Runs(Append(files, SortSeq(f[1], LAMBDA r, s : cmp_record(keys, r, s))), f[2], keys)

\* The merge of two files; the buffers they are read through are left out.
RECURSIVE Merge(_, _, _)
Merge(keys, f, g) ==
  IF f = <<>> THEN g
  ELSE IF g = <<>> THEN f
  ELSE IF cmp_raw_data(keys, Head(f), Head(g)) THEN <<Head(f)>> \o Merge(keys, Tail(f), g)
  ELSE <<Head(g)>> \o Merge(keys, f, Tail(g))

RECURSIVE mergeTmpFiles(_, _)
mergeTmpFiles(files, keys) ==
  LET mid == (Len(files) + 1) \div 2
  IN CASE Len(files) = 0 -> <<>>
       [] Len(files) = 1 -> files[1]
       [] Len(files) > 1 -> Merge(keys, mergeTmpFiles(SubSeq(files, 1, mid), keys),
                                  mergeTmpFiles(SubSeq(files, mid + 1, Len(files)), keys))

\* The constructor draws and sorts all rows of e.
SortExecutor(e, order, limit) ==
  LET keys == [k \in DOMAIN order |-> <<PlaceOf(e.cols, order[k][1]), order[k][2]>>]
      runs == Runs(<<>>, beginTuple(e), keys)
  IN [kind |-> "sort", prev |-> runs[2], cols |-> e.cols, limit |-> limit,
      file |-> mergeTmpFiles(runs[1], keys), rest |-> <<>>, buf |-> <<>>, idx |-> 1, is_end |-> FALSE]

\* buffer0_ is filled from the result file.
ReadResult(e, file) ==
  LET n == IF Len(file) < TuplesPerStep THEN Len(file) ELSE TuplesPerStep
  IN [e EXCEPT !.buf = SubSeq(file, 1, n), !.rest = SubSeq(file, n + 1, Len(file)), !.idx = 1]

SortBegin(e) ==
  IF e.file = <<>> \/ e.limit = 0 THEN [e EXCEPT !.idx = 1, !.is_end = TRUE] ELSE ReadResult(e, e.file)

\* The limit is compared with the place in the buffer.
SortNext(e) ==
  CASE e.limit > 0 /\ e.idx = e.limit -> [e EXCEPT !.idx = @ + 1, !.is_end = TRUE]
    [] ~(e.limit > 0 /\ e.idx = e.limit) /\ e.idx < Len(e.buf) -> [e EXCEPT !.idx = @ + 1]
    [] ~(e.limit > 0 /\ e.idx = e.limit) /\ e.idx = Len(e.buf) ->
         IF e.rest = <<>> THEN [e EXCEPT !.idx = @ + 1, !.is_end = TRUE] ELSE ReadResult(e, e.rest)

-----------------------------------------------------------------------------
(* ProjectionExecutor *)

\* Mutant: all columns of the rows below, whatever was asked for.
ProjectAll(e, cols) ==
  [kind |-> "projection", prev |-> e, sel_idxs |-> [i \in DOMAIN e.cols |-> i], cols |-> e.cols,
   is_end |-> FALSE]

ProjectionExecutor(e, cols) ==
  LET sel_idxs == [i \in DOMAIN cols |-> PlaceOf(e.cols, cols[i])]
  IN [kind |-> "projection", prev |-> e, sel_idxs |-> sel_idxs,
      cols |-> [i \in DOMAIN cols |-> e.cols[sel_idxs[i]]], is_end |-> FALSE]

\* It stands on a row when the executor below does.
OnRow(e, prev) == [e EXCEPT !.prev = prev, !.is_end = is_end(prev)]

-----------------------------------------------------------------------------
(* AggExecutor *)

AggExecutor(e, agg) ==
  [kind |-> "agg", prev |-> e, agg |-> agg, cols |-> <<e.cols[1]>>, res |-> 0, is_end |-> FALSE,
   thrown |-> FALSE, undefined |-> FALSE]

\* Mutant: the first value is not looked at.
FoldWithoutFirst(agg, vals) ==
  CASE agg = "COUNT" -> Len(vals)
    [] agg = "SUM"   -> FoldLeft(+, 0, vals)
    [] agg = "MAX"   -> FoldLeft(LAMBDA m, v : IF v > m THEN v ELSE m, 0, Tail(vals))
    [] agg = "MIN"   -> FoldLeft(LAMBDA m, v : IF v < m THEN v ELSE m, 0, Tail(vals))

\* beginCount, beginSum, beginMax and beginMin over the values of the column.
AggResult(agg, vals) ==
  CASE agg = "COUNT" -> Len(vals)
    [] agg = "SUM"   -> FoldLeft(+, 0, vals)
    [] agg = "MAX"   -> FoldLeft(LAMBDA m, v : IF v > m THEN v ELSE m, Head(vals), Tail(vals))
    [] agg = "MIN"   -> FoldLeft(LAMBDA m, v : IF v < m THEN v ELSE m, Head(vals), Tail(vals))

AggTypes(agg) == IF agg = "SUM" THEN {"INT", "FLOAT"} ELSE {"INT", "FLOAT", "STRING"}

\* MAX and MIN of no rows: the result is not initialized, and nextTuple is
\* called below an end, which reads outside the buffers of a join or index scan.
AggBegin(e) ==
  LET d     == Drain(<<>>, beginTuple(e.prev))
      undef == e.agg \in {"MAX", "MIN"} /\ d[1] = <<>>
  IN [e EXCEPT !.prev = d[2], !.undefined = undef,
               !.thrown = e.cols[1].type \notin AggTypes(e.agg),
               !.res = IF undef THEN @ ELSE AggResult(e.agg, [i \in DOMAIN d[1] |-> d[1][i][1]])]

-----------------------------------------------------------------------------
Begin(e) ==
  CASE e.kind = "scan" -> ScanBegin(e)
    [] e.kind = "join" -> JoinBegin(e)
    [] e.kind = "sort" -> SortBegin(e)
    [] e.kind = "projection" -> OnRow(e, beginTuple(e.prev))
    [] e.kind = "agg"  -> AggBegin(e)

\* The one row of an aggregate was taken by Next.
Advance(e) ==
  CASE e.kind = "scan" -> ScanNext(e)
    [] e.kind = "join" -> JoinNext(e)
    [] e.kind = "sort" -> SortNext(e)
    [] e.kind = "projection" -> OnRow(e, nextTuple(e.prev))
    [] e.kind = "agg"  -> [e EXCEPT !.is_end = TRUE]

Do(op, e, arg) ==
  CASE op = "beginTuple" -> Begin(e)
    [] op = "nextTuple"  -> Advance(e)
    [] op = "fill"       -> FillFrom(arg[1], e, arg[2])
    [] op = "seek"       -> SeekFrom(e, arg[1], arg[2])

\* An exception was raised in e or below.
RECURSIVE Threw(_)
Threw(e) ==
  CASE e.kind = "scan" -> e.thrown
    [] e.kind = "join" -> Threw(e.left) \/ Threw(e.right)
    [] e.kind = "agg"  -> e.thrown \/ Threw(e.prev)
    [] OTHER -> Threw(e.prev)

-----------------------------------------------------------------------------
(* Portal *)

\* tupleLen of an index scan throws.
LenThrows(p) == p.kind = "scan" /\ p.index # <<>>

\* A constructor throws: a join or sort asks an index scan for its length, or a
\* projection is for a column that is not there.
RECURSIVE ConvertThrows(_)
ConvertThrows(p) ==
  CASE p.kind = "scan" -> FALSE
    [] p.kind = "join" -> \E c \in {p.left, p.right} : LenThrows(c) \/ ConvertThrows(c)
    [] p.kind = "sort" -> LenThrows(p.subplan) \/ ConvertThrows(p.subplan)
    [] p.kind = "projection" -> ConvertThrows(p.subplan) \/ \E i \in DOMAIN p.cols : p.cols[i].tab = ""
    [] p.kind = "agg"  -> ConvertThrows(p.subplan)

RECURSIVE convert_plan_executor(_)
convert_plan_executor(p) ==
  CASE p.kind = "scan" -> ScanExecutor(p)
    [] p.kind = "join" -> JoinExecutor(convert_plan_executor(p.left), convert_plan_executor(p.right), p.conds)
    [] p.kind = "sort" -> SortExecutor(convert_plan_executor(p.subplan), p.order, p.limit)
    [] p.kind = "projection" -> ProjectionExecutor(convert_plan_executor(p.subplan), p.cols)
    [] p.kind = "agg"  -> AggExecutor(convert_plan_executor(p.subplan), p.agg)

-----------------------------------------------------------------------------
(* The statement *)

Init ==
  /\ ast \in Statements
  /\ data \in Contents
  /\ phase = "parsed"
  /\ query = None /\ plan = None /\ root = None
  /\ out = <<>>

\* The analyzer throws.
Refuse ==
  /\ phase = "parsed" /\ ~Accepts(ast)
  /\ phase' = "refused"
  /\ UNCHANGED <<ast, data, query, plan, root, out>>

Analyze ==
  /\ phase = "parsed" /\ Accepts(ast)
  /\ phase' = "analyzed"
  /\ query' = do_analyze(ast)
  /\ UNCHANGED <<ast, data, plan, root, out>>

plan_query ==
  /\ phase = "analyzed"
  /\ phase' = "planned"
  /\ plan' = generate_select_plan(query)
  /\ UNCHANGED <<ast, data, query, root, out>>

\* Portal::start: the constructors run, a sort's with all that is below it.
StartThrows ==
  /\ phase = "planned" /\ ConvertThrows(plan)
  /\ phase' = "failed"
  /\ UNCHANGED <<ast, data, query, plan, root, out>>

Start ==
  /\ phase = "planned" /\ ~ConvertThrows(plan)
  /\ root' = convert_plan_executor(plan)
  /\ phase' = IF Threw(root') THEN "failed" ELSE "open"
  /\ UNCHANGED <<ast, data, query, plan, out>>

\* After an operation on the root: where the statement stands.
Standing(e) ==
  IF Threw(e) THEN "failed"
  ELSE IF e.kind = "agg" /\ e.undefined THEN "undefined"
  ELSE IF is_end(e) THEN "done" ELSE "row"

\* select_from: beginTuple, and for each row Next, printing and nextTuple.
SelectBegin ==
  /\ phase = "open"
  /\ root' = beginTuple(root)
  /\ phase' = Standing(root')
  /\ UNCHANGED <<ast, data, query, plan, out>>

SelectNext ==
  /\ phase = "row"
  /\ out' = Append(out, Row(root))
  /\ root' = nextTuple(root)
  /\ phase' = Standing(root')
  /\ UNCHANGED <<ast, data, query, plan>>

Next == Refuse \/ Analyze \/ plan_query \/ StartThrows \/ Start \/ SelectBegin \/ SelectNext

Spec == Init /\ [][Next]_vars

-----------------------------------------------------------------------------
(* What the statement asks for *)

\* The rows of a table, and the ways to take one row of each table of the
\* statement so that all conditions hold.
Rows(t) == FlattenSeq(data[t])
Field(f, col) ==
  LET i == PlaceOf(Cols[col.tab], col)
  IN read_from_record(Cols[col.tab], Rows(col.tab)[f[col.tab]], i)
Holds(f, cond) ==
  Compare(cond.op, Field(f, cond.lhs), IF cond.is_rhs_val THEN cond.rhs_val ELSE Field(f, cond.rhs))
Answers ==
  LET tabs == ToSet(query.tables)
      most == UNION {DOMAIN Rows(t) : t \in tabs}
  IN {f \in [tabs -> most] : /\ \A t \in tabs : f[t] \in DOMAIN Rows(t)
                             /\ \A i \in DOMAIN query.conds : Holds(f, query.conds[i])}
AnswerRows == {<<f, [i \in DOMAIN query.cols |-> Field(f, query.cols[i]).val]>> : f \in Answers}

\* The rows printed are among the answers, none more often than it is there.
Among(rows) == \A row \in ToSet(out) :
  Cardinality({j \in DOMAIN out : out[j] = row}) <= Cardinality({r \in rows : r[2] = row})

\* The part of a plan below projection, aggregate and sort, and its nodes.
RECURSIVE Body(_), Nodes(_)
Body(p) == IF p.kind \in {"scan", "join"} THEN p ELSE Body(p.subplan)
Nodes(p) == IF p.kind = "scan" THEN <<p>> ELSE <<p>> \o Nodes(p.left) \o Nodes(p.right)
BodyNodes == Nodes(Body(plan))
Scanned(p) == LET scans == SelectSeq(Nodes(p), LAMBDA n : n.kind = "scan")
              IN [i \in DOMAIN scans |-> scans[i].tab]
JoinNodes == {n \in ToSet(BodyNodes) : n.kind = "join"}

\* Statements whose plans the executors do not carry out as written:
\* a condition between two columns of a table that is not the first one,
SameTableFirst ==
  \A c \in ToSet(query.conds) : ~c.is_rhs_val /\ c.lhs.tab = c.rhs.tab => c.lhs.tab = query.tables[1]
\* a condition whose column name means another table on its side of the join,
PlanCols(p) == FlattenSeq([i \in DOMAIN Scanned(p) |-> Cols[Scanned(p)[i]]])
NamesClear ==
  \A n \in JoinNodes : \A c \in ToSet(n.conds) :
     /\ PlanCols(n.left)[find_from_cols(PlanCols(n.left), c.lhs.name)].tab = c.lhs.tab
     /\ PlanCols(n.right)[find_from_cols(PlanCols(n.right), c.rhs.name)].tab = c.rhs.tab
\* and a join that is started again for a second block of left rows.
OneBlock ==
  \A n \in JoinNodes : n.right.kind = "join" =>
     FoldLeft(LAMBDA size, t : size * Len(Rows(t)), 1, Scanned(n.left)) <= OuterBufferSize

Carried == SameTableFirst /\ NamesClear /\ OneBlock

-----------------------------------------------------------------------------
(* Properties *)

\* The state is as declared, and a printed row has a value for each column
\* that select_from takes from the root executor.
TypeOK ==
  /\ ast \in Statements /\ data \in Contents
  /\ phase \in {"parsed", "refused", "analyzed", "planned", "open", "row", "done", "failed", "undefined"}
  /\ phase \in {"parsed", "refused"} <=> query = None
  /\ phase \in {"parsed", "refused", "analyzed"} <=> plan = None
  /\ \A i \in DOMAIN out : Len(out[i]) = IF ast.agg = None THEN Len(query.cols) ELSE 1

\* The planner scans every table once and keeps every condition once: at the
\* scan of its table, or at a join that has the table of its left column on the
\* left and the other one on the right, turned round with its operator where
\* that is needed (pop_conds, push_conds, make_one_rel).
ConditionsPlaced ==
  plan # None =>
    /\ Len(Scanned(Body(plan))) = Len(query.tables)
    /\ ToSet(Scanned(Body(plan))) = ToSet(query.tables)
    /\ Len(FlattenSeq([i \in DOMAIN BodyNodes |-> BodyNodes[i].conds])) = Len(query.conds)
    /\ \A c \in ToSet(query.conds) : \E n \in ToSet(BodyNodes) : \E d \in ToSet(n.conds) :
         IF c.is_rhs_val THEN d = c /\ n.kind = "scan" /\ n.tab = c.lhs.tab
         ELSE IF c.lhs.tab = c.rhs.tab THEN d = c /\ n.kind = "scan" /\ (SameTableFirst => n.tab = c.lhs.tab)
         ELSE /\ d \in {c, Swap(c)} /\ n.kind = "join"
              /\ d.lhs.tab \in ToSet(Scanned(n.left)) /\ d.rhs.tab \in ToSet(Scanned(n.right))

\* A select without limit prints exactly the rows of the product of its tables
\* that meet its conditions, each as often as it occurs, whatever plan it got
\* and wherever blocks, pages and runs begin (the scans, the block nested loop
\* join, the sort and the projection together).
RowsExact ==
  phase = "done" /\ ast.agg = None /\ (ast.order = <<>> \/ ~ast.has_limit) /\ Carried =>
    \A rows \in {AnswerRows} : Among(rows) /\ Len(out) = Cardinality(rows)

\* An order by prints rows in order, and a limit the first of them: no answer
\* that was left out or comes later belongs before a printed row (stated where
\* the keys are printed).  Limits beyond the sort's buffer, which
\* SortExecutor::nextTuple loses, are left out.
SortedPrefix ==
  LET keys == [k \in DOMAIN query.order |-> <<PlaceOf(query.cols, query.order[k][1]), query.order[k][2]>>]
      most == IF ast.has_limit THEN {ast.limit} ELSE {}
  IN phase = "done" /\ ast.agg = None /\ ast.order # <<>> /\ Carried
       /\ (ast.has_limit => ast.limit <= TuplesPerStep)
       /\ {query.order[k][1] : k \in DOMAIN query.order} \subseteq ToSet(query.cols) =>
     \A rows \in {AnswerRows} :
       /\ Among(rows)
       /\ Len(out) = Min({Cardinality(rows)} \cup most)
       /\ \A i, j \in DOMAIN out : i < j => ~cmp_record(keys, out[j], out[i])
       /\ \A i \in DOMAIN out : Cardinality({r \in rows : cmp_record(keys, r[2], out[i])}) < i

\* An aggregate prints one row, with the number, the sum or an extreme of the
\* values of its column in the answers (AggExecutor::beginTuple).
AggExact ==
  LET val(f) == Field(f, query.cols[1]).val
  IN phase = "done" /\ ast.agg # None /\ ~ast.has_limit /\ Carried =>
       /\ Len(out) = 1
       /\ \A res \in {out[1][1]}, answers \in {Answers} :
             CASE ast.agg = "COUNT" -> res = Cardinality(answers)
               [] ast.agg = "SUM"   -> res = MapThenSumSet(val, answers)
               [] ast.agg = "MAX"   -> /\ \E f \in answers : val(f) = res
                                       /\ \A f \in answers : val(f) <= res
               [] ast.agg = "MIN"   -> /\ \E f \in answers : val(f) = res
                                       /\ \A f \in answers : val(f) >= res

=============================================================================
