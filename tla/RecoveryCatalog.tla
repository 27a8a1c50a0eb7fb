--------------------------- MODULE RecoveryCatalog --------------------------
(***************************************************************************)
(* The catalog through crashes and restarts, for any number of clients,    *)
(* tables and crashes: CatalogInv is the invariant of the definitions, the *)
(* files and the handles of the tables, and every step keeps it.           *)
(*                                                                         *)
(* analyze() drops and creates one table after the other, by the same      *)
(* functions as the clients.  Handles and IndexesLeft say what there is of *)
(* the tables and the indexes at each point of a drop and of a create at   *)
(* which the main thread can be; Defined says that a crash leaves no index *)
(* without a table in the meta file.                                       *)
(***************************************************************************)
EXTENDS Recovery, TLAPS, WellFoundedInduction

(* The invariant of the catalog *)

Stopped == {"down", "dead", "hung"}
Recovering == {"redo", "undo", "recovered"}
DropIndexPoints == {"di_check", "di_meta", "di_file", "di_erase"}

\* Where a thread may be, and what statements there are.
TxnPoints == {"txn", "refused", "undo", "undo_clr", "refused_clr", "commit_log", "commit_flush",
              "abort_log", "abort_flush"}
Points == DdlPoints \cup TxnPoints \cup {"idle", "stuck", "gone"}
Ddls == [op : {None, "create_table", "drop_table", "create_index", "drop_index"},
         tab : Tables \cup {None}, left : Int]

\* The shape of the definitions and of the threads' statements.
TablesMeta == [tabs : SUBSET Tables, indexes : [Tables -> Nat]]
CatalogTypes ==
  /\ db \in TablesMeta /\ meta \in TablesMeta
  /\ pc \in [Threads -> Points]
  /\ ddl \in [Threads -> Ddls]
  /\ \A c \in Threads : pc[c] \in DdlPoints => Tab(c) \in Tables

\* A table without a definition has no index in the definitions, and the meta
\* file has what is in memory, once the database is open.
Defined ==
  /\ \A t \in Tables : t \notin db.tabs => db.indexes[t] = 0
  /\ \A t \in Tables : t \notin meta.tabs => meta.indexes[t] = 0
  /\ phase \notin Stopped => meta = db

\* Clients do nothing before the server is up, and a process that starts has
\* nothing from the one before.
Asleep ==
  /\ phase # "up" => \A c \in Clients : pc[c] = "idle"
  /\ phase \in Stopped => latch = "free" /\ pc[Main] = "idle" /\ ddl[Main] = NoDdl

\* The main thread is about to drop a table and has its indexes yet to drop, or
\* the definition; the definition is gone; the table is gone; it is defined again.
Between == pc[Main] = "idle" /\ ddl[Main].op # "drop_table"
Dropping == pc[Main] \in DropIndexPoints \cup {"dt_check", "dt_meta"} /\ ddl[Main].op = "drop_table"
Undefined == pc[Main] \in {"dt_file", "dt_erase"} /\ ddl[Main].op = "drop_table"
Dropped == \/ pc[Main] = "idle" /\ ddl[Main].op = "drop_table"
           \/ pc[Main] \in {"ct_file", "ct_meta"} /\ ddl[Main].op = "create_table"
Redefined == pc[Main] = "ct_open" /\ ddl[Main].op = "create_table"

\* Which definitions and handles there are at each of these points.
Handles ==
  \/ Between /\ fhs = db.tabs
  \/ Dropping /\ fhs = db.tabs /\ Tab(Main) \in db.tabs
  \/ Undefined /\ fhs = db.tabs \cup {Tab(Main)} /\ Tab(Main) \notin db.tabs
  \/ Dropped /\ fhs = db.tabs /\ Tab(Main) \in Tables \ db.tabs
  \/ Redefined /\ fhs = db.tabs \ {Tab(Main)} /\ Tab(Main) \in db.tabs

\* What is left of the indexes belongs to tables that analyze has still to drop.
IndexesLeft ==
  /\ \A t \in ihs : \/ t \in todo /\ db.indexes[t] > 0
                    \/ t = Tab(Main) /\ pc[Main] \in DropIndexPoints
  /\ \A t \in Tables : db.indexes[t] > 0 => t \in todo \/ (t = Tab(Main) /\ Dropping)

Analyzing ==
  phase = "analyze" =>
    /\ latch = "free"
    /\ Handles /\ IndexesLeft
    /\ db.tabs \subseteq table_files
    /\ pc[Main] = "ct_meta" => Tab(Main) \in table_files
    /\ todo \subseteq db.tabs
    /\ ~Between => Tab(Main) \notin todo

CatalogInv == CatalogTypes /\ Defined /\ Asleep /\ Analyzing /\ Rebuilt

-----------------------------------------------------------------------------
(* The catalog: steps that end the process or leave the definitions alone *)

\* A thread without a statement.
LEMMA NoStatement == NoDdl \in Ddls
  BY DEF NoDdl, Ddls, None

\* The end of the process, with the meta file as it is.
LEMMA StopKeeps ==
  ASSUME CatalogInv, NEW next \in Stopped, Stop(next), meta' = meta
  PROVE  CatalogInv'
<1>1. CatalogTypes /\ Defined
  BY Zenon DEF CatalogInv
<1>2. db' = [tabs |-> {}, indexes |-> NoIndexes] /\ latch' = "free" /\ phase' = next
  BY Zenon DEF Stop
<1>3. pc' = [c \in Threads |-> "idle"] /\ ddl' = [c \in Threads |-> NoDdl]
  BY Zenon DEF Stop
<1>4. CatalogTypes'
  <2>1. "idle" \in Points /\ "idle" \notin DdlPoints
    BY DEF Points, DdlPoints, CreatePoints, DropPoints
  <2>2. db' \in TablesMeta /\ meta' \in TablesMeta
    BY <1>1, <1>2 DEF CatalogTypes, TablesMeta, NoIndexes
  <2> QED
    BY <1>3, <2>1, <2>2, NoStatement DEF CatalogTypes
<1>5. Defined'
  BY <1>1, <1>2, meta' = meta DEF Defined, CatalogTypes, TablesMeta, NoIndexes
<1>6. Asleep'
  BY <1>2, <1>3 DEF Asleep, Threads
<1>7. Analyzing' /\ Rebuilt'
  BY <1>2 DEF Stopped, Analyzing, Rebuilt
<1> QED
  BY Zenon, <1>4, <1>5, <1>6, <1>7 DEF CatalogInv

\* While clients work, types and definitions are all there is to show.
LEMMA UpKeeps ==
  ASSUME phase' = "up", CatalogTypes', Defined'
  PROVE  CatalogInv'
  BY Zenon DEF CatalogInv, Asleep, Analyzing, Rebuilt, Stopped

\* A client moves on within its statement or transaction.
Elsewhere(c) ==
  /\ pc' \in [Threads -> Points]
  /\ ddl' \in [Threads -> Ddls]
  /\ \A d \in Threads : d # c => pc'[d] = pc[d] /\ ddl'[d] = ddl[d]
\* The shapes stay if that thread's own do.
LEMMA TypesKept ==
  ASSUME CatalogTypes, NEW c \in Threads, Elsewhere(c), db' \in TablesMeta, meta' \in TablesMeta,
         pc'[c] \in DdlPoints => ddl'[c].tab \in Tables
  PROVE  CatalogTypes'
  BY Zenon DEF CatalogTypes, Elsewhere, Tab

\* Goto moves one thread.
LEMMA GotoMoves ==
  ASSUME CatalogTypes, NEW c \in Threads, NEW point \in Points, Goto(c, point)
  PROVE  Elsewhere(c) /\ pc'[c] = point /\ ddl' = ddl /\ phase' = phase /\ todo' = todo
  BY DEF CatalogTypes, Goto, Elsewhere
\* So does Return, which leaves the main thread its statement.
LEMMA ReturnMoves ==
  ASSUME CatalogTypes, NEW c \in Threads, Return(c)
  PROVE  /\ Elsewhere(c) /\ pc'[c] = "idle" /\ phase' = phase /\ todo' = todo
         /\ c = Main => ddl' = ddl
<1>1. pc \in [Threads -> Points] /\ ddl \in [Threads -> Ddls]
  BY Zenon DEF CatalogTypes
<1>2. pc' = [pc EXCEPT ![c] = "idle"] /\ phase' = phase /\ todo' = todo
  BY Zenon DEF Return
<1>3. ddl' = ddl \/ (c # Main /\ ddl' = [ddl EXCEPT ![c] = NoDdl])
  BY Zenon DEF Return
<1>4. NoDdl \in Ddls /\ "idle" \in Points
  BY NoStatement, Zenon DEF Points
<1>5. /\ ddl' \in [Threads -> Ddls]
      /\ \A d \in Threads : d # c => ddl'[d] = ddl[d]
  BY <1>1, <1>3, <1>4
<1>6. /\ pc' \in [Threads -> Points] /\ pc'[c] = "idle"
      /\ \A d \in Threads : d # c => pc'[d] = pc[d]
  BY <1>1, <1>2, <1>4
<1>7. c = Main => ddl' = ddl
  BY Zenon, <1>3
<1> QED
  BY Zenon, <1>2, <1>5, <1>6, <1>7 DEF Elsewhere

\* The main thread works on the catalog in analyze, a client when the server is up.
PhaseOf(c) == IF c = Main THEN "analyze" ELSE "up"

\* A step of a DDL statement: what is to be shown of it.
LEMMA ThreadKeeps ==
  ASSUME CatalogInv, NEW c \in Threads, phase = PhaseOf(c), phase' = phase, Elsewhere(c),
         CatalogTypes', Defined', c = Main => Analyzing'
  PROVE  CatalogInv'
<1>1. CASE c = Main
  <2>1. phase' = "analyze" /\ phase # "up"
    BY Zenon, <1>1 DEF PhaseOf
  <2>2. \A d \in Clients : d \in Threads /\ d # c
    BY Zenon, <1>1, MainAssumption DEF Threads
  <2>3. Asleep'
    BY Zenon, <2>1, <2>2 DEF CatalogInv, Asleep, Stopped, Elsewhere
  <2>4. Rebuilt'
    BY Zenon, <2>1 DEF Rebuilt
  <2> QED
    BY Zenon, <1>1, <2>3, <2>4 DEF CatalogInv
<1>2. CASE c # Main
  BY Zenon, <1>2, UpKeeps DEF PhaseOf
<1> QED
  BY Zenon, <1>1, <1>2

\* An error ends the statement of a client, and the process in analyze.
LEMMA ThrowKeeps ==
  ASSUME CatalogInv, NEW c \in Threads, phase = PhaseOf(c), Throw(c)
  PROVE  CatalogInv'
<1>1. CASE c = Main
  <2>1. "dead" \in Stopped /\ Stop("dead") /\ meta' = meta
    BY Zenon, <1>1 DEF Throw, Stopped, files
  <2> QED
    BY Zenon, <2>1, StopKeeps
<1>2. CASE c # Main
  <2>1. Return(c) /\ db' = db /\ meta' = meta
    BY Zenon, <1>2 DEF Throw, files, memory
  <2>2. CatalogTypes /\ Defined
    BY Zenon DEF CatalogInv
  <2>3. Elsewhere(c) /\ pc'[c] = "idle" /\ phase' = phase
    BY Zenon, <2>1, <2>2, ReturnMoves
  <2>4. "idle" \notin DdlPoints
    BY Zenon DEF DdlPoints, CreatePoints, DropPoints
  <2>5. CatalogTypes'
    BY Zenon, <2>1, <2>2, <2>3, <2>4, TypesKept DEF CatalogTypes
  <2>6. Defined'
    BY Zenon, <2>1, <2>2, <2>3 DEF Defined
  <2> QED
    BY Zenon, <1>2, <2>3, <2>5, <2>6, ThreadKeeps
<1> QED
  BY Zenon, <1>1, <1>2

\* So does a null handle.
LEMMA SegfaultKeeps ==
  ASSUME CatalogInv, Segfault
  PROVE  CatalogInv'
<1>1. "down" \in Stopped /\ Stop("down") /\ meta' = meta
  BY Zenon DEF Segfault, Stopped, files
<1> QED
  BY Zenon, <1>1, StopKeeps

-----------------------------------------------------------------------------
(* The catalog: create_table *)

\* What is known of a thread in a DDL statement.
LEMMA ThreadAt ==
  ASSUME CatalogInv, NEW c \in Threads, NEW point \in DdlPoints, At(c, point)
  PROVE  /\ CatalogTypes /\ Defined /\ phase = PhaseOf(c) /\ pc[c] = point
         /\ Tab(c) \in Tables /\ meta = db
         /\ c = Main => phase = "analyze" /\ Analyzing
  BY Zenon DEF CatalogInv, At, PhaseOf, CatalogTypes, Defined, Stopped

\* A step to another point of the statement that leaves the definitions alone.
LEMMA PointKept ==
  ASSUME CatalogInv, NEW c \in Threads, NEW point \in DdlPoints, At(c, point),
         NEW next \in DdlPoints, Goto(c, next), db' = db, meta' = meta, c = Main => Analyzing'
  PROVE  CatalogInv'
<1>1. CatalogTypes /\ Defined /\ phase = PhaseOf(c) /\ Tab(c) \in Tables
  BY Zenon, ThreadAt
<1>2. next \in Points
  BY Zenon DEF Points
<1>3. Elsewhere(c) /\ pc'[c] = next /\ ddl' = ddl /\ phase' = phase
  BY Zenon, <1>1, <1>2, GotoMoves
<1>4. CatalogTypes'
  BY Zenon, <1>1, <1>3, TypesKept DEF CatalogTypes, Tab
<1>5. Defined'
  BY Zenon, <1>1, <1>3 DEF Defined
<1> QED
  BY Zenon, <1>1, <1>3, <1>4, <1>5, ThreadKeeps

\* The last step of a statement that leaves the definitions alone.
LEMMA ReturnKept ==
  ASSUME CatalogInv, NEW c \in Threads, NEW point \in DdlPoints, At(c, point), Return(c),
         db' = db, meta' = meta, c = Main => Analyzing'
  PROVE  CatalogInv'
<1>1. CatalogTypes /\ Defined /\ phase = PhaseOf(c) /\ Tab(c) \in Tables
  BY Zenon, ThreadAt
<1>2. "idle" \notin DdlPoints
  BY Zenon DEF DdlPoints, CreatePoints, DropPoints
<1>3. Elsewhere(c) /\ pc'[c] = "idle" /\ phase' = phase
  BY Zenon, <1>1, ReturnMoves
<1>4. CatalogTypes'
  BY Zenon, <1>1, <1>2, <1>3, TypesKept DEF CatalogTypes
<1>5. Defined'
  BY Zenon, <1>1, <1>3 DEF Defined
<1> QED
  BY Zenon, <1>1, <1>3, <1>4, <1>5, ThreadKeeps

\* A step that sets the definitions, in memory and on disk.
LEMMA MetaKept ==
  ASSUME CatalogInv, NEW c \in Threads, NEW point \in DdlPoints, At(c, point),
         NEW next \in DdlPoints, Goto(c, next), NEW tabs \in SUBSET Tables, NEW indexes \in [Tables -> Nat],
         SetMeta(tabs, indexes), \A t \in Tables : t \notin tabs => indexes[t] = 0, c = Main => Analyzing'
  PROVE  CatalogInv'
<1>1. CatalogTypes /\ phase = PhaseOf(c) /\ Tab(c) \in Tables
  BY Zenon, ThreadAt
<1>2. next \in Points
  BY Zenon DEF Points
<1>3. Elsewhere(c) /\ pc'[c] = next /\ ddl' = ddl /\ phase' = phase
  BY Zenon, <1>1, <1>2, GotoMoves
<1>4. db' = [tabs |-> tabs, indexes |-> indexes] /\ meta' = db'
  BY Zenon DEF SetMeta
<1>5. db' \in TablesMeta /\ db'.tabs = tabs /\ db'.indexes = indexes
  BY <1>4 DEF TablesMeta
<1>6. CatalogTypes'
  BY Zenon, <1>1, <1>3, <1>4, <1>5, TypesKept DEF Tab
<1>7. Defined'
  BY Zenon, <1>4, <1>5 DEF Defined
<1> QED
  BY Zenon, <1>1, <1>3, <1>6, <1>7, ThreadKeeps

\* create_table makes the file.
LEMMA CreateTableFileKeeps ==
  ASSUME CatalogInv, NEW c \in Threads, CreateTableFile(c)
  PROVE  CatalogInv'
<1>1. At(c, "ct_file") /\ "ct_file" \in DdlPoints /\ "ct_meta" \in DdlPoints /\ "ct_meta" \in Points
  BY Zenon DEF CreateTableFile, DdlPoints, CreatePoints, Points
<1>2. phase = PhaseOf(c) /\ CatalogTypes /\ (c = Main => phase = "analyze" /\ Analyzing)
  BY Zenon, <1>1, ThreadAt
<1>3. CASE Throw(c)
  BY Zenon, <1>2, <1>3, ThrowKeeps
<1>4. CASE /\ Tab(c) \notin table_files /\ table_files' = table_files \cup {Tab(c)}
           /\ Goto(c, "ct_meta") /\ UNCHANGED <<meta, index_files, memory>>
  <2>1. /\ db' = db /\ meta' = meta /\ fhs' = fhs /\ ihs' = ihs /\ latch' = latch
        /\ pc'[c] = "ct_meta" /\ ddl' = ddl /\ phase' = phase /\ todo' = todo
    BY Zenon, <1>1, <1>2, <1>4, GotoMoves DEF memory
  <2>2. c = Main => Analyzing'
    BY <1>1, <1>2, <1>4, <2>1 DEF At, Analyzing, Handles, IndexesLeft, Between, Dropping, Undefined, Dropped, Redefined,
       DropIndexPoints, Tab
  <2> QED
    BY Zenon, <1>1, <1>4, <2>1, <2>2, PointKept
<1> QED
  BY Zenon, <1>3, <1>4 DEF CreateTableFile

\* It defines the table; in analyze the table had been dropped before.
LEMMA CreateTableMetaKeeps ==
  ASSUME CatalogInv, NEW c \in Threads, CreateTableMeta(c)
  PROVE  CatalogInv'
<1>1. At(c, "ct_meta") /\ "ct_meta" \in DdlPoints /\ "ct_open" \in DdlPoints /\ "ct_open" \in Points
  BY Zenon DEF CreateTableMeta, DdlPoints, CreatePoints, Points
<1>2. /\ phase = PhaseOf(c) /\ CatalogTypes /\ Defined /\ Tab(c) \in Tables /\ meta = db
      /\ c = Main => phase = "analyze" /\ Analyzing
  BY Zenon, <1>1, ThreadAt
<1> DEFINE tabs == db.tabs \cup {Tab(c)}
           indexes == [db.indexes EXCEPT ![Tab(c)] = 0]
<1>3. db.tabs \in SUBSET Tables /\ db.indexes \in [Tables -> Nat]
  BY <1>2 DEF CatalogTypes, TablesMeta
<1>4. /\ tabs \in SUBSET Tables /\ indexes \in [Tables -> Nat]
      /\ \A t \in Tables : t \notin tabs => indexes[t] = 0
  BY <1>2, <1>3 DEF Defined
<1>5. SetMeta(tabs, indexes) /\ Goto(c, "ct_open")
  BY Zenon DEF CreateTableMeta
<1>6. /\ fhs' = fhs /\ ihs' = ihs /\ latch' = latch /\ table_files' = table_files
      /\ pc'[c] = "ct_open" /\ ddl' = ddl /\ phase' = phase /\ todo' = todo
  BY Zenon, <1>1, <1>2, <1>5, GotoMoves DEF CreateTableMeta
<1>7. db'.tabs = tabs /\ db'.indexes = indexes
  BY <1>5 DEF SetMeta
<1>8. c = Main => Analyzing'
  BY <1>1, <1>2, <1>3, <1>6, <1>7 DEF At, Analyzing, Handles, IndexesLeft, Between, Dropping, Undefined, Dropped,
     Redefined, DropIndexPoints, Tab
<1> HIDE DEF tabs, indexes
<1> QED
  BY Zenon, <1>1, <1>4, <1>5, <1>8, MetaKept

\* It opens the file; in analyze the table is through.
LEMMA CreateTableOpenKeeps ==
  ASSUME CatalogInv, NEW c \in Threads, CreateTableOpen(c)
  PROVE  CatalogInv'
<1>1. At(c, "ct_open") /\ "ct_open" \in DdlPoints
  BY Zenon DEF CreateTableOpen, DdlPoints, CreatePoints
<1>2. phase = PhaseOf(c) /\ CatalogTypes /\ (c = Main => phase = "analyze" /\ Analyzing)
  BY Zenon, <1>1, ThreadAt
<1>3. CASE Throw(c)
  BY Zenon, <1>2, <1>3, ThrowKeeps
<1>4. CASE fhs' = fhs \cup {Tab(c)} /\ Return(c) /\ UNCHANGED <<files, db, ihs, latch>>
  <2>1. /\ db' = db /\ meta' = meta /\ table_files' = table_files /\ ihs' = ihs /\ latch' = latch
        /\ pc'[c] = "idle" /\ phase' = phase /\ todo' = todo
        /\ c = Main => ddl' = ddl
    BY Zenon, <1>2, <1>4, ReturnMoves DEF files
  <2>2. c = Main => Analyzing'
    BY <1>1, <1>2, <1>4, <2>1 DEF At, Analyzing, Handles, IndexesLeft, Between, Dropping, Undefined, Dropped,
       Redefined, DropIndexPoints, Tab
  <2> QED
    BY Zenon, <1>1, <1>4, <2>1, <2>2, ReturnKept
<1> QED
  BY Zenon, <1>3, <1>4 DEF CreateTableOpen

-----------------------------------------------------------------------------
(* The catalog: create_index, which the main thread never gets to *)

\* analyze creates no index.
LEMMA MainCreatesNoIndex ==
  ASSUME CatalogInv, NEW point \in {"ci_meta", "ci_file", "ci_open"}, At(Main, point)
  PROVE  FALSE
<1>1. phase = "analyze" /\ Analyzing /\ pc[Main] = point
  BY Zenon DEF At, CatalogInv
<1> QED
  BY <1>1 DEF Analyzing, Handles, Between, Dropping, Undefined, Dropped, Redefined, DropIndexPoints

\* A client's create_index adds to the definitions of a table that is there.
LEMMA CreateIndexMetaKeeps ==
  ASSUME CatalogInv, NEW c \in Threads, CreateIndexMeta(c)
  PROVE  CatalogInv'
<1>1. At(c, "ci_meta") /\ "ci_meta" \in DdlPoints /\ "ci_file" \in DdlPoints /\ c # Main
  BY Zenon, MainCreatesNoIndex DEF CreateIndexMeta, DdlPoints, CreatePoints
<1>2. CatalogTypes /\ Defined /\ Tab(c) \in Tables
  BY Zenon, <1>1, ThreadAt
<1>3. db.tabs \in SUBSET Tables /\ db.indexes \in [Tables -> Nat]
  BY <1>2 DEF CatalogTypes, TablesMeta
<1>4. CASE Tab(c) \in db.tabs
  <2> DEFINE indexes == [db.indexes EXCEPT ![Tab(c)] = @ + 1]
  <2>1. indexes \in [Tables -> Nat] /\ \A t \in Tables : t \notin db.tabs => indexes[t] = 0
    BY <1>2, <1>3, <1>4 DEF Defined
  <2>2. SetMeta(db.tabs, indexes) /\ Goto(c, "ci_file")
    BY Zenon, <1>4 DEF CreateIndexMeta
  <2> HIDE DEF indexes
  <2> QED
    BY Zenon, <1>1, <1>3, <2>1, <2>2, MetaKept
<1>5. CASE Tab(c) \notin db.tabs
  <2>1. Return(c) /\ db' = db /\ meta' = meta
    BY Zenon, <1>5 DEF CreateIndexMeta, files
  <2> QED
    BY Zenon, <1>1, <2>1, ReturnKept
<1> QED
  BY Zenon, <1>4, <1>5

\* It makes the file of the index.
LEMMA CreateIndexFileKeeps ==
  ASSUME CatalogInv, NEW c \in Threads, CreateIndexFile(c)
  PROVE  CatalogInv'
<1>1. At(c, "ci_file") /\ "ci_file" \in DdlPoints /\ "ci_open" \in DdlPoints /\ c # Main
  BY Zenon, MainCreatesNoIndex DEF CreateIndexFile, DdlPoints, CreatePoints
<1>2. phase = PhaseOf(c)
  BY Zenon, <1>1, ThreadAt
<1>3. Throw(c) \/ (Goto(c, "ci_open") /\ db' = db /\ meta' = meta)
  BY Zenon DEF CreateIndexFile, memory
<1> QED
  BY Zenon, <1>1, <1>2, <1>3, ThrowKeeps, PointKept

\* It opens that file.
LEMMA CreateIndexOpenKeeps ==
  ASSUME CatalogInv, NEW c \in Threads, CreateIndexOpen(c)
  PROVE  CatalogInv'
<1>1. At(c, "ci_open") /\ "ci_open" \in DdlPoints /\ c # Main
  BY Zenon, MainCreatesNoIndex DEF CreateIndexOpen, DdlPoints, CreatePoints
<1>2. phase = PhaseOf(c)
  BY Zenon, <1>1, ThreadAt
<1>3. Throw(c) \/ (Return(c) /\ db' = db /\ meta' = meta)
  BY Zenon DEF CreateIndexOpen, files
<1> QED
  BY Zenon, <1>1, <1>2, <1>3, ThrowKeeps, ReturnKept

-----------------------------------------------------------------------------
(* The catalog: drop_index *)

\* drop_index for a table of analyze finds its table.
LEMMA DropIndexCheckKeeps ==
  ASSUME CatalogInv, NEW c \in Threads, DropIndexCheck(c)
  PROVE  CatalogInv'
<1>1. At(c, "di_check") /\ "di_check" \in DdlPoints /\ "di_meta" \in DdlPoints /\ "di_meta" \in Points
  BY Zenon DEF DropIndexCheck, DdlPoints, DropPoints, Points
<1>2. phase = PhaseOf(c) /\ CatalogTypes /\ (c = Main => phase = "analyze" /\ Analyzing)
  BY Zenon, <1>1, ThreadAt
<1>3. CASE Throw(c)
  BY Zenon, <1>2, <1>3, ThrowKeeps
<1>4. CASE Goto(c, "di_meta") /\ UNCHANGED <<files, memory>>
  <2>1. /\ db' = db /\ meta' = meta /\ fhs' = fhs /\ ihs' = ihs /\ latch' = latch /\ table_files' = table_files
        /\ pc'[c] = "di_meta" /\ ddl' = ddl /\ phase' = phase /\ todo' = todo
    BY Zenon, <1>1, <1>2, <1>4, GotoMoves DEF memory, files
  <2>2. c = Main => Analyzing'
    BY <1>1, <1>2, <2>1 DEF At, Analyzing, Handles, IndexesLeft, Between, Dropping, Undefined, Dropped,
       Redefined, DropIndexPoints, Tab
  <2> QED
    BY Zenon, <1>1, <1>4, <2>1, <2>2, PointKept
<1> QED
  BY Zenon, <1>3, <1>4 DEF DropIndexCheck

\* It takes the index out of the definitions; in analyze the table is there, so the
\* latch stays free.
LEMMA DropIndexMetaKeeps ==
  ASSUME CatalogInv, NEW c \in Threads, DropIndexMeta(c)
  PROVE  CatalogInv'
<1>1. At(c, "di_meta") /\ "di_meta" \in DdlPoints /\ "di_file" \in DdlPoints /\ "di_file" \in Points
  BY Zenon DEF DropIndexMeta, DdlPoints, DropPoints, Points
<1>2. /\ phase = PhaseOf(c) /\ CatalogTypes /\ Defined /\ Tab(c) \in Tables
      /\ c = Main => phase = "analyze" /\ Analyzing
  BY Zenon, <1>1, ThreadAt
<1>3. db.tabs \in SUBSET Tables /\ db.indexes \in [Tables -> Nat]
  BY <1>2 DEF CatalogTypes, TablesMeta
<1>4. CASE Tab(c) \notin db.tabs /\ Return(c) /\ UNCHANGED <<files, db, fhs, ihs>>
  <2>1. db' = db /\ meta' = meta
    BY Zenon, <1>4 DEF files
  <2>2. c # Main
    BY <1>1, <1>2, <1>4 DEF At, Analyzing, Handles, Between, Dropping, Undefined, Dropped, Redefined
  <2> QED
    BY Zenon, <1>1, <1>4, <2>1, <2>2, ReturnKept
<1>5. CASE Throw(c)
  BY Zenon, <1>2, <1>5, ThrowKeeps
<1>6. CASE /\ Tab(c) \in db.tabs /\ db.indexes[Tab(c)] > 0
           /\ SetMeta(db.tabs, [db.indexes EXCEPT ![Tab(c)] = @ - 1]) /\ Goto(c, "di_file")
           /\ UNCHANGED <<table_files, index_files, fhs, ihs, latch>>
  <2> DEFINE indexes == [db.indexes EXCEPT ![Tab(c)] = @ - 1]
  <2>1. indexes \in [Tables -> Nat] /\ \A t \in Tables : t \notin db.tabs => indexes[t] = 0
    BY <1>2, <1>3, <1>6 DEF Defined
  <2>2. SetMeta(db.tabs, indexes)
    BY Zenon, <1>6
  <2>3. /\ fhs' = fhs /\ ihs' = ihs /\ latch' = latch /\ table_files' = table_files
        /\ pc'[c] = "di_file" /\ ddl' = ddl /\ phase' = phase /\ todo' = todo
    BY Zenon, <1>1, <1>2, <1>6, GotoMoves
  <2>4. db'.tabs = db.tabs /\ db'.indexes = indexes
    BY <2>2 DEF SetMeta
  <2>5. c = Main => Analyzing'
    BY <1>1, <1>2, <1>3, <2>3, <2>4 DEF At, Analyzing, Handles, IndexesLeft, Between, Dropping, Undefined, Dropped,
       Redefined, DropIndexPoints, Tab
  <2> HIDE DEF indexes
  <2> QED
    BY Zenon, <1>1, <1>3, <1>6, <2>1, <2>2, <2>5, MetaKept
<1> QED
  BY Zenon, <1>4, <1>5, <1>6 DEF DropIndexMeta

\* It removes the file of the index.
LEMMA DropIndexFileKeeps ==
  ASSUME CatalogInv, NEW c \in Threads, DropIndexFile(c)
  PROVE  CatalogInv'
<1>1. At(c, "di_file") /\ "di_file" \in DdlPoints /\ "di_erase" \in DdlPoints /\ "di_erase" \in Points
  BY Zenon DEF DropIndexFile, DdlPoints, DropPoints, Points
<1>2. phase = PhaseOf(c) /\ CatalogTypes /\ (c = Main => phase = "analyze" /\ Analyzing)
  BY Zenon, <1>1, ThreadAt
<1>3. CASE Throw(c)
  BY Zenon, <1>2, <1>3, ThrowKeeps
<1>4. CASE Segfault
  BY Zenon, <1>4, SegfaultKeeps
<1>5. CASE Goto(c, "di_erase") /\ UNCHANGED <<meta, table_files, memory>>
  <2>1. /\ db' = db /\ meta' = meta /\ fhs' = fhs /\ ihs' = ihs /\ latch' = latch /\ table_files' = table_files
        /\ pc'[c] = "di_erase" /\ ddl' = ddl /\ phase' = phase /\ todo' = todo
    BY Zenon, <1>1, <1>2, <1>5, GotoMoves DEF memory
  <2>2. c = Main => Analyzing'
    BY <1>1, <1>2, <2>1 DEF At, Analyzing, Handles, IndexesLeft, Between, Dropping, Undefined, Dropped,
       Redefined, DropIndexPoints, Tab
  <2> QED
    BY Zenon, <1>1, <1>5, <2>1, <2>2, PointKept
<1> QED
  BY Zenon, <1>3, <1>4, <1>5 DEF DropIndexFile

\* drop_index is over, or drop_table goes on with the next index or the table.
LEMMA DropIndexEraseKeeps ==
  ASSUME CatalogInv, NEW c \in Threads, DropIndexErase(c)
  PROVE  CatalogInv'
<1>1. At(c, "di_erase") /\ "di_erase" \in DdlPoints /\ ihs' = ihs \ {Tab(c)}
  BY Zenon DEF DropIndexErase, DdlPoints, DropPoints
<1>2. /\ phase = PhaseOf(c) /\ CatalogTypes /\ Defined /\ Tab(c) \in Tables
      /\ c = Main => phase = "analyze" /\ Analyzing
  BY Zenon, <1>1, ThreadAt
<1>3. db' = db /\ meta' = meta /\ fhs' = fhs /\ latch' = latch /\ table_files' = table_files
  BY Zenon DEF DropIndexErase, files
<1>4. CASE Return(c) /\ ddl[c].op = "drop_index"
  <2>1. c # Main
    BY <1>1, <1>2, <1>4 DEF At, Analyzing, Handles, Between, Dropping, Undefined, Dropped, Redefined
  <2> QED
    BY Zenon, <1>1, <1>3, <1>4, <2>1, ReturnKept
<1>5. CASE /\ pc' = [pc EXCEPT ![c] = IF ddl[c].left > 1 THEN "di_check" ELSE "dt_check"]
           /\ ddl' = [ddl EXCEPT ![c].left = @ - 1]
           /\ UNCHANGED <<phase, todo>>
  <2>1. pc \in [Threads -> Points] /\ ddl \in [Threads -> Ddls]
    BY Zenon, <1>2 DEF CatalogTypes
  <2>2. "di_check" \in Points /\ "dt_check" \in Points
    BY Zenon DEF Points, DdlPoints, DropPoints
  <2>3. /\ pc' \in [Threads -> Points] /\ pc'[c] \in {"di_check", "dt_check"}
        /\ \A d \in Threads : d # c => pc'[d] = pc[d]
    BY <1>5, <2>1, <2>2
  <2>4. /\ ddl' \in [Threads -> Ddls] /\ \A d \in Threads : d # c => ddl'[d] = ddl[d]
        /\ ddl'[c].tab = ddl[c].tab /\ ddl'[c].op = ddl[c].op
    BY <1>5, <2>1 DEF Ddls
  <2>5. Elsewhere(c)
    BY Zenon, <2>3, <2>4 DEF Elsewhere
  <2>6. CatalogTypes'
    BY Zenon, <1>2, <1>3, <2>4, <2>5, TypesKept DEF CatalogTypes, Tab
  <2>7. Defined' /\ phase' = phase
    BY Zenon, <1>2, <1>3, <1>5 DEF Defined
  <2>8. c = Main => Analyzing'
    BY <1>1, <1>2, <1>3, <1>5, <2>3, <2>4 DEF At, Analyzing, Handles, IndexesLeft, Between, Dropping, Undefined, Dropped,
       Redefined, DropIndexPoints, Tab
  <2> QED
    BY Zenon, <1>2, <2>5, <2>6, <2>7, <2>8, ThreadKeeps
<1> QED
  BY Zenon, <1>4, <1>5 DEF DropIndexErase

-----------------------------------------------------------------------------
(* The catalog: drop_table *)

\* drop_table finds its table.
LEMMA DropTableCheckKeeps ==
  ASSUME CatalogInv, NEW c \in Threads, DropTableCheck(c)
  PROVE  CatalogInv'
<1>1. At(c, "dt_check") /\ "dt_check" \in DdlPoints /\ "dt_meta" \in DdlPoints /\ "dt_meta" \in Points
  BY Zenon DEF DropTableCheck, DdlPoints, DropPoints, Points
<1>2. phase = PhaseOf(c) /\ CatalogTypes /\ (c = Main => phase = "analyze" /\ Analyzing)
  BY Zenon, <1>1, ThreadAt
<1>3. CASE Throw(c)
  BY Zenon, <1>2, <1>3, ThrowKeeps
<1>4. CASE Goto(c, "dt_meta") /\ UNCHANGED <<files, memory>>
  <2>1. /\ db' = db /\ meta' = meta /\ fhs' = fhs /\ ihs' = ihs /\ latch' = latch /\ table_files' = table_files
        /\ pc'[c] = "dt_meta" /\ ddl' = ddl /\ phase' = phase /\ todo' = todo
    BY Zenon, <1>1, <1>2, <1>4, GotoMoves DEF memory, files
  <2>2. c = Main => Analyzing'
    BY <1>1, <1>2, <2>1 DEF At, Analyzing, Handles, IndexesLeft, Between, Dropping, Undefined, Dropped,
       Redefined, DropIndexPoints, Tab
  <2> QED
    BY Zenon, <1>1, <1>4, <2>1, <2>2, PointKept
<1> QED
  BY Zenon, <1>3, <1>4 DEF DropTableCheck

\* It takes the table and its indexes out of the definitions.
LEMMA DropTableMetaKeeps ==
  ASSUME CatalogInv, NEW c \in Threads, DropTableMeta(c)
  PROVE  CatalogInv'
<1>1. At(c, "dt_meta") /\ "dt_meta" \in DdlPoints /\ "dt_file" \in DdlPoints /\ "dt_file" \in Points
  BY Zenon DEF DropTableMeta, DdlPoints, DropPoints, Points
<1>2. /\ phase = PhaseOf(c) /\ CatalogTypes /\ Defined /\ Tab(c) \in Tables
      /\ c = Main => phase = "analyze" /\ Analyzing
  BY Zenon, <1>1, ThreadAt
<1> DEFINE tabs == db.tabs \ {Tab(c)}
           indexes == [db.indexes EXCEPT ![Tab(c)] = 0]
<1>3. db.tabs \in SUBSET Tables /\ db.indexes \in [Tables -> Nat]
  BY <1>2 DEF CatalogTypes, TablesMeta
<1>4. /\ tabs \in SUBSET Tables /\ indexes \in [Tables -> Nat]
      /\ \A t \in Tables : t \notin tabs => indexes[t] = 0
  BY <1>2, <1>3 DEF Defined
<1>5. SetMeta(tabs, indexes) /\ Goto(c, "dt_file")
  BY Zenon DEF DropTableMeta
<1>6. /\ fhs' = fhs /\ ihs' = ihs /\ latch' = latch /\ table_files' = table_files
      /\ pc'[c] = "dt_file" /\ ddl' = ddl /\ phase' = phase /\ todo' = todo
  BY Zenon, <1>1, <1>2, <1>5, GotoMoves DEF DropTableMeta
<1>7. db'.tabs = tabs /\ db'.indexes = indexes
  BY <1>5 DEF SetMeta
<1>8. c = Main => Analyzing'
  BY <1>1, <1>2, <1>3, <1>6, <1>7 DEF At, Analyzing, Handles, IndexesLeft, Between, Dropping, Undefined, Dropped,
       Redefined, DropIndexPoints, Tab
<1> HIDE DEF tabs, indexes
<1> QED
  BY Zenon, <1>1, <1>4, <1>5, <1>8, MetaKept

\* It removes the file of a table that is no longer defined.
LEMMA DropTableFileKeeps ==
  ASSUME CatalogInv, NEW c \in Threads, DropTableFile(c)
  PROVE  CatalogInv'
<1>1. At(c, "dt_file") /\ "dt_file" \in DdlPoints /\ "dt_erase" \in DdlPoints /\ "dt_erase" \in Points
  BY Zenon DEF DropTableFile, DdlPoints, DropPoints, Points
<1>2. phase = PhaseOf(c) /\ CatalogTypes /\ (c = Main => phase = "analyze" /\ Analyzing)
  BY Zenon, <1>1, ThreadAt
<1>3. CASE Throw(c)
  BY Zenon, <1>2, <1>3, ThrowKeeps
<1>4. CASE Segfault
  BY Zenon, <1>4, SegfaultKeeps
<1>5. CASE /\ table_files' = table_files \ {Tab(c)}
           /\ Goto(c, "dt_erase") /\ UNCHANGED <<meta, index_files, memory>>
  <2>1. /\ db' = db /\ meta' = meta /\ fhs' = fhs /\ ihs' = ihs /\ latch' = latch
        /\ pc'[c] = "dt_erase" /\ ddl' = ddl /\ phase' = phase /\ todo' = todo
    BY Zenon, <1>1, <1>2, <1>5, GotoMoves DEF memory
  <2>2. c = Main => Analyzing'
    BY <1>1, <1>2, <1>5, <2>1 DEF At, Analyzing, Handles, IndexesLeft, Between, Dropping, Undefined, Dropped,
       Redefined, DropIndexPoints, Tab
  <2> QED
    BY Zenon, <1>1, <1>5, <2>1, <2>2, PointKept
<1> QED
  BY Zenon, <1>3, <1>4, <1>5 DEF DropTableFile

\* It removes the handle: definitions and handles agree again.
LEMMA DropTableEraseKeeps ==
  ASSUME CatalogInv, NEW c \in Threads, DropTableErase(c)
  PROVE  CatalogInv'
<1>1. At(c, "dt_erase") /\ "dt_erase" \in DdlPoints
  BY Zenon DEF DropTableErase, DdlPoints, DropPoints
<1>2. phase = PhaseOf(c) /\ CatalogTypes /\ (c = Main => phase = "analyze" /\ Analyzing)
  BY Zenon, <1>1, ThreadAt
<1>3. /\ db' = db /\ meta' = meta /\ table_files' = table_files /\ ihs' = ihs /\ latch' = latch
      /\ fhs' = fhs \ {Tab(c)} /\ Return(c)
  BY Zenon DEF DropTableErase, files
<1>4. /\ pc'[c] = "idle" /\ phase' = phase /\ todo' = todo
      /\ c = Main => ddl' = ddl
  BY Zenon, <1>2, <1>3, ReturnMoves
<1>5. Tab(c) \in Tables
  BY Zenon, <1>1, ThreadAt
<1>6. c = Main => Analyzing'
  BY <1>1, <1>2, <1>3, <1>4, <1>5 DEF At, Analyzing, Handles, IndexesLeft, Between, Dropping, Undefined, Dropped,
       Redefined, DropIndexPoints, Tab
<1> QED
  BY Zenon, <1>1, <1>3, <1>6, ReturnKept

-----------------------------------------------------------------------------
(* The catalog: all of its steps *)

\* Any step of a DDL statement, a client's or analyze's.
LEMMA ExecuteKeeps ==
  ASSUME CatalogInv, NEW c \in Threads, Execute(c)
  PROVE  CatalogInv'
  BY Zenon, CreateTableFileKeeps, CreateTableMetaKeeps, CreateTableOpenKeeps, CreateIndexMetaKeeps,
     CreateIndexFileKeeps, CreateIndexOpenKeeps, DropIndexCheckKeeps, DropIndexMetaKeeps, DropIndexFileKeeps,
     DropIndexEraseKeeps, DropTableCheckKeeps, DropTableMetaKeeps, DropTableFileKeeps, DropTableEraseKeeps
     DEF Execute

\* A client begins a statement.
LEMMA BeginKeeps ==
  ASSUME CatalogInv, NEW c \in Clients, NEW t \in Tables,
         NEW op \in {"create_table", "drop_table", "create_index", "drop_index"},
         NEW point \in DdlPoints, Begin(c, op, t, point)
  PROVE  CatalogInv'
<1>1. CatalogTypes /\ Defined /\ c \in Threads /\ c # Main
  BY Zenon, MainAssumption DEF CatalogInv, Threads
<1>2. /\ phase = "up" /\ phase' = phase /\ db' = db /\ meta' = meta /\ pc' = [pc EXCEPT ![c] = point]
      /\ ddl' = [ddl EXCEPT ![c] = [op |-> op, tab |-> t, left |-> db.indexes[t]]]
  BY Zenon, <1>1 DEF Begin, At, files, memory
<1>3. pc \in [Threads -> Points] /\ ddl \in [Threads -> Ddls] /\ point \in Points
  BY Zenon, <1>1 DEF CatalogTypes, Points
<1>4. [op |-> op, tab |-> t, left |-> db.indexes[t]] \in Ddls
  BY <1>1 DEF CatalogTypes, TablesMeta, Ddls
<1>5. /\ pc' \in [Threads -> Points] /\ ddl' \in [Threads -> Ddls] /\ ddl'[c].tab = t
      /\ \A d \in Threads : d # c => pc'[d] = pc[d] /\ ddl'[d] = ddl[d]
  BY <1>1, <1>2, <1>3, <1>4
<1>6. CatalogTypes'
  BY Zenon, <1>1, <1>2, <1>5, TypesKept DEF CatalogTypes, Elsewhere
<1>7. Defined'
  BY Zenon, <1>1, <1>2 DEF Defined
<1> QED
  BY Zenon, <1>2, <1>6, <1>7, UpKeeps

\* It does so with any of the four statements.
LEMMA RequestKeeps ==
  ASSUME CatalogInv, NEW c \in Clients, Request(c)
  PROVE  CatalogInv'
<1>1. PICK t \in Tables : create_table(c, t) \/ drop_table(c, t) \/ create_index(c, t) \/ drop_index(c, t)
  BY Zenon DEF Request
<1>2. {"ct_file", "ci_meta", "di_meta", "di_check", "dt_check"} \subseteq DdlPoints
  BY DEF DdlPoints, CreatePoints, DropPoints
<1>3. DropPoint(t) \in {"di_check", "dt_check"}
  BY Zenon DEF DropPoint
<1>4. CASE create_table(c, t)
  BY Zenon, <1>2, <1>4, BeginKeeps DEF create_table
<1>5. CASE drop_table(c, t)
  BY Zenon, <1>2, <1>3, <1>5, BeginKeeps DEF drop_table
<1>6. CASE create_index(c, t)
  BY Zenon, <1>2, <1>6, BeginKeeps DEF create_index
<1>7. CASE drop_index(c, t)
  BY Zenon, <1>2, <1>7, BeginKeeps DEF drop_index
<1> QED
  BY Zenon, <1>1, <1>4, <1>5, <1>6, <1>7

\* The start opens what the meta file defines, or ends.
LEMMA OpenKeeps ==
  ASSUME CatalogInv, open_db
  PROVE  CatalogInv'
<1>1. CatalogTypes /\ Defined /\ Asleep /\ phase = "down" /\ meta' = meta /\ table_files' = table_files
  BY Zenon DEF CatalogInv, open_db, files
<1>2. CASE Stop("dead")
  BY Zenon, <1>1, <1>2, StopKeeps DEF Stopped
<1>3. CASE /\ meta.tabs \subseteq table_files
           /\ db' = meta /\ fhs' = meta.tabs /\ ihs' = {t \in meta.tabs : meta.indexes[t] > 0}
           /\ phase' = "analyze" /\ todo' = meta.tabs /\ UNCHANGED <<latch, pc, ddl>>
  <2>1. CatalogTypes'
    BY Zenon, <1>1, <1>3 DEF CatalogTypes, Tab
  <2>2. Defined' /\ Asleep'
    BY Zenon, <1>1, <1>3 DEF Defined, Asleep, Stopped
  <2>3. latch = "free" /\ pc[Main] = "idle" /\ ddl[Main].op # "drop_table"
    BY <1>1 DEF Asleep, Stopped, NoDdl, None
  <2>4. \A t \in Tables : meta.indexes[t] \in Nat /\ (t \notin meta.tabs => meta.indexes[t] = 0)
    BY <1>1 DEF CatalogTypes, TablesMeta, Defined
  <2>5. Analyzing'
    BY <1>1, <1>3, <2>3, <2>4 DEF Analyzing, Handles, IndexesLeft, Between
  <2>6. Rebuilt'
    BY Zenon, <1>3 DEF Rebuilt
  <2> QED
    BY Zenon, <2>1, <2>2, <2>5, <2>6 DEF CatalogInv
<1> QED
  BY Zenon, <1>2, <1>3 DEF open_db

\* analyze takes up the next table.
LEMMA AnalyzeDropKeeps ==
  ASSUME CatalogInv, AnalyzeDrop
  PROVE  CatalogInv'
<1>1. CatalogTypes /\ Defined /\ Analyzing /\ Main \in Threads
  BY Zenon DEF CatalogInv, Threads
<1>2. PICK t \in todo :
        /\ todo' = todo \ {t} /\ pc' = [pc EXCEPT ![Main] = DropPoint(t)]
        /\ ddl' = [ddl EXCEPT ![Main] = [op |-> "drop_table", tab |-> t, left |-> db.indexes[t]]]
  BY Zenon DEF AnalyzeDrop
<1>3. /\ phase = "analyze" /\ pc[Main] = "idle" /\ phase' = phase /\ db' = db /\ meta' = meta /\ fhs' = fhs
      /\ ihs' = ihs /\ latch' = latch /\ table_files' = table_files /\ ddl[Main].op # "drop_table"
  BY Zenon DEF AnalyzeDrop, At, files, memory
<1>4. t \in db.tabs /\ t \in Tables /\ db.indexes[t] \in Nat
  BY <1>1, <1>3 DEF Analyzing, CatalogTypes, TablesMeta
<1>5. pc \in [Threads -> Points] /\ ddl \in [Threads -> Ddls]
  BY Zenon, <1>1 DEF CatalogTypes
<1>6. {"di_check", "dt_check"} \subseteq Points
  BY DEF Points, DdlPoints, DropPoints
<1>7. [op |-> "drop_table", tab |-> t, left |-> db.indexes[t]] \in Ddls
  BY <1>4 DEF Ddls
<1>8. /\ pc' \in [Threads -> Points] /\ ddl' \in [Threads -> Ddls]
      /\ pc'[Main] = DropPoint(t) /\ ddl'[Main].tab = t /\ ddl'[Main].op = "drop_table"
      /\ \A d \in Threads : d # Main => pc'[d] = pc[d] /\ ddl'[d] = ddl[d]
  BY <1>1, <1>2, <1>5, <1>6, <1>7 DEF DropPoint
<1>9. CatalogTypes'
  BY Zenon, <1>1, <1>3, <1>4, <1>8, TypesKept DEF CatalogTypes, Elsewhere
<1>10. Defined'
  BY Zenon, <1>1, <1>3 DEF Defined
<1>11. /\ DropPoint(t) \in {"di_check", "dt_check"}
       /\ db.indexes[t] > 0 => DropPoint(t) = "di_check"
  BY Zenon DEF DropPoint
<1>12. Analyzing'
  BY <1>1, <1>2, <1>3, <1>4, <1>8, <1>11 DEF Analyzing, Handles, IndexesLeft, Between, Dropping, Undefined,
     Dropped, Redefined, DropIndexPoints, Tab
<1> QED
  BY Zenon, <1>1, <1>3, <1>8, <1>9, <1>10, <1>12, ThreadKeeps DEF Elsewhere, PhaseOf

\* analyze creates the table that it has dropped.
LEMMA AnalyzeCreateKeeps ==
  ASSUME CatalogInv, AnalyzeCreate
  PROVE  CatalogInv'
<1>1. CatalogTypes /\ Defined /\ Analyzing /\ Main \in Threads
  BY Zenon DEF CatalogInv, Threads
<1>2. /\ phase = "analyze" /\ pc[Main] = "idle" /\ phase' = phase /\ db' = db /\ meta' = meta /\ fhs' = fhs
      /\ ihs' = ihs /\ latch' = latch /\ table_files' = table_files /\ todo' = todo
      /\ ddl[Main].op = "drop_table"
      /\ pc' = [pc EXCEPT ![Main] = "ct_file"] /\ ddl' = [ddl EXCEPT ![Main].op = "create_table"]
  BY Zenon DEF AnalyzeCreate, At, files, memory
<1>3. pc \in [Threads -> Points] /\ ddl \in [Threads -> Ddls]
  BY Zenon, <1>1 DEF CatalogTypes
<1>4. "ct_file" \in Points
  BY DEF Points, DdlPoints, CreatePoints
<1>5. /\ pc' \in [Threads -> Points] /\ pc'[Main] = "ct_file" /\ \A d \in Threads : d # Main => pc'[d] = pc[d]
  BY <1>1, <1>2, <1>3, <1>4
<1>6. /\ ddl' \in [Threads -> Ddls] /\ ddl'[Main].tab = ddl[Main].tab /\ ddl'[Main].op = "create_table"
      /\ \A d \in Threads : d # Main => ddl'[d] = ddl[d]
  BY <1>1, <1>2, <1>3 DEF Ddls
<1>7. Tab(Main) \in Tables
  BY Zenon, <1>1, <1>2 DEF Analyzing, Handles, Between, Dropping, Undefined, Dropped, Redefined, DropIndexPoints
<1>8. CatalogTypes'
  BY Zenon, <1>1, <1>2, <1>5, <1>6, <1>7, TypesKept DEF CatalogTypes, Elsewhere, Tab
<1>9. Defined'
  BY Zenon, <1>1, <1>2 DEF Defined
<1>10. Analyzing'
  BY <1>1, <1>2, <1>5, <1>6 DEF Analyzing, Handles, IndexesLeft, Between, Dropping, Undefined,
     Dropped, Redefined, DropIndexPoints, Tab
<1> QED
  BY Zenon, <1>1, <1>2, <1>5, <1>6, <1>8, <1>9, <1>10, ThreadKeeps DEF Elsewhere, PhaseOf

\* When no table is left, every one has been made anew.
LEMMA AnalyzedRebuilt ==
  ASSUME CatalogInv, Analyzed
  PROVE  /\ meta = db /\ fhs = db.tabs /\ db.tabs \subseteq table_files
         /\ db.indexes = NoIndexes /\ ihs = {} /\ latch = "free"
<1>1. CatalogTypes /\ Defined /\ Analyzing /\ phase = "analyze" /\ pc[Main] = "idle" /\ todo = {}
      /\ ddl[Main].op # "drop_table"
  BY Zenon DEF CatalogInv, Analyzed, At
<1>2. db.indexes \in [Tables -> Nat] /\ meta = db
  BY <1>1 DEF CatalogTypes, TablesMeta, Defined, Stopped
<1>3. Handles /\ IndexesLeft /\ db.tabs \subseteq table_files /\ latch = "free"
  BY Zenon, <1>1 DEF Analyzing
<1>4. fhs = db.tabs
  BY <1>1, <1>3 DEF Handles, Between, Dropping, Undefined, Dropped, Redefined, DropIndexPoints
<1>5. ihs = {} /\ \A t \in Tables : ~(db.indexes[t] > 0)
  BY <1>1, <1>3 DEF IndexesLeft, Dropping, DropIndexPoints
<1>6. db.indexes = NoIndexes
  BY <1>2, <1>5 DEF NoIndexes
<1> QED
  BY Zenon, <1>2, <1>3, <1>4, <1>5, <1>6

-----------------------------------------------------------------------------
(* The catalog: the steps of Recovery.tla *)

\* The step leaves the catalog alone.
LEMMA CatalogStays ==
  ASSUME CatalogInv, UNCHANGED catalogVars
  PROVE  CatalogInv'
  BY Zenon DEF CatalogInv, CatalogTypes, Defined, Asleep, Analyzing, Rebuilt, Handles, IndexesLeft, Between,
     Dropping, Undefined, Dropped, Redefined, Tab, catalogVars, files, memory, control

\* A statement that names a table which is not there leaves a latch locked.
LEMMA NameMissingKeeps ==
  ASSUME CatalogInv, NEW c \in Clients, NEW t \in Tables, NameMissing(c, t)
  PROVE  CatalogInv'
<1>1. phase' = "up" /\ phase = "up" /\ db' = db /\ meta' = meta /\ pc' = pc /\ ddl' = ddl
  BY Zenon, MainAssumption DEF NameMissing, At, files, control
<1>2. CatalogTypes' /\ Defined'
  BY Zenon, <1>1 DEF CatalogInv, CatalogTypes, Defined, Tab
<1> QED
  BY Zenon, <1>1, <1>2, UpKeeps

\* A client moves on in its transaction.
ClientPoints == TxnPoints \cup {"idle", "stuck", "gone"}
LEMMA MoveKeeps ==
  ASSUME CatalogInv, phase = "up", NEW c \in Clients, NEW point \in ClientPoints, Move(c, point)
  PROVE  CatalogInv'
<1>1. CatalogTypes /\ Defined /\ c \in Threads
  BY Zenon DEF CatalogInv, Threads
<1>2. phase' = "up" /\ db' = db /\ meta' = meta /\ pc' = [pc EXCEPT ![c] = point] /\ ddl' = ddl
  BY Zenon DEF Move, files, memory
<1>3. point \in Points /\ point \notin DdlPoints
  BY DEF ClientPoints, TxnPoints, Points, DdlPoints, CreatePoints, DropPoints
<1>4. pc \in [Threads -> Points]
  BY Zenon, <1>1 DEF CatalogTypes
<1>5. pc' \in [Threads -> Points] /\ pc'[c] = point /\ \A d \in Threads : d # c => pc'[d] = pc[d]
  BY <1>1, <1>2, <1>3, <1>4
<1>6. CatalogTypes'
  BY Zenon, <1>1, <1>2, <1>3, <1>5, TypesKept DEF CatalogTypes, Elsewhere
<1>7. Defined'
  BY Zenon, <1>1, <1>2 DEF Defined
<1> QED
  BY Zenon, <1>2, <1>6, <1>7, UpKeeps

\* The main thread moves on from analyze.
LEMMA MainMovesKeeps ==
  ASSUME CatalogInv, phase \in Recovering, phase' \in Recovering \cup {"up"},
         UNCHANGED <<files, memory, pc, ddl, todo>>
  PROVE  CatalogInv'
<1>1. CatalogTypes /\ Defined /\ Asleep /\ Rebuilt /\ phase \notin Stopped /\ phase # "up"
  BY DEF CatalogInv, Recovering, Stopped
<1>2. phase' \notin Stopped /\ phase' # "analyze"
  BY DEF Recovering, Stopped
<1>3. CatalogTypes' /\ Defined'
  BY Zenon, <1>1 DEF CatalogTypes, Defined, Tab, files, memory
<1>4. Asleep' /\ Analyzing' /\ Rebuilt'
  BY Zenon, <1>1, <1>2 DEF Asleep, Analyzing, Rebuilt, Recovering, files, memory
<1> QED
  BY Zenon, <1>3, <1>4 DEF CatalogInv

\* analyze ends with the tables rebuilt.
LEMMA AnalyzeLogKeeps ==
  ASSUME CatalogInv, AnalyzeLog
  PROVE  CatalogInv'
<1>1. /\ CatalogTypes /\ Defined /\ Asleep /\ phase = "analyze" /\ phase' = "redo"
      /\ UNCHANGED <<files, memory, pc>> /\ ddl' = [ddl EXCEPT ![Main] = NoDdl] /\ pc[Main] = "idle"
  BY Zenon DEF CatalogInv, AnalyzeLog, Analyzed, At
<1>2. Rebuilt' /\ Analyzing'
  BY Zenon, <1>1, AnalyzedRebuilt DEF Rebuilt, Analyzing, AnalyzeLog, files, memory
<1>3. Main \in Threads /\ ddl \in [Threads -> Ddls] /\ "idle" \notin DdlPoints
  BY <1>1 DEF Threads, CatalogTypes, DdlPoints, CreatePoints, DropPoints
<1>4. ddl' \in [Threads -> Ddls] /\ \A d \in Threads : d # Main => ddl'[d] = ddl[d]
  BY <1>1, <1>3, NoStatement
<1>5. CatalogTypes'
  BY Zenon, <1>1, <1>3, <1>4, TypesKept DEF CatalogTypes, Elsewhere, files, memory
<1>6. Defined' /\ Asleep'
  BY Zenon, <1>1 DEF Defined, Asleep, Stopped, files, memory
<1> QED
  BY Zenon, <1>2, <1>5, <1>6 DEF CatalogInv

\* The process ends.
LEMMA EndKeeps ==
  ASSUME CatalogInv, Crash \/ Shutdown \/ Terminate \/ MainStops("dead") \/ MainStops("hung")
  PROVE  CatalogInv'
<1>1. {"down", "dead", "hung"} = Stopped
  BY Zenon DEF Stopped
<1>2. CASE Shutdown
  <2>1. meta = db /\ meta' = db /\ Stop("down")
    BY Zenon, <1>2 DEF CatalogInv, Defined, Shutdown, Stopped
  <2> QED
    BY Zenon, <1>1, <2>1, StopKeeps
<1>3. CASE Crash \/ Terminate \/ MainStops("dead") \/ MainStops("hung")
  BY Zenon, <1>1, <1>3, StopKeeps DEF Crash, Terminate, MainStops, files
<1> QED
  BY Zenon, <1>2, <1>3

\* A step of a client's transaction moves the client on, leaves the catalog
\* alone, or ends the process.
LEMMA TransactionMoves ==
  ASSUME NEW c \in Clients, TxnBegin(c) \/ Rows(c) \/ End(c) \/ Fails(c)
  PROVE  \/ phase = "up" /\ \E point \in ClientPoints : Move(c, point)
         \/ UNCHANGED catalogVars
         \/ Terminate
<1>1. \A point : At(c, point) => phase = "up"
  BY Zenon, MainAssumption DEF At
<1>2. {"txn", "refused", "undo", "undo_clr", "refused_clr", "commit_log", "commit_flush", "abort_log",
       "abort_flush", "idle", "stuck", "gone"} = ClientPoints
  BY DEF ClientPoints, TxnPoints
<1>3. ASSUME NEW t, Statement(c, t) PROVE phase = "up"
  BY Zenon, <1>1, <1>3 DEF Statement
<1>4. ASSUME NEW t, NEW v, Insert(c, t, v) PROVE phase = "up" /\ (Move(c, "txn") \/ Move(c, "refused"))
  BY Zenon, <1>3, <1>4 DEF Insert, Refused
<1>5. ASSUME NEW t, NEW rid, Delete(c, t, rid) PROVE phase = "up" /\ (Move(c, "txn") \/ Move(c, "refused"))
  BY Zenon, <1>3, <1>5 DEF Delete, Refused
<1>6. ASSUME NEW t, NEW rid, NEW v, Update(c, t, rid, v)
      PROVE  phase = "up" /\ (Move(c, "txn") \/ Move(c, "refused"))
  BY Zenon, <1>3, <1>6 DEF Update, Refused
<1>7. ASSUME NEW t, NEW v, load_data(c, t, v) PROVE UNCHANGED catalogVars
  BY Zenon, <1>7 DEF load_data
<1>8. ASSUME NEW t, OutOfRange(c, t) PROVE Terminate
  BY Zenon, <1>8 DEF OutOfRange
<1>9. CASE Rows(c)
  BY Zenon, <1>2, <1>4, <1>5, <1>6, <1>7, <1>8, <1>9 DEF Rows
<1>10. CASE TxnBegin(c)
  BY Zenon, <1>1, <1>2, <1>10 DEF TxnBegin
<1>11. CASE CommitRelease(c) \/ CommitLog(c) \/ AbortStart(c) \/ AbortRelease(c) \/ AbortLog(c)
  BY Zenon, <1>1, <1>2, <1>11 DEF CommitRelease, CommitLog, AbortStart, AbortRelease, AbortLog, EndLog, Undoing
<1>12. CASE Rollback(c) \/ RollbackLog(c)
  <2>1. phase = "up"
    BY Zenon, <1>1, <1>12 DEF Rollback, RollbackLog, Undoing
  <2>2. \/ Move(c, IF pc[c] = "undo" THEN "undo_clr" ELSE "refused_clr")
        \/ Move(c, IF pc[c] = "undo_clr" THEN "undo" ELSE "refused")
    BY Zenon, <1>12 DEF Rollback, RollbackLog
  <2> QED
    BY Zenon, <1>2, <2>1, <2>2
<1>13. CASE Flush(c)
  BY Zenon, <1>1, <1>2, <1>13 DEF Flush, Flushing, Answer
<1>14. CASE End(c)
  BY Zenon, <1>11, <1>12, <1>13, <1>14 DEF End
<1>15. CASE RollbackWaits(c) \/ LogFull(c)
  BY Zenon, <1>1, <1>2, <1>15 DEF RollbackWaits, LogFull, Undoing
<1>16. CASE RollbackThrows(c)
  BY Zenon, <1>1, <1>2, <1>16 DEF RollbackThrows, Undoing
<1> QED
  BY Zenon, <1>9, <1>10, <1>14, <1>15, <1>16 DEF Fails

\* The steps of the start.
LEMMA RestartKeeps ==
  ASSUME CatalogInv, Restart
  PROVE  CatalogInv'
<1>1. CASE CatalogStep(open_db) \/ CatalogStep(AnalyzeDrop) \/ CatalogStep(AnalyzeCreate) \/ CatalogStep(Execute(Main))
  <2>1. Main \in Threads
    BY Zenon DEF Threads
  <2> QED
    BY Zenon, <1>1, <2>1, OpenKeeps, AnalyzeDropKeeps, AnalyzeCreateKeeps, ExecuteKeeps DEF CatalogStep
<1>2. CASE AnalyzeLog
  BY Zenon, <1>2, AnalyzeLogKeeps
<1>3. CASE Redo \/ Undo \/ RedoDone \/ UndoDone \/ start_server
  <2>1. \/ MainStops("dead") \/ MainStops("hung")
        \/ /\ phase \in {"redo", "undo", "recovered"} /\ phase' \in {"redo", "undo", "recovered", "up"}
           /\ UNCHANGED <<files, memory, pc, ddl, todo>>
    BY Zenon, <1>3 DEF Redo, Undo, RedoDone, UndoDone, start_server, MainMoves
  <2> QED
    BY Zenon, <2>1, EndKeeps, MainMovesKeeps DEF Recovering
<1> QED
  BY Zenon, <1>1, <1>2, <1>3 DEF Restart

\* Every step keeps the invariant of the catalog.
LEMMA StepCatalog ==
  ASSUME CatalogInv, [Next]_vars
  PROVE  CatalogInv'
<1>1. CASE UNCHANGED vars
  BY Zenon, <1>1, CatalogStays DEF vars
<1>2. CASE Restart
  BY Zenon, <1>2, RestartKeeps
<1>3. CASE Crash \/ Shutdown
  BY Zenon, <1>3, EndKeeps
<1>4. ASSUME NEW c \in Clients, TxnBegin(c) \/ Rows(c) \/ End(c) \/ Fails(c)
      PROVE  CatalogInv'
  BY Zenon, <1>4, TransactionMoves, MoveKeeps, CatalogStays, EndKeeps
<1>5. ASSUME NEW c \in Clients, Ddl(c)
      PROVE  CatalogInv'
  <2>1. c \in Threads
    BY Zenon DEF Threads
  <2>2. Request(c) \/ Execute(c) \/ \E t \in Tables : NameMissing(c, t)
    BY Zenon, <1>5 DEF Ddl, CatalogStep
  <2> QED
    BY Zenon, <2>1, <2>2, RequestKeeps, ExecuteKeeps, NameMissingKeeps
<1> QED
  BY Zenon, <1>1, <1>2, <1>3, <1>4, <1>5 DEF Next

\* The server starts with what CatalogInit says.
LEMMA InitCatalog ==
  ASSUME Init
  PROVE  CatalogInv
<1>1. CatalogInit
  BY Zenon DEF Init
<1>2. "idle" \in Points /\ "idle" \notin DdlPoints
  BY DEF Points, DdlPoints, CreatePoints, DropPoints
<1>3. CatalogTypes
  BY <1>1, <1>2, NoStatement DEF CatalogInit, CatalogTypes, TablesMeta, NoIndexes
<1>4. Defined
  BY <1>1 DEF CatalogInit, Defined
<1>5. Asleep /\ Analyzing /\ Rebuilt
  BY Zenon, <1>1 DEF CatalogInit, Asleep, Analyzing, Rebuilt, Stopped
<1> QED
  BY Zenon, <1>3, <1>4, <1>5 DEF CatalogInv

\* The invariant of the catalog holds in every reachable state: SmManager's
\* definitions, files and handles stay in step with the DDL statements, with
\* analyze() and with the end of the process at any point.
THEOREM CatalogInvariance == Spec => []CatalogInv
<1>1. Init => CatalogInv
  BY Zenon, InitCatalog
<1>2. CatalogInv /\ [Next]_vars => CatalogInv'
  BY Zenon, StepCatalog
<1> QED
  BY <1>1, <1>2, PTL DEF Spec

\* When RecoveryManager::analyze is through, every table has its definition on
\* disk, its file and its handle, and no index is left, wherever in a DDL
\* statement the process ended before.
THEOREM TablesRebuilt == Spec => []Rebuilt
<1>1. CatalogInv => Rebuilt
  BY Zenon DEF CatalogInv
<1> QED
  BY <1>1, CatalogInvariance, PTL

=============================================================================
