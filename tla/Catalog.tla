------------------------------ MODULE Catalog -------------------------------
(***************************************************************************)
(* The catalog (src/system): the definitions of the tables and of their    *)
(* indexes in memory and in the meta file, the files of the database       *)
(* directory and the open handles, under the DDL statements of the         *)
(* clients, a crash at any point and the restart, in which the main thread *)
(* opens the database and makes every table anew.                          *)
(*                                                                         *)
(* A DDL statement is the sequence of its accesses to what is shared.      *)
(* Columns are left out: a table is its name and has at most one index.    *)
(* A statement that is refused at once changes nothing and is left out,    *)
(* except where it keeps a latch.  Recovery.tla adds the rows and the log. *)
(***************************************************************************)
EXTENDS Naturals

CONSTANTS Tables, Clients,
          Main,       \* the main thread, which runs the recovery
          MaxDdl      \* bound: DDL statements

ASSUME MainAssumption == Main \notin Clients

Threads == Clients \cup {Main}

VARIABLES db,          \* DbMeta: the tables, and how many entries TabMeta::indexes has
          meta,        \* the meta file: what flush_meta last wrote of db
          table_files, index_files,  \* the files of the database directory
          fhs, ihs,    \* SmManager::fhs_ and ihs_
          latch,       \* DbMeta::latch_, when a thread has left it locked
          phase,       \* where the server is between its start and its end
          pc,          \* where each thread is
          ddl,         \* the DDL statement of each thread: what and which table
          todo,        \* tables that RecoveryManager::analyze has still to make anew
          ddls         \* DDL statements so far

files == <<meta, table_files, index_files>>
memory == <<db, fhs, ihs, latch>>
control == <<phase, pc, ddl, todo>>
catalogVars == <<files, memory, control, ddls>>

None == "none"
NoDdl == [op |-> None, tab |-> None, left |-> 0]
NoIndexes == [t \in Tables |-> 0]
Meta == [tabs : SUBSET Tables, indexes : [Tables -> 0 .. MaxDdl]]

CreatePoints == {"ct_file", "ct_meta", "ct_open", "ci_meta", "ci_file", "ci_open"}
DropPoints == {"di_check", "di_meta", "di_file", "di_erase", "dt_check", "dt_meta",
               "dt_file", "dt_erase"}
DdlPoints == CreatePoints \cup DropPoints

CatalogTypeOK ==
  /\ db \in Meta /\ meta \in Meta
  /\ table_files \subseteq Tables /\ index_files \subseteq Tables
  /\ fhs \subseteq Tables /\ ihs \subseteq Tables
  /\ latch \in {"free", "read", "write"}
  /\ phase \in {"up", "down", "analyze", "redo", "undo", "recovered", "dead", "hung"}
  /\ ddl \in [Threads -> [op : {None, "create_table", "drop_table", "create_index", "drop_index"},
                          tab : Tables \cup {None}, left : 0 .. MaxDdl]]
  /\ todo \subseteq Tables
  /\ ddls \in 0 .. MaxDdl

\* A server that runs, with the tables of an earlier session.
CatalogInit ==
  /\ db = [tabs |-> Tables, indexes |-> NoIndexes] /\ meta = db
  /\ table_files = Tables /\ index_files = {}
  /\ fhs = Tables /\ ihs = {}
  /\ latch = "free"
  /\ phase = "up"
  /\ pc = [c \in Threads |-> "idle"]
  /\ ddl = [c \in Threads |-> NoDdl]
  /\ todo = {}
  /\ ddls = 0

-----------------------------------------------------------------------------
(* Threads *)

Tab(c) == ddl[c].tab

At(c, point) == /\ phase = IF c = Main THEN "analyze" ELSE "up"
                /\ pc[c] = point

\* The process ends and what is in memory is lost.
Stop(next) ==
  /\ phase' = next
  /\ db' = [tabs |-> {}, indexes |-> NoIndexes] /\ fhs' = {} /\ ihs' = {} /\ latch' = "free"
  /\ pc' = [c \in Threads |-> "idle"]
  /\ ddl' = [c \in Threads |-> NoDdl]
  /\ todo' = {}

Goto(c, point) == pc' = [pc EXCEPT ![c] = point] /\ UNCHANGED <<phase, ddl, todo>>

\* The statement is over.  The main thread remembers what it did last.
Return(c) == /\ pc' = [pc EXCEPT ![c] = "idle"]
             /\ ddl' = IF c = Main THEN ddl ELSE [ddl EXCEPT ![c] = NoDdl]
             /\ UNCHANGED <<phase, todo>>

\* An RMDBError: client_handler reports it; main() ends the process.
Throw(c) == IF c = Main THEN Stop("dead") /\ UNCHANGED files
                        ELSE Return(c) /\ UNCHANGED <<files, memory>>

\* A null handle is dereferenced.
Segfault == Stop("down") /\ UNCHANGED files

\* A client's DDL statement begins.
Begin(c, op, t, point) ==
  /\ At(c, "idle")
  /\ ddls < MaxDdl
  /\ ddls' = ddls + 1
  /\ pc' = [pc EXCEPT ![c] = point]
  /\ ddl' = [ddl EXCEPT ![c] = [op |-> op, tab |-> t, left |-> db.indexes[t]]]
  /\ UNCHANGED <<files, memory, phase, todo>>

\* DbMeta::latch_ can be had for writing.
WLatch == latch = "free"

\* A change of db_ and flush_meta, under the write latch.
SetMeta(ts, is) == /\ db' = [tabs |-> ts, indexes |-> is]
                   /\ meta' = db'

-----------------------------------------------------------------------------
(* create_table: the file, the definition, the handle *)

create_table(c, t) == /\ t \notin db.tabs
                      /\ Begin(c, "create_table", t, "ct_file")

\* RmManager::create_file throws if there is a file of that name.
CreateTableFile(c) ==
  /\ At(c, "ct_file")
  /\ \/ /\ Tab(c) \in table_files
        /\ Throw(c)
     \/ /\ Tab(c) \notin table_files
        /\ table_files' = table_files \cup {Tab(c)}
        /\ Goto(c, "ct_meta")
        /\ UNCHANGED <<meta, index_files, memory>>
  /\ UNCHANGED ddls

CreateTableMeta(c) ==
  /\ At(c, "ct_meta")
  /\ WLatch
  /\ SetMeta(db.tabs \cup {Tab(c)}, [db.indexes EXCEPT ![Tab(c)] = 0])
  /\ Goto(c, "ct_open")
  /\ UNCHANGED <<table_files, index_files, fhs, ihs, latch, ddls>>

\* open_file and fhs_.emplace, which keeps a handle that is there.
CreateTableOpen(c) ==
  /\ At(c, "ct_open")
  /\ \/ /\ Tab(c) \notin table_files
        /\ Throw(c)
     \/ /\ Tab(c) \in table_files
        /\ fhs' = fhs \cup {Tab(c)}
        /\ Return(c)
        /\ UNCHANGED <<files, db, ihs, latch>>
  /\ UNCHANGED ddls

-----------------------------------------------------------------------------
(* create_index: the definition, the file, the handle and the tree *)

create_index(c, t) == /\ t \in db.tabs
                      /\ t \notin index_files
                      /\ Begin(c, "create_index", t, "ci_meta")

\* get_table throws if the table is gone by now, and the latch stays locked.
CreateIndexMeta(c) ==
  /\ At(c, "ci_meta")
  /\ WLatch
  /\ IF Tab(c) \in db.tabs
     THEN /\ SetMeta(db.tabs, [db.indexes EXCEPT ![Tab(c)] = @ + 1])
          /\ Goto(c, "ci_file")
          /\ UNCHANGED <<table_files, index_files, fhs, ihs, latch>>
     ELSE /\ latch' = "write"
          /\ Return(c)
          /\ UNCHANGED <<files, db, fhs, ihs>>
  /\ UNCHANGED ddls

\* IxManager::create_index; create_file throws if the file is there.
CreateIndexFile(c) ==
  /\ At(c, "ci_file")
  /\ \/ /\ Tab(c) \in index_files
        /\ Throw(c)
     \/ /\ Tab(c) \notin index_files
        /\ index_files' = index_files \cup {Tab(c)}
        /\ Goto(c, "ci_open")
        /\ UNCHANGED <<meta, table_files, memory>>
  /\ UNCHANGED ddls

\* open_index, ihs_.emplace, and init_tree over the rows; a key that two rows
\* have ends init_tree early and leaves the index as it is.
CreateIndexOpen(c) ==
  /\ At(c, "ci_open")
  /\ \/ /\ Tab(c) \notin index_files
        /\ Throw(c)
     \/ /\ Tab(c) \in index_files
        /\ ihs' = ihs \cup {Tab(c)}
        /\ Return(c)
        /\ UNCHANGED <<files, db, fhs, latch>>
  /\ UNCHANGED ddls

-----------------------------------------------------------------------------
(* drop_index, by itself or for each index of a table that is dropped *)

drop_index(c, t) == /\ t \in db.tabs
                    /\ t \in index_files
                    /\ Begin(c, "drop_index", t, "di_meta")

DropIndexCheck(c) ==
  /\ At(c, "di_check")
  /\ \/ /\ ~(Tab(c) \in db.tabs /\ Tab(c) \in index_files)
        /\ Throw(c)
     \/ /\ Tab(c) \in db.tabs /\ Tab(c) \in index_files
        /\ Goto(c, "di_meta")
        /\ UNCHANGED <<files, memory>>
  /\ UNCHANGED ddls

\* get_table throws if the table is gone by now, and the latch stays locked.
DropIndexMeta(c) ==
  /\ At(c, "di_meta")
  /\ WLatch
  /\ \/ /\ Tab(c) \notin db.tabs
        /\ latch' = "write"
        /\ Return(c)
        /\ UNCHANGED <<files, db, fhs, ihs>>
     \/ /\ Tab(c) \in db.tabs /\ db.indexes[Tab(c)] = 0
        /\ Throw(c)
     \/ /\ Tab(c) \in db.tabs /\ db.indexes[Tab(c)] > 0
        /\ SetMeta(db.tabs, [db.indexes EXCEPT ![Tab(c)] = @ - 1])
        /\ Goto(c, "di_file")
        /\ UNCHANGED <<table_files, index_files, fhs, ihs, latch>>
  /\ UNCHANGED ddls

\* ihs_[index_name], close_index and destroy_file
DropIndexFile(c) ==
  /\ At(c, "di_file")
  /\ \/ Tab(c) \notin ihs /\ Segfault
     \/ Tab(c) \in ihs \ index_files /\ Throw(c)
     \/ /\ Tab(c) \in ihs \cap index_files
        /\ index_files' = index_files \ {Tab(c)}
        /\ Goto(c, "di_erase")
        /\ UNCHANGED <<meta, table_files, memory>>
  /\ UNCHANGED ddls

\* Mutant: ihs_ keeps its entry.
DropIndexKeep(c) ==
  /\ At(c, "di_erase")
  /\ IF ddl[c].op = "drop_index" THEN Return(c)
     ELSE /\ pc' = [pc EXCEPT ![c] = IF ddl[c].left > 1 THEN "di_check" ELSE "dt_check"]
          /\ ddl' = [ddl EXCEPT ![c].left = @ - 1]
          /\ UNCHANGED <<phase, todo>>
  /\ UNCHANGED <<files, memory, ddls>>

DropIndexErase(c) ==
  /\ At(c, "di_erase")
  /\ ihs' = ihs \ {Tab(c)}
  /\ IF ddl[c].op = "drop_index" THEN Return(c)
     ELSE /\ pc' = [pc EXCEPT ![c] = IF ddl[c].left > 1 THEN "di_check" ELSE "dt_check"]
          /\ ddl' = [ddl EXCEPT ![c].left = @ - 1]
          /\ UNCHANGED <<phase, todo>>
  /\ UNCHANGED <<files, db, fhs, latch, ddls>>

-----------------------------------------------------------------------------
(* drop_table: the indexes, the definition, the file, the handle *)

DropPoint(t) == IF db.indexes[t] > 0 THEN "di_check" ELSE "dt_check"

drop_table(c, t) == /\ t \in db.tabs
                    /\ Begin(c, "drop_table", t, DropPoint(t))

DropTableCheck(c) ==
  /\ At(c, "dt_check")
  /\ \/ /\ Tab(c) \notin db.tabs
        /\ Throw(c)
     \/ /\ Tab(c) \in db.tabs
        /\ Goto(c, "dt_meta")
        /\ UNCHANGED <<files, memory>>
  /\ UNCHANGED ddls

DropTableMeta(c) ==
  /\ At(c, "dt_meta")
  /\ WLatch
  /\ SetMeta(db.tabs \ {Tab(c)}, [db.indexes EXCEPT ![Tab(c)] = 0])
  /\ Goto(c, "dt_file")
  /\ UNCHANGED <<table_files, index_files, fhs, ihs, latch, ddls>>

\* fhs_[tab_name], close_file and destroy_file
DropTableFile(c) ==
  /\ At(c, "dt_file")
  /\ \/ Tab(c) \notin fhs /\ Segfault
     \/ Tab(c) \in fhs \ table_files /\ Throw(c)
     \/ /\ Tab(c) \in fhs \cap table_files
        /\ table_files' = table_files \ {Tab(c)}
        /\ Goto(c, "dt_erase")
        /\ UNCHANGED <<meta, index_files, memory>>
  /\ UNCHANGED ddls

DropTableErase(c) ==
  /\ At(c, "dt_erase")
  /\ fhs' = fhs \ {Tab(c)}
  /\ Return(c)
  /\ UNCHANGED <<files, db, ihs, latch, ddls>>

-----------------------------------------------------------------------------
(* Any other statement that names a table which is not there: get_table     *)
(* throws between RLatch and RUnLatch (desc_table, show_indexes, load_data, *)
(* the analyzer, the planner, the executors).                               *)

NameMissing(c, t) ==
  /\ At(c, "idle")
  /\ t \notin db.tabs
  /\ latch = "free"
  /\ latch' = "read"
  /\ UNCHANGED <<files, db, fhs, ihs, control, ddls>>

-----------------------------------------------------------------------------
(* The start: open_db and RecoveryManager::analyze *)

\* open_file and open_index throw for a file that is not there.
open_db ==
  /\ phase = "down"
  /\ IF meta.tabs \subseteq table_files /\ (\A t \in meta.tabs : meta.indexes[t] > 0 => t \in index_files)
     THEN /\ db' = meta
          /\ fhs' = meta.tabs
          /\ ihs' = {t \in meta.tabs : meta.indexes[t] > 0}
          /\ phase' = "analyze"
          /\ todo' = meta.tabs
          /\ UNCHANGED <<latch, pc, ddl>>
     ELSE Stop("dead")
  /\ UNCHANGED <<files, ddls>>

\* The next table is dropped.
AnalyzeDrop ==
  /\ At(Main, "idle")
  /\ ddl[Main].op # "drop_table"
  /\ \E t \in todo :
       /\ todo' = todo \ {t}
       /\ pc' = [pc EXCEPT ![Main] = DropPoint(t)]
       /\ ddl' = [ddl EXCEPT ![Main] = [op |-> "drop_table", tab |-> t, left |-> db.indexes[t]]]
  /\ UNCHANGED <<files, memory, phase, ddls>>

\* And created again, with its columns and without its indexes.
AnalyzeCreate ==
  /\ At(Main, "idle")
  /\ ddl[Main].op = "drop_table"
  /\ pc' = [pc EXCEPT ![Main] = "ct_file"]
  /\ ddl' = [ddl EXCEPT ![Main].op = "create_table"]
  /\ UNCHANGED <<files, memory, phase, todo, ddls>>

Analyzed == /\ At(Main, "idle")
            /\ todo = {}
            /\ ddl[Main].op # "drop_table"

Execute(c) ==
  \/ CreateTableFile(c) \/ CreateTableMeta(c) \/ CreateTableOpen(c)
  \/ CreateIndexMeta(c) \/ CreateIndexFile(c) \/ CreateIndexOpen(c)
  \/ DropIndexCheck(c) \/ DropIndexMeta(c) \/ DropIndexFile(c) \/ DropIndexErase(c)
  \/ DropTableCheck(c) \/ DropTableMeta(c) \/ DropTableFile(c) \/ DropTableErase(c)

Request(c) ==
  \E t \in Tables : create_table(c, t) \/ drop_table(c, t) \/ create_index(c, t) \/ drop_index(c, t)
=============================================================================
