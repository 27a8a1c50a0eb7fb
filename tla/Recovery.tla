------------------------------ MODULE Recovery ------------------------------
(***************************************************************************)
(* Rows, log and restart: transactions of several clients change the       *)
(* record files of the tables and write log records (src/record,           *)
(* src/recovery/log_manager, src/transaction), the server crashes or is    *)
(* shut down at any point, and the next start makes the tables anew from   *)
(* the whole log (src/recovery/log_recovery, main in src/rmdb.cpp).        *)
(*                                                                         *)
(* What the disk holds of a table's pages is left out: analyze() throws    *)
(* the files away, and only the meta file and the log count.  Of the locks *)
(* there is what keeps writers apart: an insert locks the table in IX, a   *)
(* delete in X, an update in SIX by its scan and its row lock, and the     *)
(* rows written are locked; LockManager.tla and Transactions.tla have the  *)
(* rest.  A delete or an update logs a row and then changes it; the table  *)
(* lock keeps others out, so both are one step.  LSNs are positions in the *)
(* log; nothing reads prev_lsn_ or undo_next_.                             *)
(***************************************************************************)
EXTENDS Catalog, RecordFile, Functions

CONSTANTS LogBufferSize, \* LOG_BUFFER_SIZE, in records
          Loaded,        \* the rows of each table, which transaction 1 has committed
          NewRows,       \* the rows that are put in
          MaxTxns,       \* bound: the last transaction id
          MaxOps,        \* bound: rows written or loaded and DDL statements
          MaxCrashes     \* bound: crashes and shutdowns

ASSUME TablesAreFinite == Cardinality(Tables) \in Nat
ASSUME LoadedRows == Loaded \in Seq(Values)
ASSUME MaxTxnsAssumption == MaxTxns \in Nat \ {0}

VARIABLES file,      \* the record file behind each handle
          buffer,    \* LogBuffer
          disk_log,  \* the log file
          tid,       \* each client's transaction, 0 for none
          write_set, \* Transaction::write_records_
          locks,     \* lock_set_: the table locks and the rows locked in X
          held,      \* latches held for ever: hdr_latch_ of a table, "log"
          undo_list, \* RecoveryManager::undo_list_
          pos,       \* the record at which redo or undo of a restart is
          next_txn,  \* TransactionManager::next_txn_id_
          ops, crashes,
          acked,     \* history: transactions whose commit was answered
          unlogged   \* history: tables with a DDL statement or a load, neither of which is logged

session == <<tid, write_set, locks>>
logs == <<buffer, disk_log>>
restart == <<undo_list, pos>>
bounds == <<ops, crashes>>
history == <<acked, unlogged>>
vars == <<catalogVars, file, logs, session, held, restart, next_txn, bounds, history>>

-----------------------------------------------------------------------------
(* Log records *)

BeginLogRecord(n) == [type |-> "BEGIN", tid |-> n]
CommitLogRecord(n) == [type |-> "COMMIT", tid |-> n]
AbortLogRecord(n) == [type |-> "ABORT", tid |-> n]
InsertLogRecord(n, t, rid, value) ==
  [type |-> "INSERT", tid |-> n, tab |-> t, rid |-> rid, old |-> Unset, new |-> value]
DeleteLogRecord(n, t, rid, value) ==
  [type |-> "DELETE", tid |-> n, tab |-> t, rid |-> rid, old |-> value, new |-> Unset]
UpdateLogRecord(n, t, rid, old, new) ==
  [type |-> "UPDATE", tid |-> n, tab |-> t, rid |-> rid, old |-> old, new |-> new]

\* The value an InsertLogRecord or a DeleteLogRecord carries: one layout.
Value(rec) == IF rec.old # Unset THEN rec.old ELSE rec.new

setCLR(rec) == [rec EXCEPT !.type = CASE @ = "UPDATE" -> "CLR_UPDATE"
                                      [] @ = "DELETE" -> "CLR_INSERT"
                                      [] @ = "INSERT" -> "CLR_DELETE"]

\* Mutant: the values are not swapped.
CLRKept(rec) == setCLR(rec)

\* gen_log_upadte_CLR swaps the values, gen_log_insert_CLR and
\* gen_log_delete_CLR keep theirs.
CLR(rec) == IF rec.type = "UPDATE" THEN setCLR([rec EXCEPT !.old = rec.new, !.new = rec.old])
                                   ELSE setCLR(rec)

IsWrite(rec) == rec.type \in {"INSERT", "DELETE", "UPDATE"}
IsClr(rec) == rec.type \in {"CLR_INSERT", "CLR_DELETE", "CLR_UPDATE"}

\* add_log_to_buffer, when there is room.
Log(rec) == /\ "log" \notin held
            /\ Len(buffer) < LogBufferSize
            /\ buffer' = Append(buffer, rec)
            /\ UNCHANGED disk_log

flush_log_to_disk == /\ "log" \notin held
                     /\ disk_log' = disk_log \o buffer
                     /\ buffer' = <<>>

-----------------------------------------------------------------------------
(* Transactions *)

NoLocks == [table |-> [t \in Tables |-> None], rows |-> {}]

\* The n-th row of a table that has only been inserted into.
RowRid(n) == [page_no |-> 1 + n \div RecordsPerPage, slot_no |-> n % RecordsPerPage]

\* A server whose first transaction has filled the tables.
Init ==
  /\ CatalogInit
  /\ file = LET after[n \in 0 .. Len(Loaded)] ==
                  IF n = 0 THEN create_file ELSE insert_record(after[n - 1], Loaded[n])
            IN [t \in Tables |-> after[Len(Loaded)]]
  /\ buffer = <<>>
  /\ \E tab \in Bijection(1 .. Cardinality(Tables), Tables) :
       LET row(i) == i % Len(Loaded)
           inserts == [i \in 1 .. Cardinality(Tables) * Len(Loaded) |->
                         InsertLogRecord(1, tab[1 + (i - 1) \div Len(Loaded)], RowRid(row(i - 1)),
                                         Loaded[1 + row(i - 1)])]
       IN disk_log = <<BeginLogRecord(1)>> \o inserts \o <<CommitLogRecord(1)>>
  /\ tid = [c \in Clients |-> 0]
  /\ write_set = [c \in Clients |-> <<>>]
  /\ locks = [c \in Clients |-> NoLocks]
  /\ held = {}
  /\ undo_list = {} /\ pos = 0
  /\ next_txn = 2
  /\ ops = 0 /\ crashes = 0
  /\ acked = {1} /\ unlogged = {}

\* The step leaves the catalog alone but for the thread's program counter.
Move(c, point) == /\ pc' = [pc EXCEPT ![c] = point]
                  /\ UNCHANGED <<files, memory, phase, ddl, todo, ddls>>

\* TransactionManager::begin, for the first statement of a transaction.
TxnBegin(c) ==
  /\ At(c, "idle")
  /\ next_txn <= MaxTxns
  /\ Move(c, "txn")
  /\ tid' = [tid EXCEPT ![c] = next_txn]
  /\ next_txn' = next_txn + 1
  /\ UNCHANGED file
  /\ Log(BeginLogRecord(next_txn))
  /\ UNCHANGED <<write_set, locks, held, restart, bounds, history>>

\* A statement can use table t.  (Between the end of the file and that of its
\* handle drop_table leaves a handle to a closed file; not modelled.)
Usable(t) ==
  /\ latch # "write"
  /\ t \in db.tabs \cap fhs
  /\ t \notin held
  /\ \A c \in Clients : ~(pc[c] = "dt_erase" /\ Tab(c) = t)
  /\ ops + ddls < MaxOps

\* A row of table t is touched by c's transaction.
Statement(c, t) == /\ At(c, "txn")
                   /\ Usable(t)
                   /\ ops' = ops + 1

TableFree(c, t, modes) == \A d \in Clients \ {c} : locks[d].table[t] \in modes
RowFree(c, t, rid) == \A d \in Clients \ {c} : <<t, rid>> \notin locks[d].rows

\* A lock is refused: TransactionAbortException, and client_handler aborts.
Refused(c) == /\ Move(c, "refused")
              /\ UNCHANGED <<file, logs, session, held, restart, next_txn, crashes, history>>

LockTable(c, t, mode) == [locks EXCEPT ![c].table[t] = IF @ = "X" THEN @ ELSE mode]
LockRow(c, t, mode, rid) ==
  [LockTable(c, t, mode) EXCEPT ![c].rows = @ \cup {<<t, rid>>}]

\* What was written goes into the log and into the write set.
Written(c, rec) ==
  /\ Log(rec)
  /\ write_set' = [write_set EXCEPT ![c] = Append(@, rec)]
  /\ UNCHANGED <<tid, held, restart, next_txn, crashes, history>>

\* InsertExecutor: the row is locked after it has gone in, and the lock is
\* refused if a transaction that took the row out has yet to let go of it.  A
\* full page at the head of the list takes no row; NoRid is locked instead and
\* nobody is told.
Insert(c, t, value) ==
  LET f   == fetch_free_page_handle(file[t])
      rid == insert_rid(f)
  IN /\ Statement(c, t)
     /\ IF ~TableFree(c, t, {None, "IX"}) THEN Refused(c)
        ELSE /\ IF RowFree(c, t, rid)
                THEN Move(c, "txn") /\ locks' = LockRow(c, t, "IX", rid)
                ELSE Move(c, "refused") /\ locks' = LockTable(c, t, "IX")
             /\ IF rid = NoRid
                THEN UNCHANGED <<file, logs, tid, write_set, held, restart, next_txn, crashes, history>>
                ELSE /\ file' = [file EXCEPT ![t] = Put(f, rid, value)]
                     /\ Written(c, InsertLogRecord(tid[c], t, rid, value))

\* One row of DeleteExecutor and of UpdateExecutor.
Delete(c, t, rid) ==
  /\ Statement(c, t)
  /\ IsSet(file[t], rid)
  /\ IF ~TableFree(c, t, {None}) THEN Refused(c)
     ELSE /\ Move(c, "txn")
          /\ file' = [file EXCEPT ![t] = delete_record(@, rid)]
          /\ locks' = LockRow(c, t, "X", rid)
          /\ Written(c, DeleteLogRecord(tid[c], t, rid, Read(file[t], rid)))

Update(c, t, rid, value) ==
  /\ Statement(c, t)
  /\ IsSet(file[t], rid) /\ value # Read(file[t], rid)
  /\ IF ~TableFree(c, t, {None}) THEN Refused(c)
     ELSE /\ Move(c, "txn")
          /\ file' = [file EXCEPT ![t] = update_record(@, rid, value)]
          /\ locks' = LockRow(c, t, "X", rid)
          /\ Written(c, UpdateLogRecord(tid[c], t, rid, Read(file[t], rid), value))

\* load_data puts a row of a file into the table, with no lock and no log.
load_data(c, t, value) ==
  LET f == fetch_free_page_handle(file[t])
  IN /\ At(c, "idle")
     /\ Usable(t)
     /\ insert_rid(f) # NoRid
     /\ ops' = ops + 1
     /\ file' = [file EXCEPT ![t] = Put(f, insert_rid(f), value)]
     /\ unlogged' = unlogged \cup {t}
     /\ UNCHANGED <<catalogVars, logs, session, held, restart, next_txn, crashes, acked>>
-----------------------------------------------------------------------------
(* commit and abort *)

\* TransactionManager::commit lets the locks go, writes the commit record and
\* flushes the log.
CommitRelease(c) ==
  /\ At(c, "txn")
  /\ Move(c, "commit_log")
  /\ locks' = [locks EXCEPT ![c] = NoLocks]
  /\ write_set' = [write_set EXCEPT ![c] = <<>>]
  /\ UNCHANGED <<file, logs, tid, held, restart, next_txn, bounds, history>>

\* An abort statement.  (client_handler goes to "refused" by itself.)
AbortStart(c) ==
  /\ At(c, "txn")
  /\ Move(c, "undo")
  /\ UNCHANGED <<file, logs, session, held, restart, next_txn, bounds, history>>

EndLog(c, point, rec, next) ==
  /\ At(c, point)
  /\ Move(c, next)
  /\ Log(rec)
  /\ UNCHANGED <<file, session, held, restart, next_txn, bounds, history>>

CommitLog(c) == EndLog(c, "commit_log", CommitLogRecord(tid[c]), "commit_flush")
AbortLog(c) == EndLog(c, "abort_log", AbortLogRecord(tid[c]), "abort_flush")

\* The client gets its answer.
Answer(c) ==
  /\ Move(c, "idle")
  /\ tid' = [tid EXCEPT ![c] = 0]
  /\ acked' = IF pc[c] = "commit_flush" THEN acked \cup {tid[c]} ELSE acked
  /\ UNCHANGED <<file, write_set, locks, held, restart, next_txn, bounds, unlogged>>

Flushing(c) == At(c, "commit_flush") \/ At(c, "abort_flush")

\* Mutant: the answer does not wait for the log.
FlushLater(c) == Flushing(c) /\ Answer(c) /\ UNCHANGED logs

Flush(c) == Flushing(c) /\ flush_log_to_disk /\ Answer(c)

Undoing(c) == At(c, "undo") \/ At(c, "refused")

\* What rollback_insert, rollback_delete and rollback_update do to the file.
Undone(f, rec) == IF rec.type = "INSERT" THEN delete_record(f, rec.rid)
                                         ELSE insert_at(f, rec.rid, rec.old)

\* get_record of rollback_insert and rollback_update reads the row's page.
PageThere(f, rec) == rec.type = "DELETE" \/ rec.rid.page_no \in Pages(f)

LastWrite(c) == write_set[c][Len(write_set[c])]

\* The last write is undone in the file...
Rollback(c) ==
  /\ Undoing(c)
  /\ write_set[c] # <<>>
  /\ LET rec == LastWrite(c)
     IN /\ rec.tab \in db.tabs \cap fhs
        /\ rec.tab \notin held
        /\ PageThere(file[rec.tab], rec)
        /\ ~(rec.type # "INSERT" /\ Waits(file[rec.tab], rec.rid))
        /\ file' = [file EXCEPT ![rec.tab] = Undone(@, rec)]
  /\ Move(c, IF pc[c] = "undo" THEN "undo_clr" ELSE "refused_clr")
  /\ UNCHANGED <<logs, session, held, restart, next_txn, bounds, history>>

\* ...and then in the log.
RollbackLog(c) ==
  /\ At(c, "undo_clr") \/ At(c, "refused_clr")
  /\ Move(c, IF pc[c] = "undo_clr" THEN "undo" ELSE "refused")
  /\ Log(CLR(LastWrite(c)))
  /\ write_set' = [write_set EXCEPT ![c] = SubSeq(@, 1, Len(@) - 1)]
  /\ UNCHANGED <<file, tid, locks, held, restart, next_txn, bounds, history>>

\* All is undone: the locks go.
AbortRelease(c) ==
  /\ Undoing(c)
  /\ write_set[c] = <<>>
  /\ Move(c, "abort_log")
  /\ locks' = [locks EXCEPT ![c] = NoLocks]
  /\ UNCHANGED <<file, logs, tid, write_set, held, restart, next_txn, bounds, history>>

\* insert_record(rid) waits for ever, with hdr_latch_ of the table.
RollbackWaits(c) ==
  /\ Undoing(c)
  /\ write_set[c] # <<>>
  /\ LET rec == LastWrite(c)
     IN /\ rec.tab \in db.tabs \cap fhs
        /\ rec.tab \notin held
        /\ PageThere(file[rec.tab], rec)
        /\ rec.type # "INSERT" /\ Waits(file[rec.tab], rec.rid)
        /\ held' = held \cup {rec.tab}
  /\ Move(c, "stuck")
  /\ UNCHANGED <<file, logs, session, restart, next_txn, bounds, history>>
-----------------------------------------------------------------------------
(* The end of the process *)

\* What is in memory is lost.
Lose == /\ buffer' = <<>>
        /\ tid' = [c \in Clients |-> 0]
        /\ write_set' = [c \in Clients |-> <<>>]
        /\ locks' = [c \in Clients |-> NoLocks]
        /\ held' = {}
        /\ undo_list' = {} /\ pos' = 0
        /\ file' = [t \in Tables |-> create_file]

\* An exception that nobody catches.
Terminate == /\ Stop("down") /\ Lose
             /\ UNCHANGED <<files, ddls, disk_log, next_txn, bounds, history>>

\* get_table, fhs_.at or fetch_page throws in the course of an abort.  That of
\* an abort statement is reported if it is an RMDBError, and the client has a
\* new transaction next (not modelled: it is gone); the locks stay.  In the
\* handler of TransactionAbortException there is no one to catch it.
RollbackThrows(c) ==
  /\ Undoing(c)
  /\ write_set[c] # <<>>
  /\ LET rec == LastWrite(c)
         reported == rec.tab \notin db.tabs \/ rec.tab \in fhs
     IN /\ ~(rec.tab \in db.tabs \cap fhs /\ PageThere(file[rec.tab], rec))
        /\ IF pc[c] = "undo" /\ reported
           THEN /\ Move(c, "gone")
                /\ UNCHANGED <<file, logs, session, held, restart, next_txn, bounds, history>>
           ELSE Terminate

\* fhs_.at throws for a table that has its definition and no handle yet, or
\* none any more: a std::out_of_range, which client_handler does not catch.
OutOfRange(c, t) ==
  /\ At(c, "txn") /\ latch # "write"
  /\ t \in db.tabs \ fhs
  /\ Terminate

\* A record that does not fit: add_log_to_buffer flushes under latch_, which
\* flush_log_to_disk takes once more.
LogFull(c) ==
  /\ phase = "up"
  /\ pc[c] \in {"txn", "commit_log", "abort_log", "undo_clr", "refused_clr"}
  /\ "log" \notin held
  /\ Len(buffer) = LogBufferSize
  /\ Move(c, "stuck")
  /\ held' = held \cup {"log"}
  /\ UNCHANGED <<file, logs, session, restart, next_txn, bounds, history>>

\* Records that have reached the log file when the process dies.
Reached == IF \E c \in Clients : Flushing(c) /\ "log" \notin held THEN 0 .. Len(buffer) ELSE {0}

Running == phase \notin {"down", "dead"}

\* The end of the process at any point.
Crash ==
  /\ Running
  /\ crashes < MaxCrashes
  /\ crashes' = crashes + 1
  /\ \E n \in Reached : disk_log' = disk_log \o SubSeq(buffer, 1, n)
  /\ Stop("down") /\ Lose
  /\ UNCHANGED <<files, ddls, next_txn, ops, history>>

\* sigint_handler and the end of start_server: flush_log_to_disk, close_db with
\* its flush_meta, and the end, whatever the clients are doing.
Shutdown ==
  /\ phase = "up"
  /\ "log" \notin held
  /\ crashes < MaxCrashes
  /\ crashes' = crashes + 1
  /\ disk_log' = disk_log \o buffer
  /\ meta' = db
  /\ Stop("down") /\ Lose
  /\ UNCHANGED <<table_files, index_files, ddls, next_txn, ops, history>>

-----------------------------------------------------------------------------
(* The start *)

\* A step of the catalog; a new handle has an empty file behind it.
CatalogStep(step) ==
  /\ step
  /\ IF phase' \in {"down", "dead"} THEN Lose /\ UNCHANGED <<disk_log, next_txn, bounds, acked>>
     ELSE /\ file' = [t \in Tables |-> IF t \in fhs' \ fhs THEN create_file ELSE file[t]]
          /\ UNCHANGED <<logs, session, held, restart, next_txn, bounds, acked>>

\* set_txn_id_num: one more than the last id of the log.
NextId == LET ids == {disk_log[i].tid : i \in DOMAIN disk_log} \cup {0}
          IN 1 + CHOOSE n \in ids : \A m \in ids : m <= n

\* The end of analyze.
AnalyzeLog ==
  /\ Analyzed
  /\ phase' = "redo" /\ pos' = 1
  /\ next_txn' = NextId
  /\ ddl' = [ddl EXCEPT ![Main] = NoDdl]
  /\ UNCHANGED <<files, memory, pc, todo, ddls, file, logs, session, held, undo_list, bounds, history>>

Deletes(rec) == rec.type \in {"DELETE", "CLR_INSERT"}

\* What redo does to a file.
Redone(f, rec) ==
  CASE Deletes(rec) -> delete_record(f, rec.rid)
    [] rec.type \in {"INSERT", "CLR_DELETE"} -> insert_at(f, rec.rid, Value(rec))
    [] rec.type \in {"UPDATE", "CLR_UPDATE"} -> insert_at(f, rec.rid, rec.new)

\* Where the main thread stops: it ends the process, or waits for ever.
MainStops(next) == /\ Stop(next) /\ Lose
                   /\ UNCHANGED <<files, ddls, disk_log, next_txn, bounds, history>>
\* The records that redo and undo change a file for.
Replays(rec) == IsWrite(rec) \/ IsClr(rec)

\* get_table or get_record throws; insert_record(rid) waits.
Throws(rec) == \/ rec.tab \notin db.tabs
               \/ /\ rec.type \notin {"INSERT", "CLR_DELETE"}
                  /\ rec.rid.page_no \notin Pages(file[rec.tab])
Hangs(rec) == ~Deletes(rec) /\ Waits(file[rec.tab], rec.rid)

\* Mutant: a commit record is passed over.
UndoListOfAborts(rec) == CASE rec.type = "BEGIN" -> undo_list \cup {rec.tid}
                           [] rec.type = "ABORT" -> undo_list \ {rec.tid}
                           [] OTHER -> undo_list

\* The transactions to be undone after rec.
UndoList(rec) == CASE rec.type = "BEGIN" -> undo_list \cup {rec.tid}
                   [] rec.type \in {"COMMIT", "ABORT"} -> undo_list \ {rec.tid}
                   [] OTHER -> undo_list

\* A step of the main thread that leaves the catalog alone.
MainMoves(next, p) == /\ phase' = next /\ pos' = p
                      /\ UNCHANGED <<files, memory, pc, ddl, todo, ddls, disk_log, session,
                                     held, next_txn, bounds, history>>

Redo ==
  /\ phase = "redo" /\ pos <= Len(disk_log)
  /\ LET rec == disk_log[pos]
     IN IF Replays(rec) /\ Throws(rec) THEN MainStops("dead")
        ELSE IF Replays(rec) /\ Hangs(rec) THEN MainStops("hung")
        ELSE /\ file' = IF Replays(rec) THEN [file EXCEPT ![rec.tab] = Redone(@, rec)] ELSE file
             /\ undo_list' = UndoList(rec)
             /\ MainMoves("redo", pos + 1)
             /\ UNCHANGED buffer

RedoDone == /\ phase = "redo" /\ pos > Len(disk_log)
            /\ MainMoves("undo", Len(disk_log))
            /\ UNCHANGED <<file, buffer, undo_list>>

\* The records of the transactions that neither committed nor aborted; undo
\* passes over the others.
UndoFrom == {i \in 1 .. pos : disk_log[i].tid \in undo_list}

\* The log backwards.  The compensation records stay in the buffer.
Undo ==
  /\ phase = "undo" /\ UndoFrom # {}
  /\ LET at == CHOOSE i \in UndoFrom : \A j \in UndoFrom : j <= i
         rec == disk_log[at]
         waits == rec.type # "INSERT" /\ Waits(file[rec.tab], rec.rid)
     IN IF IsWrite(rec) /\ (waits \/ Len(buffer) = LogBufferSize) THEN MainStops("hung")
        ELSE /\ IF IsWrite(rec)
                THEN /\ file' = [file EXCEPT ![rec.tab] = Undone(@, rec)]
                     /\ buffer' = Append(buffer, CLR(rec))
                ELSE UNCHANGED <<file, buffer>>
             /\ undo_list' = IF rec.type = "BEGIN" THEN undo_list \ {rec.tid} ELSE undo_list
             /\ MainMoves("undo", at - 1)

UndoDone == /\ phase = "undo" /\ UndoFrom = {}
            /\ MainMoves("recovered", 0)
            /\ UNCHANGED <<file, buffer, undo_list>>

start_server == /\ phase = "recovered"
                /\ MainMoves("up", 0)
                /\ UNCHANGED <<file, buffer, undo_list>>

-----------------------------------------------------------------------------

Restart == \/ CatalogStep(open_db) /\ UNCHANGED unlogged
           \/ CatalogStep(AnalyzeDrop) /\ UNCHANGED unlogged
           \/ CatalogStep(AnalyzeCreate) /\ UNCHANGED unlogged
           \/ CatalogStep(Execute(Main)) /\ UNCHANGED unlogged
           \/ AnalyzeLog \/ Redo \/ RedoDone \/ Undo \/ UndoDone \/ start_server

Rows(c) == \E t \in Tables :
  \/ \E v \in NewRows : Insert(c, t, v) \/ load_data(c, t, v)
  \/ \E rid \in RidsOf(file[t]) : Delete(c, t, rid) \/ \E v \in Values : Update(c, t, rid, v)
  \/ OutOfRange(c, t)

End(c) == \/ CommitRelease(c) \/ CommitLog(c) \/ AbortStart(c) \/ Rollback(c) \/ RollbackLog(c)
          \/ AbortRelease(c) \/ AbortLog(c) \/ Flush(c)

Fails(c) == RollbackWaits(c) \/ RollbackThrows(c) \/ LogFull(c)

Ddl(c) == \/ ops + ddls < MaxOps /\ CatalogStep(Request(c)) /\ unlogged' = unlogged \cup {ddl'[c].tab}
          \/ CatalogStep(Execute(c)) /\ UNCHANGED unlogged
          \/ \E t \in Tables : CatalogStep(NameMissing(c, t)) /\ UNCHANGED unlogged

Next == \/ Restart \/ Crash \/ Shutdown
        \/ \E c \in Clients : TxnBegin(c) \/ Rows(c) \/ End(c) \/ Fails(c) \/ Ddl(c)

Spec == Init /\ [][Next]_vars
-----------------------------------------------------------------------------

\* The files stay files: a page counts at most its slots, and the list starts
\* at a page that is there.
TypeOK ==
  /\ CatalogTypeOK
  /\ \A t \in Tables : /\ file[t].first_free_page_no \in {NoPage} \cup Pages(file[t])
                       /\ \A n \in Pages(file[t]) : file[t].page[n] \in RmPage
  /\ undo_list \subseteq 1 .. MaxTxns /\ acked \subseteq 1 .. MaxTxns
  /\ held \subseteq Tables \cup {"log"}

\* A commit that was answered is in the log file, with nothing of the
\* transaction left in the buffer and nothing added under its id after a
\* restart: commit flushes before it returns, and analyze counts on from the
\* last id of the log.
DurableCommit ==
  \A n \in acked : /\ \E i \in DOMAIN disk_log : disk_log[i] = CommitLogRecord(n)
                   /\ \A i \in DOMAIN buffer : buffer[i].tid # n

TheLog == disk_log \o buffer
Replay(fs, rec) == IF Replays(rec) THEN [fs EXCEPT ![rec.tab] = Redone(@, rec)] ELSE fs
Replayed ==
  LET after[n \in 0 .. Len(TheLog)] ==
        IF n = 0 THEN [t \in Tables |-> create_file] ELSE Replay(after[n - 1], TheLog[n])
  IN after[Len(TheLog)]

\* The log holds what redo needs: at any time the rows of every table are the
\* ones that redo would make of the log so far, whatever the clients have
\* interleaved.  Excepted are rows that came without a log record (load_data,
\* a table dropped or created), a write rolled back whose compensation record
\* is still to be written, and the compensation of inserts and deletes, which
\* setCLR turns into their opposites.
RedoRepeats ==
  (/\ phase = "up" /\ unlogged = {}
   /\ \A i \in DOMAIN TheLog : TheLog[i].type \notin {"CLR_INSERT", "CLR_DELETE"}
   /\ \A c \in Clients : pc[c] \notin {"undo_clr", "refused_clr", "stuck"})
  => \A t \in Tables : RowsOf(Replayed[t]) = RowsOf(file[t])

Committed(n) == CommitLogRecord(n) \in Range(disk_log)
Aborted(n) == AbortLogRecord(n) \in Range(disk_log)
RecordsOf(t, rid) == SelectSeq(disk_log, LAMBDA r : Replays(r) /\ r.tab = t /\ r.rid = rid)
CommittedIn(rs) == {i \in DOMAIN rs : Committed(rs[i].tid)}

\* The value of a row that the committed ones of its records leave.
Restored(rs) == IF CommittedIn(rs) = {} THEN rs[1].old
                ELSE rs[CHOOSE i \in CommittedIn(rs) : \A j \in CommittedIn(rs) : j <= i].new

\* The records of committed transactions come first.
CommittedFirst(rs) == \A i, j \in DOMAIN rs : i < j /\ j \in CommittedIn(rs) => i \in CommittedIn(rs)

\* After a restart a row has the value of its last committed write: analyze,
\* redo and undo repeat what committed and undo what was still running,
\* wherever the process ended, in a restart too.  Excepted are rows with an
\* aborted write (AbortsStayUndone), and rows in which a transaction that had
\* let its locks go and not committed was overwritten by one that did commit.
RestartRestores ==
  phase = "recovered" =>
    \A t \in db.tabs \ unlogged : \A rid \in RidsOf(file[t]) :
      LET rs == RecordsOf(t, rid)
      IN (/\ rs # <<>> /\ CommittedFirst(rs)
          /\ \A i \in DOMAIN rs : ~IsClr(rs[i]) /\ ~Aborted(rs[i].tid))
         => Read(file[t], rid) = Restored(rs)

\* "1. 回滚所有写操作" (transaction_manager.cpp:84): what an abort has undone
\* stays undone after a restart.  The code does not keep this, because of
\* setCLR; it is here to mark what RestartRestores leaves out.
AbortsStayUndone ==
  phase = "recovered" =>
    \A t \in db.tabs \ unlogged : \A rid \in RidsOf(file[t]) :
      LET rs == RecordsOf(t, rid)
      IN (/\ rs # <<>> /\ CommittedFirst(rs)
          /\ \A i \in DOMAIN rs : Committed(rs[i].tid) \/ Aborted(rs[i].tid))
         => Read(file[t], rid) = Restored(rs)


\* When analyze is through, every table has its definition on disk, its file
\* and its handle, and no index is left in memory or in the definitions,
\* wherever in a DDL statement the process ended before.
Rebuilt == phase \in {"redo", "undo", "recovered"} =>
              /\ meta = db /\ fhs = db.tabs
              /\ db.tabs \subseteq table_files
              /\ db.indexes = NoIndexes /\ ihs = {} /\ latch = "free"
=============================================================================
