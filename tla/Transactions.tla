---------------------------- MODULE Transactions ----------------------------
(***************************************************************************)
(* Transactions at work: the statement executors (src/execution), the      *)
(* portal that runs them, the transaction manager (src/transaction) and    *)
(* the lock manager, over the rows and the unique index of each table.     *)
(*                                                                         *)
(* Each transaction is run by the thread of its client.  A thread's steps  *)
(* are the accesses to what the threads share: one call of the lock        *)
(* manager, one change of a record file under its latch, the index         *)
(* operations that go with it.  Between two accesses of one step others    *)
(* could only look a key up in the index for an insert and refuse it, and  *)
(* a refused insert changes nothing.                                       *)
(*                                                                         *)
(* A row is the key it has in the index and, as a history variable, the    *)
(* transaction that wrote it; which free slot an insert gets is left open. *)
(* So are the pages of a file and the fill of the log buffer, on which it  *)
(* depends whether a thread that puts a row back, or writes a log record,  *)
(* waits for ever: it may at any such place.                               *)
(***************************************************************************)
EXTENDS LockManager, Naturals, Sequences

CONSTANTS Keys,      \* values of the indexed column
          NONE,      \* no key, no transaction
          SetClauses,\* what updates make of a key: partial functions on Keys
          MaxStmts   \* bound: statements of one transaction

ASSUME NoneIsNew == NONE \notin Keys \cup Txns
ASSUME SetClausesMapKeys == SetClauses \subseteq UNION {[ks -> Keys] : ks \in SUBSET Keys}
ASSUME MaxStmtsIsNat == MaxStmts \in Nat

VARIABLES indexed,    \* tables with a unique index (TabMeta::indexes)
          heap,       \* the slots of each table's record file
          index,      \* each table's index: key -> rid, TABLE for no entry
          write_set,  \* Transaction::write_records_
          pc,         \* where the thread of each transaction is
          stmt,       \* the statement it executes
          left,       \* what is left of lock_set_ in the loop of release_locks
          count,      \* statements started
          seen        \* history: what the last scan of each table saw

data == <<heap, index, write_set>>
control == <<pc, stmt, left, count>>
vars == <<lockVars, indexed, data, control, seen>>

Cell == [key : Keys \cup {NONE}, by : Txns \cup {NONE}]
Live(c) == c.key # NONE
LiveRids(tab) == {rid \in Rids : Live(heap[tab][rid])}

WriteRecord == [type : {"INSERT", "DELETE", "UPDATE"}, tab : Tables, rid : Rids, old : Cell]

Ops == {"insert", "select", "delete", "update"}
Statement == [op : Ops, tab : Tables, key : Keys \cup {NONE}, rid : Rids \cup {TABLE},
              rids : SUBSET Rids, todo : SUBSET Rids,
              new : UNION {[rids -> Keys] : rids \in SUBSET Rids}]

Points == {"idle", "ins_lock", "ins_heap", "ins_xlock", "ins_index", "scan", "del_lock",
           "del_row", "upd_lock", "upd_row", "abort", "undo",
           "release", "done", "stuck", "waits", "full", "undo_full", "end_full", "gone"}

\* A consistent database: an index holds exactly the keys of the live rows.
IndexOf(rows) == [k \in Keys |-> IF \E rid \in Rids : rows[rid].key = k
                                 THEN CHOOSE rid \in Rids : rows[rid].key = k
                                 ELSE TABLE]

Init ==
  /\ LockInit
  /\ indexed \in SUBSET Tables
  /\ heap \in [Tables -> {rows \in [Rids -> [key : Keys \cup {NONE}, by : {NONE}]] :
                 \A r, s \in Rids : r # s /\ Live(rows[r]) => rows[r].key # rows[s].key}]
  /\ index = [tab \in Tables |-> IF tab \in indexed THEN IndexOf(heap[tab])
                                                    ELSE [k \in Keys |-> TABLE]]
  /\ write_set = [t \in Txns |-> <<>>]
  /\ pc = [t \in Txns |-> "idle"]
  /\ stmt = [t \in Txns |-> NONE]
  /\ left = [t \in Txns |-> {}]
  /\ count = [t \in Txns |-> 0]
  /\ seen = [t \in Txns |-> [tab \in Tables |-> <<>>]]

-----------------------------------------------------------------------------
(* Threads and their statements *)

Goto(t, point) == pc' = [pc EXCEPT ![t] = point]

\* The statement is over; what is left of it is dropped.
Return(t) == /\ Goto(t, "idle")
             /\ stmt' = [stmt EXCEPT ![t] = NONE]

\* SetTransaction, and the dispatch of a statement to its executor.
Start(t, op, tab, key) ==
  /\ pc[t] = "idle"
  /\ count[t] < MaxStmts
  /\ count' = [count EXCEPT ![t] = @ + 1]
  /\ stmt' = [stmt EXCEPT ![t] = [op |-> op, tab |-> tab, key |-> key, rid |-> TABLE,
                                  rids |-> {}, todo |-> {}, new |-> <<>>]]

Tab(t) == stmt[t].tab
Indexed(t) == stmt[t].tab \in indexed

\* A lock was refused: TransactionAbortException, caught in client_handler.
LockedOr(t, res, point) == Goto(t, IF res = "true" THEN point ELSE "abort")

\* A change of one row, remembered in the transaction's write set.
Write(t, type, rid, key) ==
  LET tab == Tab(t)
  IN /\ heap' = [heap EXCEPT ![tab][rid] = [key |-> key, by |-> t]]
     /\ write_set' = [write_set EXCEPT ![t] =
          Append(@, [type |-> type, tab |-> tab, rid |-> rid, old |-> heap[tab][rid]])]

-----------------------------------------------------------------------------
(* The log: LogManager::add_log_to_buffer *)

\* A record that does not fit is to be flushed by the thread that holds latch_,
\* and flush_log_to_disk takes latch_ once more.  From then on everyone with a
\* record to write waits.
LogFree == \A t \in Txns : pc[t] \notin {"full", "undo_full", "end_full"}

\* The thread has written its record and goes on, or waits for ever.
Logs(t, point, full) == \/ LogFree /\ Goto(t, point)
                        \/ Goto(t, full)

\* The record of a write comes before the write.
LogFull(t) ==
  /\ \/ pc[t] = "ins_heap"
     \/ pc[t] \in {"del_row", "upd_row"} /\ stmt[t].todo # {}
  /\ Goto(t, "full")
  /\ UNCHANGED <<lockVars, indexed, data, stmt, left, count, seen>>

\* An insert that waits keeps hdr_latch_ of its table.  (So do those at "waits",
\* but the locks that they keep are enough to keep others from the table.)
HdrHeld(tab) == \E t \in Txns : /\ pc[t] = "full" /\ stmt[t] # NONE
                               /\ stmt[t].op = "insert" /\ stmt[t].tab = tab

-----------------------------------------------------------------------------
(* insert: InsertExecutor::Next *)

\* The uniqueness check comes first, under no lock; if the key is there,
\* IndexEntryNotUniqueError ends the statement and not the transaction.
StartInsert(t, tab, key) ==
  /\ pc[t] = "idle"
  /\ IF tab \in indexed /\ index[tab][key] # TABLE
     THEN /\ count[t] < MaxStmts
          /\ count' = [count EXCEPT ![t] = @ + 1]
          /\ UNCHANGED <<pc, stmt>>
     ELSE Start(t, "insert", tab, key) /\ Goto(t, "ins_lock")
  /\ UNCHANGED <<lockVars, indexed, data, left, seen>>

\* Mutant: the table is not locked first.
InsertUnlocked(t) ==
  /\ pc[t] = "ins_lock"
  /\ Goto(t, "ins_heap")
  /\ UNCHANGED <<lockVars, indexed, data, stmt, left, count, seen>>

InsertLock(t) ==
  /\ pc[t] = "ins_lock"
  /\ \E res \in Results : /\ lock_IX_on_table(t, Tab(t), res)
                          /\ LockedOr(t, res, "ins_heap")
  /\ UNCHANGED <<indexed, data, stmt, left, count, seen>>

\* RmFileHandle::insert_record puts the row into a free slot, and only then
\* the executor asks for its lock.
InsertRecord(t) ==
  /\ pc[t] = "ins_heap"
  /\ LogFree
  /\ \E rid \in Rids \ LiveRids(Tab(t)) :
       /\ Write(t, "INSERT", rid, stmt[t].key)
       /\ stmt' = [stmt EXCEPT ![t].rid = rid]
  /\ Goto(t, "ins_xlock")
  /\ UNCHANGED <<lockVars, indexed, index, left, count, seen>>

InsertRecordLock(t) ==
  /\ pc[t] = "ins_xlock"
  /\ \E res \in Results : /\ lock_exclusive_on_record(t, Tab(t), stmt[t].rid, res)
                          /\ LockedOr(t, res, "ins_index")
  /\ UNCHANGED <<indexed, data, stmt, left, count, seen>>

\* insert_entry throws IndexEntryNotUniqueError if the key has an entry by
\* now; the statement fails and its row stays.
InsertIndexEntry(t) ==
  /\ pc[t] = "ins_index"
  /\ index' = IF Indexed(t) /\ index[Tab(t)][stmt[t].key] = TABLE
              THEN [index EXCEPT ![Tab(t)][stmt[t].key] = stmt[t].rid] ELSE index
  /\ Return(t)
  /\ UNCHANGED <<lockVars, indexed, heap, write_set, left, count, seen>>

-----------------------------------------------------------------------------
(* select, and the scan with which portal->start begins delete and update *)

\* Mutant: the scan takes no lock.
StartScanUnlocked(t, op, tab) ==
  /\ Start(t, op, tab, NONE)
  /\ Goto(t, "scan")
  /\ UNCHANGED <<lockVars, indexed, data, left, seen>>

StartScan(t, op, tab) ==
  /\ Start(t, op, tab, NONE)
  /\ \E res \in Results : /\ lock_shared_on_table(t, tab, res)
                          /\ LockedOr(t, res, "scan")
  /\ UNCHANGED <<indexed, data, left, seen>>

\* The scan reads the file page by page.  ReadsStay shows that what it reads
\* does not change meanwhile, so that one step reads it all.
Scan(t) ==
  /\ pc[t] = "scan"
  /\ seen' = [seen EXCEPT ![t][Tab(t)] = heap[Tab(t)]]
  /\ \/ stmt[t].op = "select" /\ Return(t)
     \/ /\ stmt[t].op # "select"
        /\ \E rids \in SUBSET LiveRids(Tab(t)) :
             stmt' = [stmt EXCEPT ![t].rids = rids, ![t].todo = rids]
        /\ Goto(t, IF stmt[t].op = "delete" THEN "del_lock" ELSE "upd_lock")
  /\ UNCHANGED <<lockVars, indexed, data, left, count>>

-----------------------------------------------------------------------------
(* delete: DeleteExecutor *)

DeleteLock(t) ==
  /\ pc[t] = "del_lock"
  /\ \E res \in Results : /\ lock_exclusive_on_table(t, Tab(t), res)
                          /\ LockedOr(t, res, "del_row")
  /\ UNCHANGED <<indexed, data, stmt, left, count, seen>>

DeleteRow(t) ==
  /\ pc[t] = "del_row"
  /\ LogFree
  /\ \E rid \in stmt[t].todo :
       /\ Write(t, "DELETE", rid, NONE)
       /\ index' = IF Indexed(t)
                   THEN [index EXCEPT ![Tab(t)][heap[Tab(t)][rid].key] = TABLE] ELSE index
       /\ stmt' = [stmt EXCEPT ![t].todo = @ \ {rid}]
  /\ UNCHANGED <<lockVars, indexed, pc, left, count, seen>>

-----------------------------------------------------------------------------
(* update: UpdateExecutor::Next, three loops over the rids *)

\* Mutant: the rows are not locked.
UpdateUnlocked(t) ==
  /\ pc[t] = "upd_lock"
  /\ \E rid \in stmt[t].todo :
       /\ index' = IF Indexed(t)
                   THEN [index EXCEPT ![Tab(t)][heap[Tab(t)][rid].key] = TABLE] ELSE index
       /\ stmt' = [stmt EXCEPT ![t].todo = @ \ {rid}]
  /\ UNCHANGED <<lockVars, indexed, heap, write_set, pc, left, count, seen>>

\* First loop: lock the row, take its old key out of the index.
UpdateLock(t) ==
  /\ pc[t] = "upd_lock"
  /\ \E rid \in stmt[t].todo, res \in Results :
       /\ lock_exclusive_on_record(t, Tab(t), rid, res)
       /\ LockedOr(t, res, "upd_lock")
       /\ index' = IF Indexed(t) /\ res = "true"
                   THEN [index EXCEPT ![Tab(t)][heap[Tab(t)][rid].key] = TABLE] ELSE index
       /\ stmt' = IF res = "true" THEN [stmt EXCEPT ![t].todo = @ \ {rid}] ELSE stmt
  /\ UNCHANGED <<indexed, heap, write_set, left, count, seen>>

\* Second loop: put the new keys in, which the SET clauses compute from the
\* old row.  If one is taken, the new entries go, the old ones come back, and
\* the statement fails; an old key that two rows share ends that early.
\* Others see the loop only through the unlocked check of an insert, which
\* it may make fail.
UpdateIndex(t) ==
  LET tab     == Tab(t)
      rids    == stmt[t].rids
      Key(r)  == heap[tab][r].key
      Put(rs, key(_)) == [index EXCEPT ![tab] = [k \in Keys |->
                            IF \E r \in rs : key(r) = k THEN CHOOSE r \in rs : key(r) = k
                                                        ELSE @[k]]]
      Distinct(rs, key(_)) == \A r, s \in rs : key(r) = key(s) => r = s
  IN /\ pc[t] = "upd_lock"
     /\ stmt[t].todo = {}
     /\ \E set \in {f \in SetClauses : \A r \in rids : Key(r) \in DOMAIN f} :
          LET new    == [r \in rids |-> set[Key(r)]]
              New(r) == new[r]
              ok == Distinct(rids, New) /\ \A r \in rids : index[tab][new[r]] = TABLE
          IN IF ~Indexed(t) \/ ok
             THEN /\ index' = IF Indexed(t) THEN Put(rids, New) ELSE index
                  /\ stmt' = [stmt EXCEPT ![t].todo = rids, ![t].new = new]
                  /\ Goto(t, "upd_row")
             ELSE /\ \E back \in SUBSET rids :
                       /\ Distinct(back, Key)
                       /\ back # rids => \E r \in rids \ back, s \in back : Key(r) = Key(s)
                       /\ index' = Put(back, Key)
                  /\ Return(t)
     /\ UNCHANGED <<lockVars, indexed, heap, write_set, left, count, seen>>

\* Third loop: log and change the rows.
UpdateRow(t) ==
  /\ pc[t] = "upd_row"
  /\ LogFree
  /\ \E rid \in stmt[t].todo : /\ Write(t, "UPDATE", rid, stmt[t].new[rid])
                               /\ stmt' = [stmt EXCEPT ![t].todo = @ \ {rid}]
  /\ UNCHANGED <<lockVars, indexed, index, pc, left, count, seen>>

\* The last row is done.
LoopDone(t) ==
  /\ pc[t] \in {"del_row", "upd_row"}
  /\ stmt[t].todo = {}
  /\ Return(t)
  /\ UNCHANGED <<lockVars, indexed, data, left, count, seen>>

-----------------------------------------------------------------------------
(* The end of a transaction: TransactionManager::commit and abort *)

\* By a commit statement, or after a statement of an implicit transaction.
Commit(t) ==
  /\ pc[t] = "idle"
  /\ End(t, "COMMITTED")
  /\ left' = [left EXCEPT ![t] = lock_set[t]]
  /\ Goto(t, "release")
  /\ UNCHANGED <<indexed, data, stmt, count, seen>>

\* By an abort or rollback statement, or after a refused lock.
Abort(t) ==
  /\ pc[t] \in {"idle", "abort"}
  /\ End(t, "ABORTED")
  /\ Goto(t, "undo")
  /\ stmt' = [stmt EXCEPT ![t] = NONE]
  /\ UNCHANGED <<indexed, data, left, count, seen>>

\* Mutant: writes are undone oldest first.
UndoForward(t) ==
  LET w == Head(write_set[t])
  IN /\ pc[t] = "undo"
     /\ write_set[t] # <<>>
     /\ heap' = [heap EXCEPT ![w.tab][w.rid] = w.old]
     /\ write_set' = [write_set EXCEPT ![t] = Tail(@)]
     /\ UNCHANGED <<lockVars, indexed, index, pc, stmt, left, count, seen>>

\* Mutant: the write that was undone is not popped.
UndoUnpopped(t) ==
  LET w == write_set[t][Len(write_set[t])]
  IN /\ pc[t] = "undo"
     /\ write_set[t] # <<>>
     /\ heap' = [heap EXCEPT ![w.tab][w.rid] = w.old]
     /\ UNCHANGED <<lockVars, indexed, index, write_set, pc, stmt, left, count, seen>>

\* rollback_insert, rollback_delete or rollback_update of the last write, and
\* its compensation record.  Index entries are found by key alone.  The entry
\* of an old row is put back by insert_entry; when its key has an entry, the
\* exception leaves abort.
Undo(t) ==
  LET w     == write_set[t][Len(write_set[t])]
      tab   == w.tab
      cur   == heap[tab][w.rid]
      gone  == IF w.type # "DELETE" THEN [index[tab] EXCEPT ![cur.key] = TABLE]
                                    ELSE index[tab]
      throw == tab \in indexed /\ w.type # "INSERT" /\ gone[w.old.key] # TABLE
  IN /\ pc[t] = "undo"
     /\ write_set[t] # <<>>
     /\ ~HdrHeld(tab)
     /\ IF throw THEN Goto(t, "stuck") ELSE Logs(t, "undo", "undo_full")
     /\ heap' = IF throw /\ w.type = "DELETE" THEN heap
                ELSE [heap EXCEPT ![tab][w.rid] = w.old]
     /\ index' = IF tab \notin indexed THEN index
                 ELSE [index EXCEPT ![tab] =
                         IF w.type = "INSERT" \/ throw THEN gone
                         ELSE [gone EXCEPT ![w.old.key] = w.rid]]
     /\ write_set' = IF pc'[t] # "undo" THEN write_set
                     ELSE [write_set EXCEPT ![t] = SubSeq(@, 1, Len(@) - 1)]
     /\ UNCHANGED <<lockVars, indexed, stmt, left, count, seen>>

\* insert_record(rid, buf) of rollback_delete and rollback_update loops for ever
\* while the first page with a free slot is one before the row's; the index is
\* changed by then.  get_record of rollback_insert waits for hdr_latch_.
UndoWaits(t) ==
  LET w    == write_set[t][Len(write_set[t])]
      tab  == w.tab
      gone == [index[tab] EXCEPT ![heap[tab][w.rid].key] = TABLE]
  IN /\ pc[t] = "undo"
     /\ write_set[t] # <<>>
     /\ \/ w.type = "INSERT" /\ HdrHeld(tab) /\ index' = index
        \/ w.type # "INSERT" /\ tab \notin indexed /\ index' = index
        \/ /\ w.type = "DELETE" /\ tab \in indexed /\ index[tab][w.old.key] = TABLE
           /\ index' = [index EXCEPT ![tab][w.old.key] = w.rid]
        \/ /\ w.type = "UPDATE" /\ tab \in indexed
           /\ index' = [index EXCEPT ![tab] = gone]
     /\ Goto(t, "waits")
     /\ UNCHANGED <<lockVars, indexed, heap, write_set, stmt, left, count, seen>>

UndoDone(t) ==
  /\ pc[t] = "undo"
  /\ write_set[t] = <<>>
  /\ left' = [left EXCEPT ![t] = lock_set[t]]
  /\ Goto(t, "release")
  /\ UNCHANGED <<lockVars, indexed, data, stmt, count, seen>>

\* Mutant: lock_set_ is emptied while the loop walks it.
ReleaseErasing(t) ==
  /\ pc[t] = "release"
  /\ \E id \in left[t] :
       /\ lock_table' = [lock_table EXCEPT ![id] = {r \in @ : r.txn # t}]
       /\ left' = [left EXCEPT ![t] = @ \ {id}]
  /\ lock_set' = [lock_set EXCEPT ![t] = {}]
  /\ UNCHANGED <<state, indexed, data, pc, stmt, count, seen>>

\* release_locks unlocks the ids of lock_set_ one by one, in no known order,
Release(t) ==
  /\ pc[t] = "release"
  /\ \E id \in left[t] : /\ unlock(t, id)
                         /\ left' = [left EXCEPT ![t] = @ \ {id}]
  /\ UNCHANGED <<indexed, data, pc, stmt, count, seen>>

\* Mutant: the set is cleared before its locks are released.
ReleasedEarly(t) ==
  /\ pc[t] = "release"
  /\ lock_set' = [lock_set EXCEPT ![t] = {}]
  /\ write_set' = [write_set EXCEPT ![t] = <<>>]
  /\ Goto(t, "done")
  /\ UNCHANGED <<state, lock_table, indexed, heap, index, stmt, left, count, seen>>

\* and clears the set; then the commit or abort record is written and flushed.
Released(t) ==
  /\ pc[t] = "release"
  /\ left[t] = {}
  /\ lock_set' = [lock_set EXCEPT ![t] = {}]
  /\ write_set' = [write_set EXCEPT ![t] = <<>>]
  /\ Logs(t, "done", "end_full")
  /\ UNCHANGED <<state, lock_table, indexed, heap, index, stmt, left, count, seen>>

\* After the commit or abort statement of an implicit transaction
\* client_handler commits it once more.
CommitAgain(t) ==
  /\ pc[t] = "done"
  /\ End(t, "COMMITTED")
  /\ Logs(t, "done", "end_full")
  /\ UNCHANGED <<indexed, data, stmt, left, count, seen>>

\* The client goes away: client_handler leaves its loop and the thread exits;
\* nobody ends the transaction.
Disconnect(t) ==
  /\ pc[t] = "idle"
  /\ Goto(t, "gone")
  /\ UNCHANGED <<lockVars, indexed, data, stmt, left, count, seen>>

Work(t) ==
  \/ InsertLock(t) \/ InsertRecord(t) \/ InsertRecordLock(t) \/ InsertIndexEntry(t)
  \/ Scan(t)
  \/ DeleteLock(t) \/ DeleteRow(t)
  \/ UpdateLock(t) \/ UpdateIndex(t) \/ UpdateRow(t)
  \/ LoopDone(t) \/ LogFull(t)
  \/ pc[t] = "abort" /\ Abort(t)
  \/ Undo(t) \/ UndoWaits(t) \/ UndoDone(t) \/ Release(t) \/ Released(t)

Client(t) ==
  \/ \E tab \in Tables, key \in Keys : StartInsert(t, tab, key)
  \/ \E tab \in Tables, op \in Ops \ {"insert"} : StartScan(t, op, tab)
  \/ Commit(t)
  \/ pc[t] = "idle" /\ Abort(t)
  \/ CommitAgain(t)
  \/ Disconnect(t)

Next == \E t \in Txns : Work(t) \/ Client(t)

\* A thread that works on a statement, a commit or an abort keeps running;
\* clients may stop talking at any time.
Spec == Init /\ [][Next]_vars /\ \A t \in Txns : WF_vars(Work(t))

-----------------------------------------------------------------------------
(* Properties *)

\* The shape of the state; the loop of release_locks walks a set that nobody
\* changes under it.
TypeOK ==
  /\ LockTypeOK
  /\ indexed \in SUBSET Tables
  /\ heap \in [Tables -> [Rids -> Cell]]
  /\ index \in [Tables -> [Keys -> Rids \cup {TABLE}]]
  /\ write_set \in [Txns -> Seq(WriteRecord)]
  /\ pc \in [Txns -> Points]
  /\ stmt \in [Txns -> Statement \cup {NONE}]
  /\ left \in [Txns -> SUBSET LockDataId]
  /\ \A t \in Txns : left[t] \subseteq lock_set[t]
  /\ count \in [Txns -> 0 .. MaxStmts]
  /\ seen \in [Txns -> [Tables -> [Rids -> Cell] \cup {<<>>}]]

\* The program keeps the lock manager's contract: it asks for no lock after
\* the end, and lock_set_ is cleared when every request is gone.
LockContract == LockInit /\ [][LockNext]_lockVars

\* No dirty writes: what a transaction has written and not yet committed or
\* undone is still there, as it wrote it last, so its undo overwrites nobody
\* else's row.  This includes an inserted row whose lock is not yet taken, and
\* excepts an undo that stops between a row and the end of its write set.
NoDirtyWrite ==
  \A t \in Txns :
    state[t] # "COMMITTED" /\ pc[t] \notin {"stuck", "undo_full"} =>
      \A i \in 1 .. Len(write_set[t]) :
        heap[write_set[t][i].tab][write_set[t][i].rid].by = t

\* No dirty reads: every row, and every gap, a scan returned was left by a
\* committed transaction, by the scanning one or by nobody.
NoDirtyRead ==
  \A t \in Txns, tab \in Tables : seen[t][tab] # <<>> =>
    \A rid \in Rids :
      LET by == seen[t][tab][rid].by
      IN by \in {NONE, t} \/ state[by] = "COMMITTED"

\* Repeatable reads without phantoms: until a transaction ends, the table it
\* scanned has changed only by its own writes.
ReadsStay ==
  \A t \in Txns, tab \in Tables : state[t] = "GROWING" /\ seen[t][tab] # <<>> =>
    \A rid \in Rids : \/ heap[tab][rid].by = t
                      \/ heap[tab][rid] = seen[t][tab][rid]

\* Abort brings back every row: when the undo is over, no row is left by the
\* aborted transaction.
AbortRestores ==
  \A t \in Txns : pc[t] \in {"release", "done", "end_full"} /\ state[t] = "ABORTED" =>
    \A tab \in Tables, rid \in Rids : heap[tab][rid].by # t

\* Every commit, abort or refused statement ends its transaction and leaves no
\* lock behind, or the thread is at one of the places where the code lets it
\* down: the exception out of the undo of a row with an index, the loop of
\* insert_record(rid, buf) in the undo of a delete or an update, the full log.
EndingEnds ==
  \A t \in Txns : pc[t] \in {"abort", "undo", "release"} ~>
    \/ pc[t] \in {"done", "end_full"} /\ \A id \in LockDataId : ~Holds(t, id)
    \/ pc[t] = "stuck" /\ indexed # {}
    \/ pc[t] = "waits" /\ \E i \in DOMAIN write_set[t] : write_set[t][i].type # "INSERT"
    \/ pc[t] \in {"waits", "undo_full"} /\ ~LogFree

\* A unique index keeps two committed rows from having the same key (the
\* check "to conform to index uniqueness" of InsertExecutor::Next).
UniqueKeys ==
  LET Committed(c) == c.by = NONE \/ state[c.by] = "COMMITTED"
  IN \A tab \in indexed : \A r, s \in {rid \in LiveRids(tab) : Committed(heap[tab][rid])} :
       r # s => heap[tab][r].key # heap[tab][s].key

\* Abort rolls back every write: no exception cuts the undo short.
AbortCompletes == \A t \in Txns : pc[t] # "stuck"

\* Abort rolls back every write, the index's too: when the undo is over and
\* before the first lock is released, a row of a scanned table that is as the
\* scan saw it still has its index entry.
AbortKeepsIndex ==
  \A t \in Txns, tab \in indexed :
    pc[t] = "release" /\ state[t] = "ABORTED" /\ left[t] = lock_set[t] /\ seen[t][tab] # <<>> =>
      \A rid \in LiveRids(tab) : heap[tab][rid] = seen[t][tab][rid] =>
        index[tab][heap[tab][rid].key] # TABLE
=============================================================================
