------------------------- MODULE TransactionsProofs -------------------------
(***************************************************************************)
(* Theorems about Transactions for every number of transactions, tables,   *)
(* rows, keys and statements: the program keeps the lock manager's         *)
(* contract, so that all of LockManagerProofs applies to it, and its locks *)
(* isolate the rows.                                                       *)
(*                                                                         *)
(* Inv, the inductive invariant, is defined in TransactionsInvariant.      *)
(***************************************************************************)
EXTENDS TransactionsInvariant

(* Threads: the steps that change no row keep the invariant of their       *)
(* thread, Thread(u), and leave the other threads alone.                   *)

(* What a call of the lock manager does *)

\* The call changed nothing of the other transactions, took no lock away, and
\* left t growing.
Called(t) ==
  /\ state' = [state EXCEPT ![t] = "GROWING"]
  /\ \A u \in Txns : lock_set[u] \subseteq lock_set'[u]
  /\ \A u \in Txns : u # t => lock_set'[u] = lock_set[u]
  /\ \A id \in LockDataId : lock_table[id] \subseteq lock_table'[id]
  /\ \A id \in LockDataId : \A r \in lock_table'[id] : r \in lock_table[id] \/ r.txn = t

\* Pushing requests of t does no more than that.
LEMMA PushCalled ==
  ASSUME LockTypeOK, NEW t \in Txns, NEW grants, Push(t, grants),
         state' = [state EXCEPT ![t] = "GROWING"]
  PROVE  Called(t)
<1>1. Pushed(t, grants)
  BY Zenon, PushAdds
<1>2. \A u \in Txns : u # t => lock_set'[u] = lock_set[u]
  BY Zenon DEF Push, LockTypeOK
<1> QED
  BY Zenon, <1>1, <1>2 DEF Called, Pushed

\* A table lock of a transaction that has not ended.
LEMMA TableLockCalled ==
  ASSUME LockTypeOK, NEW t \in Txns, NEW tab \in Tables, NEW mode \in LockMode, NEW modes,
         NEW res \in Results, state[t] \in {"DEFAULT", "GROWING"},
         TableLock(t, tab, mode, modes, res)
  PROVE  Called(t) /\ (res = "true" => Has(t, tab, mode)')
<1> DEFINE grants == IF res = "true" THEN {<<<<tab, TABLE>>, mode>>} ELSE {}
<1>1. state' = [state EXCEPT ![t] = "GROWING"] /\ Push(t, grants)
  BY Zenon DEF TableLock, Preamble
<1>2. Called(t)
  BY Zenon, <1>1, PushCalled
<1>3. ASSUME res = "true"
      PROVE  Has(t, tab, mode)'
  <2>1. Pushed(t, grants)
    BY Zenon, <1>1, PushAdds
  <2>2. <<<<tab, TABLE>>, mode>> \in grants /\ <<tab, TABLE>> \in LockDataId
    BY Zenon, <1>3 DEF LockDataId
  <2> QED
    BY Zenon, <2>1, <2>2 DEF Pushed, Has
<1> QED
  BY Zenon, <1>2, <1>3

\* An X lock on a record.
LEMMA RecordLockCalled ==
  ASSUME LockTypeOK, NEW t \in Txns, NEW tab \in Tables, NEW rid \in Rids,
         NEW res \in Results, state[t] \in {"DEFAULT", "GROWING"},
         lock_exclusive_on_record(t, tab, rid, res)
  PROVE  Called(t) /\ (res = "true" => Has(t, tab, "IX")')
<1> DEFINE intent == <<<<tab, TABLE>>, "IX">>
           ix     == Free(t, <<tab, TABLE>>, {"S", "SIX", "X"})
           grants == IF res = "throw" \/ ~ix THEN {}
                     ELSE IF res = "true" THEN {intent, <<<<tab, rid>>, "X">>} ELSE {intent}
<1>1. /\ state' = [state EXCEPT ![t] = "GROWING"]
      /\ Push(t, grants)
      /\ res = "true" => ix
  BY Zenon DEF lock_exclusive_on_record, Preamble
<1> HIDE DEF ix
<1>2. Called(t)
  BY Zenon, <1>1, PushCalled
<1>3. ASSUME res = "true"
      PROVE  Has(t, tab, "IX")'
  <2>1. Pushed(t, grants)
    BY Zenon, <1>1, PushAdds
  <2>2. intent \in grants /\ <<tab, TABLE>> \in LockDataId /\ "IX" \in LockMode
    BY Zenon, <1>1, <1>3 DEF LockDataId, LockMode
  <2> QED
    BY Zenon, <2>1, <2>2 DEF Pushed, Has
<1> QED
  BY Zenon, <1>2, <1>3

\* A call of the lock manager concerns only the caller, whose locks stay.
LEMMA CalledKeeps ==
  ASSUME LockTypeOK, NEW u \in Txns, Called(u)
  PROVE  /\ \A t \in Txns : t # u =>
              /\ state'[t] = state[t] /\ lock_set'[t] = lock_set[t]
              /\ \A id \in LockDataId : \A r \in lock_table[id] : r.txn = t => r \in lock_table'[id]
              /\ \A id \in LockDataId : \A r \in lock_table'[id] : r.txn = t => r \in lock_table[id]
         /\ state'[u] = "GROWING"
         /\ \A tab \in Tables, m \in LockMode : Has(u, tab, m) => Has(u, tab, m)'
         /\ \A t \in Txns : lock_set[t] \subseteq lock_set'[t]
  BY Zenon DEF Called, LockTypeOK, Has, LockDataId

-----------------------------------------------------------------------------
(* Steps *)

\* A step of a transaction that has not ended and goes on, with or without a
\* call of the lock manager, and changes no row.
LEMMA GoesOn ==
  ASSUME LockTypeOK', TypeOK, NEW u \in Txns, Thread(u),
         NEW p \in Unended, pc[u] \in Unended, pc' = [pc EXCEPT ![u] = p],
         Called(u) \/ UNCHANGED lockVars,
         UNCHANGED <<indexed, heap, write_set, left>>,
         \/ seen' = seen
         \/ /\ seen' \in [Txns -> [Tables -> [Rids -> Cell] \cup {<<>>}]]
            /\ \A t \in Txns : t # u => seen'[t] = seen[t]
            /\ ScanLocks(u)',
         index' \in [Tables -> [Keys -> Rids \cup {TABLE}]],
         count' \in [Txns -> 0 .. MaxStmts],
         stmt' \in [Txns -> Statement \cup {NONE}],
         \A t \in Txns : t # u => stmt'[t] = stmt[t],
         StmtAt(u)', LocksAt(u)'
  PROVE  Moves(u)
<1>1. LockTypeOK /\ state[u] \in {"DEFAULT", "GROWING"}
  BY Zenon DEF TypeOK, Thread, StateAt
<1>2. pc'[u] = p /\ pc' \in [Txns -> Points] /\ \A t \in Txns : t # u => pc'[t] = pc[t]
  BY SMTT(30) DEF TypeOK, Points, Unended
<1>3. /\ \A t \in Txns : t # u =>
            /\ state'[t] = state[t] /\ lock_set'[t] = lock_set[t]
            /\ \A id \in LockDataId : \A r \in lock_table[id] : r.txn = t => r \in lock_table'[id]
            /\ \A id \in LockDataId : \A r \in lock_table'[id] : r.txn = t => r \in lock_table[id]
      /\ state'[u] \in {"DEFAULT", "GROWING"}
      /\ \A tab \in Tables, m \in LockMode : Has(u, tab, m) => Has(u, tab, m)'
      /\ \A t \in Txns : lock_set[t] \subseteq lock_set'[t]
  BY SMTT(30), <1>1, CalledKeeps DEF lockVars, Has
<1>4. Others(u)
  BY SMTT(30), <1>2, <1>3 DEF Others
<1>5. TypeOK'
  BY SMTT(30), <1>2, <1>3 DEF TypeOK
<1>6. WriteLocks(u)' /\ OldOwn(u)' /\ ScanLocks(u)'
  BY SMTT(30), <1>3, QuietKeeps DEF Keeping, Unended
<1>7. StateAt(u)' /\ LeftCovers(u)' /\ EndedClean(u)'
  BY Zenon, <1>2, <1>3 DEF Thread, StateAt, LeftCovers, EndedClean, Unended
<1>8. Onward(u) /\ ~Halted(u)
  BY Zenon, <1>1, <1>3 DEF Halted, Onward, Unended
<1> QED
  BY Zenon, <1>4, <1>5, <1>6, <1>7, <1>8 DEF Moves, Thread

\* An insert begins, or is refused because its key is there.
LEMMA StartInsertMoves ==
  ASSUME LockTypeOK', TypeOK, NEW u \in Txns, Thread(u),
         NEW tab \in Tables, NEW key \in Keys, StartInsert(u, tab, key)
  PROVE  Moves(u)
<1>1. /\ pc[u] = "idle" /\ count[u] < MaxStmts /\ count' = [count EXCEPT ![u] = @ + 1]
      /\ UNCHANGED <<lockVars, indexed, heap, index, write_set, left, seen>>
  BY Zenon DEF StartInsert, Start, data
<1>2. count' \in [Txns -> 0 .. MaxStmts]
  BY SMTT(30), <1>1, MaxStmtsIsNat DEF TypeOK
<1>3. CASE UNCHANGED <<pc, stmt>>
  <2>1. pc' = [pc EXCEPT ![u] = "idle"] /\ stmt' = stmt /\ pc'[u] = "idle"
    BY Zenon, <1>1, <1>3 DEF TypeOK
  <2>2. StmtAt(u)' /\ LocksAt(u)'
    BY SMTT(30), <2>1 DEF StmtAt, LocksAt, InInsert, AfterScan
  <2> QED
    BY Zenon, <1>1, <1>2, <2>1, <2>2, GoesOn DEF TypeOK, Unended
<1>4. CASE Start(u, "insert", tab, key) /\ Goto(u, "ins_lock")
  <2> DEFINE new == [op |-> "insert", tab |-> tab, key |-> key, rid |-> TABLE,
                     rids |-> {}, todo |-> {}, new |-> <<>>]
  <2>1. new \in Statement
    BY SMTT(30) DEF Statement, Ops
  <2>2. stmt' = [stmt EXCEPT ![u] = new] /\ pc' = [pc EXCEPT ![u] = "ins_lock"]
    BY Zenon, <1>4 DEF Start, Goto
  <2>3. new.key = key
    BY SMTT(30)
  <2> HIDE DEF new
  <2>4. pc'[u] = "ins_lock" /\ stmt'[u] = new /\ stmt' \in [Txns -> Statement \cup {NONE}]
    BY SMTT(30), <2>1, <2>2 DEF TypeOK
  <2>5. StmtAt(u)' /\ LocksAt(u)'
    BY Zenon, <2>1, <2>3, <2>4 DEF StmtAt, LocksAt, InInsert, AfterScan
  <2> QED
    BY Zenon, <1>1, <1>2, <2>2, <2>4, <2>5, GoesOn DEF TypeOK, Unended
<1> QED
  BY Zenon, <1>3, <1>4 DEF StartInsert

\* Between statements, and once one was refused, a thread needs no lock.
LEMMA AtRest ==
  ASSUME NEW u \in Txns, pc'[u] \in {"idle", "abort", "gone", "full"}
  PROVE  StmtAt(u)' /\ LocksAt(u)'
  BY SMTT(30) DEF StmtAt, LocksAt, InInsert, AfterScan

\* The lock of an insert on its table.
LEMMA InsertLockMoves ==
  ASSUME LockTypeOK', TypeOK, NEW u \in Txns, Thread(u), InsertLock(u)
  PROVE  Moves(u)
<1>1. PICK tab \in Tables :
        /\ pc[u] = "ins_lock" /\ stmt[u] \in Statement /\ stmt[u].tab = tab /\ stmt[u].key \in Keys
        /\ state[u] \in {"DEFAULT", "GROWING"}
  BY Zenon DEF InsertLock, Thread, StmtAt, InInsert, Statement, StateAt, Unended
<1>2. PICK res \in Results : lock_IX_on_table(u, tab, res) /\ LockedOr(u, res, "ins_heap")
  BY SMTT(30), <1>1 DEF InsertLock, Tab
<1>3. Called(u) /\ (res = "true" => Has(u, tab, "IX")')
  BY Zenon, <1>1, <1>2, TableLockCalled DEF lock_IX_on_table, TypeOK, LockMode
<1>4. /\ pc' = [pc EXCEPT ![u] = IF res = "true" THEN "ins_heap" ELSE "abort"]
      /\ UNCHANGED <<indexed, heap, index, write_set, stmt, left, count, seen>>
  BY Zenon, <1>2 DEF InsertLock, LockedOr, Goto, data
<1>5. pc'[u] = (IF res = "true" THEN "ins_heap" ELSE "abort")
  BY Zenon, <1>4 DEF TypeOK
<1>6. StmtAt(u)' /\ LocksAt(u)'
  <2>1. CASE res = "true"
    <3>1. pc'[u] = "ins_heap" /\ stmt'[u] = stmt[u] /\ Has(u, tab, "IX")'
      BY Zenon, <1>3, <1>4, <1>5, <2>1
    <3> QED
      BY Zenon, <1>1, <3>1 DEF StmtAt, LocksAt, InInsert, AfterScan, Tab
  <2>2. CASE res # "true"
    BY SMTT(30), <1>5, <2>2, AtRest
  <2> QED
    BY Zenon, <2>1, <2>2
<1> QED
  BY Zenon, <1>1, <1>3, <1>4, <1>6, GoesOn DEF TypeOK, Unended

\* The lock of an insert on its row.
LEMMA InsertRecordLockMoves ==
  ASSUME LockTypeOK', TypeOK, NEW u \in Txns, Thread(u), InsertRecordLock(u)
  PROVE  Moves(u)
<1>1. PICK tab \in Tables, rid \in Rids :
        /\ pc[u] = "ins_xlock" /\ stmt[u] \in Statement /\ stmt[u].key \in Keys
        /\ stmt[u].tab = tab /\ stmt[u].rid = rid
        /\ state[u] \in {"DEFAULT", "GROWING"}
  BY Zenon DEF InsertRecordLock, Thread, StmtAt, InInsert, Statement, StateAt, Unended
<1>2. PICK res \in Results : /\ lock_exclusive_on_record(u, tab, rid, res)
                             /\ LockedOr(u, res, "ins_index")
  BY Zenon, <1>1 DEF InsertRecordLock, Tab
<1>3. Called(u) /\ (res = "true" => Has(u, tab, "IX")')
  BY Zenon, <1>1, <1>2, RecordLockCalled DEF TypeOK
<1>4. /\ pc' = [pc EXCEPT ![u] = IF res = "true" THEN "ins_index" ELSE "abort"]
      /\ UNCHANGED <<indexed, heap, index, write_set, stmt, left, count, seen>>
  BY Zenon, <1>2 DEF InsertRecordLock, LockedOr, Goto, data
<1>5. pc'[u] = (IF res = "true" THEN "ins_index" ELSE "abort")
  BY Zenon, <1>4 DEF TypeOK
<1>6. StmtAt(u)' /\ LocksAt(u)'
  <2>1. CASE res = "true"
    <3>1. pc'[u] = "ins_index" /\ stmt'[u] = stmt[u] /\ Has(u, tab, "IX")'
      BY Zenon, <1>3, <1>4, <1>5, <2>1
    <3> QED
      BY Zenon, <1>1, <3>1 DEF StmtAt, LocksAt, InInsert, AfterScan, Tab
  <2>2. CASE res # "true"
    BY Zenon, <1>5, <2>2, AtRest
  <2> QED
    BY Zenon, <2>1, <2>2
<1> QED
  BY Zenon, <1>1, <1>3, <1>4, <1>6, GoesOn DEF TypeOK, Unended

\* Dropping the statement leaves the statements of the others.
LEMMA DropStatement ==
  ASSUME TypeOK, NEW u \in Txns
  PROVE  LET new == [stmt EXCEPT ![u] = NONE]
         IN /\ new \in [Txns -> Statement \cup {NONE}]
            /\ \A t \in Txns : t # u => new[t] = stmt[t]
  BY Zenon DEF TypeOK

\* The entry of an inserted row, and the end of the insert.
LEMMA InsertIndexEntryMoves ==
  ASSUME LockTypeOK', TypeOK, NEW u \in Txns, Thread(u), InsertIndexEntry(u)
  PROVE  Moves(u)
<1>1. PICK tab \in Tables, rid \in Rids :
        pc[u] = "ins_index" /\ stmt[u] \in Statement /\ stmt[u].tab = tab /\ stmt[u].rid = rid
  BY SMTT(30) DEF InsertIndexEntry, Thread, StmtAt, InInsert, Statement
<1>2. index' \in [Tables -> [Keys -> Rids \cup {TABLE}]]
  BY Zenon, <1>1, IndexEntry DEF InsertIndexEntry, Tab, TypeOK
<1>3. /\ pc' = [pc EXCEPT ![u] = "idle"] /\ stmt' = [stmt EXCEPT ![u] = NONE]
      /\ UNCHANGED <<lockVars, indexed, heap, write_set, left, count, seen>>
  BY Zenon DEF InsertIndexEntry, Return, Goto
<1>4. pc'[u] = "idle"
  BY SMTT(30), <1>3 DEF TypeOK
<1> QED
  BY Zenon, <1>1, <1>2, <1>3, <1>4, AtRest, DropStatement, GoesOn DEF TypeOK, Unended

\* The lock with which a scan begins.
LEMMA StartScanMoves ==
  ASSUME LockTypeOK', TypeOK, NEW u \in Txns, Thread(u),
         NEW op \in Ops, NEW tab \in Tables, StartScan(u, op, tab)
  PROVE  Moves(u)
<1> DEFINE new == [op |-> op, tab |-> tab, key |-> NONE, rid |-> TABLE,
                   rids |-> {}, todo |-> {}, new |-> <<>>]
<1>1. /\ pc[u] = "idle" /\ count[u] < MaxStmts /\ count' = [count EXCEPT ![u] = @ + 1]
      /\ stmt' = [stmt EXCEPT ![u] = new]
      /\ UNCHANGED <<indexed, heap, index, write_set, left, seen>>
  BY Zenon DEF StartScan, Start, data
<1>2. PICK res \in Results : lock_shared_on_table(u, tab, res) /\ LockedOr(u, res, "scan")
  BY Zenon DEF StartScan
<1>3. count' \in [Txns -> 0 .. MaxStmts]
  BY SMTT(30), <1>1, MaxStmtsIsNat DEF TypeOK
<1>4. new \in Statement /\ new.tab = tab
  <2>1. <<>> \in [{} -> Keys] /\ {} \in SUBSET Rids
    OBVIOUS
  <2>2. <<>> \in UNION {[rs -> Keys] : rs \in SUBSET Rids}
    BY Zenon, <2>1
  <2> QED
    BY Zenon, <2>2 DEF Statement, Ops
<1> HIDE DEF new
<1>5. state[u] \in {"DEFAULT", "GROWING"}
  BY ZenonT(40), <1>1 DEF Thread, StateAt, Unended
<1>6. Called(u) /\ (res = "true" => Has(u, tab, "S")')
  BY Zenon, <1>2, <1>5, TableLockCalled DEF lock_shared_on_table, TypeOK, LockMode
<1>7. /\ pc' = [pc EXCEPT ![u] = IF res = "true" THEN "scan" ELSE "abort"]
      /\ pc'[u] = (IF res = "true" THEN "scan" ELSE "abort")
  BY Zenon, <1>2 DEF LockedOr, Goto, TypeOK
<1>8. /\ stmt'[u] = new /\ stmt' \in [Txns -> Statement \cup {NONE}]
      /\ \A t \in Txns : t # u => stmt'[t] = stmt[t]
  BY Zenon, <1>1, <1>4 DEF TypeOK
<1>9. StmtAt(u)' /\ LocksAt(u)'
  BY SMTT(30), <1>4, <1>6, <1>7, <1>8 DEF StmtAt, LocksAt, InInsert, AfterScan, Tab
<1> QED
  BY ZenonT(40), <1>1, <1>3, <1>6, <1>7, <1>8, <1>9, GoesOn DEF TypeOK, Unended

\* The lock of a delete on its table.
LEMMA DeleteLockMoves ==
  ASSUME LockTypeOK', TypeOK, NEW u \in Txns, Thread(u), DeleteLock(u)
  PROVE  Moves(u)
<1>1. PICK tab \in Tables :
        /\ pc[u] = "del_lock" /\ stmt[u] \in Statement /\ stmt[u].tab = tab
        /\ stmt[u].todo \subseteq stmt[u].rids
        /\ state[u] \in {"DEFAULT", "GROWING"} /\ Has(u, tab, "S")
  BY ZenonT(40) DEF DeleteLock, Thread, StmtAt, LocksAt, AfterScan, Statement, StateAt, Unended, Tab
<1>2. PICK res \in Results : lock_exclusive_on_table(u, tab, res) /\ LockedOr(u, res, "del_row")
  BY SMTT(30), <1>1 DEF DeleteLock, Tab
<1>3. Called(u) /\ (res = "true" => Has(u, tab, "X")')
  BY ZenonT(40), <1>1, <1>2, TableLockCalled DEF lock_exclusive_on_table, TypeOK, LockMode
<1>4. Has(u, tab, "S")'
  BY Zenon, <1>1, <1>3, CalledKeeps DEF TypeOK, LockMode
<1>5. /\ pc' = [pc EXCEPT ![u] = IF res = "true" THEN "del_row" ELSE "abort"]
      /\ UNCHANGED <<indexed, heap, index, write_set, stmt, left, count, seen>>
  BY ZenonT(40), <1>2 DEF DeleteLock, LockedOr, Goto, data
<1>6. pc'[u] = (IF res = "true" THEN "del_row" ELSE "abort")
  BY Zenon, <1>5 DEF TypeOK
<1>7. StmtAt(u)' /\ LocksAt(u)'
  <2>1. CASE res = "true"
    <3>1. pc'[u] = "del_row" /\ stmt'[u] = stmt[u] /\ Has(u, tab, "X")'
      BY Zenon, <1>3, <1>5, <1>6, <2>1
    <3> QED
      BY Zenon, <1>1, <1>4, <3>1 DEF StmtAt, LocksAt, InInsert, AfterScan, Tab
  <2>2. CASE res # "true"
    BY SMTT(30), <1>6, <2>2, AtRest
  <2> QED
    BY Zenon, <2>1, <2>2
<1> QED
  BY ZenonT(40), <1>1, <1>3, <1>5, <1>7, GoesOn DEF TypeOK, Unended

\* The lock of an update on one of its rows.
LEMMA UpdateLockMoves ==
  ASSUME LockTypeOK', TypeOK, NEW u \in Txns, Thread(u), UpdateLock(u)
  PROVE  Moves(u)
<1>1. PICK tab \in Tables :
        /\ pc[u] = "upd_lock" /\ stmt[u] \in Statement /\ stmt[u].tab = tab
        /\ stmt[u].todo \subseteq stmt[u].rids /\ stmt[u].todo \subseteq Rids
        /\ state[u] \in {"DEFAULT", "GROWING"} /\ Has(u, tab, "S")
  BY Zenon DEF UpdateLock, Thread, StmtAt, LocksAt, AfterScan, Statement, StateAt, Unended, Tab
<1>2. PICK rid \in stmt[u].todo, res \in Results :
        /\ lock_exclusive_on_record(u, tab, rid, res)
        /\ LockedOr(u, res, "upd_lock")
        /\ index' = IF Indexed(u) /\ res = "true"
                    THEN [index EXCEPT ![tab][heap[tab][rid].key] = TABLE] ELSE index
        /\ stmt' = IF res = "true" THEN [stmt EXCEPT ![u].todo = @ \ {rid}] ELSE stmt
  BY SMTT(30), <1>1 DEF UpdateLock, Tab
<1>3. Called(u) /\ (res = "true" => Has(u, tab, "IX")')
  BY Zenon, <1>1, <1>2, RecordLockCalled DEF TypeOK
<1>4. Has(u, tab, "S")'
  BY Zenon, <1>1, <1>3, CalledKeeps DEF TypeOK, LockMode
<1>5. /\ pc' = [pc EXCEPT ![u] = IF res = "true" THEN "upd_lock" ELSE "abort"]
      /\ pc'[u] = (IF res = "true" THEN "upd_lock" ELSE "abort")
      /\ UNCHANGED <<indexed, heap, write_set, left, count, seen>>
  BY Zenon, <1>2 DEF UpdateLock, LockedOr, Goto, TypeOK
<1>6. index' \in [Tables -> [Keys -> Rids \cup {TABLE}]]
  BY Zenon, <1>2, IndexEntry DEF TypeOK
<1>7. /\ stmt' \in [Txns -> Statement \cup {NONE}]
      /\ \A t \in Txns : t # u => stmt'[t] = stmt[t]
  BY Zenon, <1>1, <1>2, RowDone DEF TypeOK
<1>8. StmtAt(u)' /\ LocksAt(u)'
  <2>1. CASE res = "true"
    <3>1. /\ stmt'[u] \in Statement /\ stmt'[u].tab = tab
          /\ stmt'[u].todo \subseteq stmt'[u].rids
      <4>1. stmt' = [stmt EXCEPT ![u].todo = @ \ {rid}]
        BY Zenon, <1>2, <2>1
      <4>2. /\ stmt'[u] \in Statement /\ stmt'[u].todo = stmt[u].todo \ {rid}
            /\ stmt'[u].tab = stmt[u].tab /\ stmt'[u].rids = stmt[u].rids
        BY Zenon, <1>1, <4>1, RowDone
      <4> QED
        BY Zenon, <1>1, <4>2
    <3> QED
      BY <1>3, <1>4, <1>5, <2>1, <3>1 DEF StmtAt, LocksAt, InInsert, AfterScan, Tab
  <2>2. CASE res # "true"
    BY Zenon, <1>5, <2>2, AtRest
  <2> QED
    BY Zenon, <2>1, <2>2
<1> QED
  BY Zenon, <1>1, <1>3, <1>5, <1>6, <1>7, <1>8, GoesOn DEF TypeOK, Unended

\* What a scan sees is under its lock.
LEMMA ScanMoves ==
  ASSUME LockTypeOK', TypeOK, NEW u \in Txns, Thread(u), Scan(u)
  PROVE  Moves(u)
<1>1. PICK tab \in Tables :
        /\ pc[u] = "scan" /\ stmt[u] \in Statement /\ stmt[u].tab = tab /\ Has(u, tab, "S")
        /\ seen' = [seen EXCEPT ![u][tab] = heap[tab]]
        /\ UNCHANGED <<lockVars, indexed, heap, index, write_set, left, count>>
  BY Zenon DEF Scan, Thread, StmtAt, LocksAt, Statement, Tab, data
<1>2. /\ \A other \in Tables : other # tab => seen'[u][other] = seen[u][other]
      /\ \A t \in Txns : t # u => seen'[t] = seen[t]
      /\ seen' \in [Txns -> [Tables -> [Rids -> Cell] \cup {<<>>}]]
  BY Zenon, <1>1 DEF TypeOK
<1>3. \A other \in Tables, m \in LockMode : Has(u, other, m)' <=> Has(u, other, m)
  BY Zenon, <1>1 DEF Has, lockVars
<1>4. ASSUME Keeping(u)
      PROVE  ScanLocks(u)'
  BY Zenon, <1>1, <1>2, <1>3, <1>4 DEF Thread, ScanLocks, LockMode
<1>5. Keeping(u) /\ pc[u] \in Unended
  BY SMTT(30), <1>1 DEF Keeping, Unended
<1>6. CASE Return(u)
  <2>1. pc' = [pc EXCEPT ![u] = "idle"] /\ stmt' = [stmt EXCEPT ![u] = NONE] /\ pc'[u] = "idle"
    BY SMTT(30), <1>6 DEF Return, Goto, TypeOK
  <2> QED
    BY ZenonT(40), <1>1, <1>2, <1>4, <1>5, <2>1, AtRest, DropStatement, GoesOn DEF TypeOK, Unended
<1>7. ASSUME NEW rids \in SUBSET LiveRids(tab), NEW p \in {"del_lock", "upd_lock"},
             stmt' = [stmt EXCEPT ![u].rids = rids, ![u].todo = rids], Goto(u, p)
      PROVE  Moves(u)
  <2> DEFINE s == [stmt[u] EXCEPT !.rids = rids, !.todo = rids]
  <2>1. s \in Statement /\ s.todo = rids /\ s.rids = rids /\ s.tab = tab
    BY Zenon, <1>1 DEF Statement, LiveRids
  <2>2. stmt' = [stmt EXCEPT ![u] = s]
    BY Zenon, <1>7 DEF TypeOK
  <2> HIDE DEF s
  <2>3. /\ stmt' \in [Txns -> Statement \cup {NONE}] /\ stmt'[u] = s
        /\ \A t \in Txns : t # u => stmt'[t] = stmt[t]
    BY Zenon, <2>1, <2>2 DEF TypeOK
  <2>4. pc' = [pc EXCEPT ![u] = p] /\ pc'[u] = p
    BY SMTT(30), <1>7 DEF Goto, TypeOK
  <2>5. StmtAt(u)' /\ LocksAt(u)'
    BY SMTT(30), <1>1, <1>3, <2>1, <2>3, <2>4 DEF StmtAt, LocksAt, InInsert, AfterScan, Tab, LockMode
  <2> QED
    BY Zenon, <1>1, <1>2, <1>4, <1>5, <2>3, <2>4, <2>5, GoesOn DEF TypeOK, Unended
<1> QED
  BY Zenon, <1>1, <1>6, <1>7 DEF Scan, Tab

\* The last row of a delete or an update.
LEMMA LoopDoneMoves ==
  ASSUME LockTypeOK', TypeOK, NEW u \in Txns, Thread(u), LoopDone(u)
  PROVE  Moves(u)
<1>1. /\ pc[u] \in Unended
      /\ pc' = [pc EXCEPT ![u] = "idle"] /\ stmt' = [stmt EXCEPT ![u] = NONE] /\ pc'[u] = "idle"
      /\ UNCHANGED <<lockVars, indexed, heap, index, write_set, left, count, seen>>
  BY SMTT(30) DEF LoopDone, Return, Goto, TypeOK, Unended, data
<1> QED
  BY ZenonT(40), <1>1, AtRest, DropStatement, GoesOn DEF TypeOK, Unended

\* The client goes away.
LEMMA DisconnectMoves ==
  ASSUME LockTypeOK', TypeOK, NEW u \in Txns, Thread(u), Disconnect(u)
  PROVE  Moves(u)
<1>1. /\ pc[u] \in Unended /\ pc' = [pc EXCEPT ![u] = "gone"] /\ pc'[u] = "gone"
      /\ UNCHANGED <<lockVars, indexed, heap, index, write_set, stmt, left, count, seen>>
  BY SMTT(30) DEF Disconnect, Goto, TypeOK, Unended, data
<1> QED
  BY ZenonT(40), <1>1, AtRest, GoesOn DEF TypeOK, Unended

\* The log is full, and the write is not made.
LEMMA LogFullMoves ==
  ASSUME LockTypeOK', TypeOK, NEW u \in Txns, Thread(u), LogFull(u)
  PROVE  Moves(u)
<1>1. /\ pc[u] \in Unended /\ pc' = [pc EXCEPT ![u] = "full"] /\ pc'[u] = "full"
      /\ UNCHANGED <<lockVars, indexed, heap, index, write_set, stmt, left, count, seen>>
  <2>1. pc[u] \in {"ins_heap", "del_row", "upd_row"} /\ Goto(u, "full")
    BY Zenon DEF LogFull
  <2>2. UNCHANGED <<lockVars, indexed, heap, index, write_set, stmt, left, count, seen>>
    BY Zenon DEF LogFull, data
  <2> QED
    BY Zenon, <2>1, <2>2 DEF Goto, TypeOK, Unended
<1> QED
  BY ZenonT(40), <1>1, AtRest, GoesOn DEF TypeOK, Unended

\* The new keys of an update go into the index, or its old ones come back.
LEMMA UpdateIndexMoves ==
  ASSUME LockTypeOK', TypeOK, NEW u \in Txns, Thread(u), UpdateIndex(u)
  PROVE  Moves(u)
<1> DEFINE tab == stmt[u].tab
           rids == stmt[u].rids
<1>1. /\ pc[u] = "upd_lock" /\ stmt[u] \in Statement /\ tab \in Tables /\ rids \in SUBSET Rids
      /\ stmt[u].todo = {} /\ Has(u, tab, "S") /\ (rids # {} => Has(u, tab, "IX"))
      /\ UNCHANGED <<lockVars, indexed, heap, write_set, left, count, seen>>
  BY ZenonT(40) DEF UpdateIndex, Thread, StmtAt, LocksAt, AfterScan, Statement, Tab
<1> DEFINE Key(r) == heap[tab][r].key
<1>2. PICK set \in SetClauses :
        LET new == [r \in rids |-> set[Key(r)]]
        IN /\ \A r \in rids : Key(r) \in DOMAIN set
           /\ \/ /\ \/ index' = index
                    \/ index' = [index EXCEPT ![tab] = [k \in Keys |->
                                   IF \E r \in rids : new[r] = k
                                   THEN CHOOSE r \in rids : new[r] = k ELSE @[k]]]
                 /\ stmt' = [stmt EXCEPT ![u].todo = rids, ![u].new = new]
                 /\ Goto(u, "upd_row")
              \/ /\ \E back \in SUBSET rids :
                      index' = [index EXCEPT ![tab] = [k \in Keys |->
                                  IF \E r \in back : Key(r) = k
                                  THEN CHOOSE r \in back : Key(r) = k ELSE @[k]]]
                 /\ Return(u)
  BY Zenon DEF UpdateIndex, Tab
<1> HIDE DEF tab, rids
<1>3. \A other \in Tables, m \in LockMode : Has(u, other, m)' <=> Has(u, other, m)
  BY SMTT(30), <1>1 DEF Has, lockVars
<1>4. ASSUME NEW g \in [Keys -> Rids \cup {TABLE}], index' = [index EXCEPT ![tab] = g]
      PROVE  index' \in [Tables -> [Keys -> Rids \cup {TABLE}]]
  BY ZenonT(40), <1>4 DEF TypeOK
<1> DEFINE new == [r \in rids |-> set[Key(r)]]
<1>5. new \in [rids -> Keys]
  <2>1. PICK ks \in SUBSET Keys : set \in [ks -> Keys]
    BY Zenon, SetClausesMapKeys
  <2>2. \A r \in rids : set[Key(r)] \in Keys
    BY Zenon, <1>2, <2>1
  <2> QED
    BY Zenon, <2>2
<1>6. CASE /\ \/ index' = index
              \/ index' = [index EXCEPT ![tab] = [k \in Keys |->
                             IF \E r \in rids : new[r] = k
                             THEN CHOOSE r \in rids : new[r] = k ELSE @[k]]]
           /\ stmt' = [stmt EXCEPT ![u].todo = rids, ![u].new = new]
           /\ Goto(u, "upd_row")
  <2> HIDE DEF new
  <2> DEFINE e(k) == IF \E r \in rids : new[r] = k
                     THEN CHOOSE r \in rids : new[r] = k ELSE index[tab][k]
             g == [k \in Keys |-> e(k)]
  <2>1. index' = index \/ index' = [index EXCEPT ![tab] = g]
    BY Zenon, <1>6
  <2>2. g \in [Keys -> Rids \cup {TABLE}]
    <3>1. \A k \in Keys : (\E r \in rids : new[r] = k) => (CHOOSE r \in rids : new[r] = k) \in rids
      BY SMTT(30)
    <3>2. \A k \in Keys : index[tab][k] \in Rids \cup {TABLE}
      BY <1>1 DEF TypeOK
    <3>3. ASSUME NEW k \in Keys PROVE e(k) \in Rids \cup {TABLE}
      <4>1. CASE \E r \in rids : new[r] = k
        <5>1. e(k) = CHOOSE r \in rids : new[r] = k
          BY Zenon, <4>1
        <5> QED
          BY Zenon, <1>1, <3>1, <4>1, <5>1
      <4>2. CASE ~\E r \in rids : new[r] = k
        BY Zenon, <3>2, <4>2
      <4> QED
        BY Zenon, <4>1, <4>2
    <3> HIDE DEF e
    <3> QED
      BY Zenon, <3>3
  <2> HIDE DEF g
  <2>3. index' \in [Tables -> [Keys -> Rids \cup {TABLE}]]
    BY Zenon, <1>4, <2>1, <2>2 DEF TypeOK
  <2> DEFINE s == [stmt[u] EXCEPT !.todo = rids, !.new = new]
  <2>4. s \in Statement /\ s.todo = rids /\ s.rids = rids /\ s.tab = tab /\ s.new = new
    <3>1. new \in UNION {[rs -> Keys] : rs \in SUBSET Rids}
      BY Zenon, <1>1, <1>5
    <3> QED
      BY Zenon, <1>1, <3>1 DEF Statement, tab, rids
  <2>5. stmt' = [stmt EXCEPT ![u] = s]
    BY ZenonT(40), <1>6 DEF TypeOK
  <2> HIDE DEF s
  <2>6. /\ stmt' \in [Txns -> Statement \cup {NONE}] /\ stmt'[u] = s
        /\ \A t \in Txns : t # u => stmt'[t] = stmt[t]
    BY Zenon, <2>4, <2>5 DEF TypeOK
  <2>7. pc' = [pc EXCEPT ![u] = "upd_row"] /\ pc'[u] = "upd_row"
    BY Zenon, <1>6 DEF Goto, TypeOK
  <2>8. StmtAt(u)' /\ LocksAt(u)'
    <3>1. PICK c \in Tables : c = tab /\ stmt'[u].tab = c
      BY SMTT(30), <1>1, <2>4, <2>6
    <3>2. Has(u, c, "S")' /\ (rids # {} => Has(u, c, "IX")')
      BY Zenon, <1>1, <1>3, <3>1 DEF LockMode
    <3>3. stmt'[u].rids = rids /\ stmt'[u].todo = rids /\ stmt'[u].new = new /\ stmt'[u] \in Statement
      BY SMTT(30), <2>4, <2>6
    <3> QED
      BY <1>5, <2>7, <3>1, <3>2, <3>3 DEF StmtAt, LocksAt, InInsert, AfterScan, Tab
  <2> QED
    BY Zenon, <1>1, <2>3, <2>6, <2>7, <2>8, GoesOn DEF TypeOK, Unended
<1>7. ASSUME NEW back \in SUBSET rids,
             index' = [index EXCEPT ![tab] = [k \in Keys |->
                         IF \E r \in back : Key(r) = k
                         THEN CHOOSE r \in back : Key(r) = k ELSE @[k]]],
             Return(u)
      PROVE  Moves(u)
  <2> DEFINE e(k) == IF \E r \in back : Key(r) = k
                     THEN CHOOSE r \in back : Key(r) = k ELSE index[tab][k]
             g == [k \in Keys |-> e(k)]
  <2>1. index' = [index EXCEPT ![tab] = g]
    BY Zenon, <1>7
  <2>2. g \in [Keys -> Rids \cup {TABLE}]
    <3>1. \A k \in Keys : (\E r \in back : Key(r) = k) => (CHOOSE r \in back : Key(r) = k) \in back
      BY SMTT(30)
    <3>2. \A k \in Keys : index[tab][k] \in Rids \cup {TABLE}
      BY SMTT(30), <1>1 DEF TypeOK
    <3>3. ASSUME NEW k \in Keys PROVE e(k) \in Rids \cup {TABLE}
      <4>1. CASE \E r \in back : Key(r) = k
        <5>1. e(k) = CHOOSE r \in back : Key(r) = k
          BY Zenon, <4>1
        <5> QED
          BY Zenon, <1>1, <3>1, <4>1, <5>1
      <4>2. CASE ~\E r \in back : Key(r) = k
        BY Zenon, <3>2, <4>2
      <4> QED
        BY Zenon, <4>1, <4>2
    <3> HIDE DEF e
    <3> QED
      BY Zenon, <3>3
  <2> HIDE DEF g
  <2>3. index' \in [Tables -> [Keys -> Rids \cup {TABLE}]]
    BY ZenonT(40), <1>4, <2>1, <2>2
  <2>4. pc' = [pc EXCEPT ![u] = "idle"] /\ stmt' = [stmt EXCEPT ![u] = NONE] /\ pc'[u] = "idle"
    BY Zenon, <1>7 DEF Return, Goto, TypeOK
  <2> QED
    BY Zenon, <1>1, <2>3, <2>4, AtRest, DropStatement, GoesOn DEF TypeOK, Unended
<1> QED
  BY ZenonT(40), <1>2, <1>6, <1>7

-----------------------------------------------------------------------------
(* The end of a transaction *)

\* A step of a thread that has ended its transaction and releases its locks, or
\* has released them: the queues lose at most requests of its own.
LEMMA Ending ==
  ASSUME LockTypeOK', TypeOK, NEW u \in Txns, Thread(u),
         NEW p \in {"release", "done", "end_full"}, pc' = [pc EXCEPT ![u] = p],
         NEW w \in Seq(WriteRecord), write_set' = [write_set EXCEPT ![u] = w],
         w \in {write_set[u], <<>>},
         p \in {"done", "end_full"} \/ state'[u] = "ABORTED" => w = <<>>,
         \A t \in Txns : t # u => /\ state'[t] = state[t] /\ lock_set'[t] = lock_set[t]
                                  /\ left'[t] = left[t],
         \A id \in LockDataId : lock_table'[id] \subseteq lock_table[id],
         \A id \in LockDataId : \A r \in lock_table[id] : r \in lock_table'[id] \/ r.txn = u,
         UNCHANGED <<indexed, heap, index, stmt, count, seen>>,
         left' \in [Txns -> SUBSET LockDataId], left'[u] \subseteq lock_set'[u],
         state'[u] \in {"COMMITTED", "ABORTED"},
         state[u] = "COMMITTED" => state'[u] = "COMMITTED", ~Halted(u),
         p = "release" => \A id \in LockDataId : Holds(u, id)' => id \in left'[u]
  PROVE  Moves(u)
<1>1. pc'[u] = p /\ pc' \in [Txns -> Points] /\ \A t \in Txns : t # u => pc'[t] = pc[t]
  BY SMTT(30) DEF TypeOK, Points
<1>2. /\ write_set'[u] = w /\ write_set' \in [Txns -> Seq(WriteRecord)]
      /\ \A t \in Txns : t # u => write_set'[t] = write_set[t]
  BY SMTT(30) DEF TypeOK
<1>3. Others(u)
  BY SMTT(30), <1>1, <1>2 DEF Others
<1>4. TypeOK'
  BY Zenon, <1>1, <1>2 DEF TypeOK
<1>5. ~Keeping(u)'
  BY Zenon, <1>1 DEF Keeping
<1>6. WriteLocks(u)' /\ ScanLocks(u)'
  BY Zenon, <1>5 DEF WriteLocks, ScanLocks
<1>7. OldOwn(u)'
  <2>1. CASE w = write_set[u]
    BY ZenonT(40), <1>2, <1>5, <2>1, QuietKeeps
  <2>2. CASE w = <<>>
    <3>1. \A i \in Nat, tab \in Tables, rid \in Rids : ~Wrote(u, i, tab, rid)'
      BY <1>2, <2>2, EmptySequence DEF Wrote
    <3> QED
      BY Zenon, <3>1 DEF OldOwn
  <2> QED
    BY SMTT(30), <2>1, <2>2
<1>8. StateAt(u)' /\ LeftCovers(u)' /\ EndedClean(u)'
  BY SMTT(30), <1>1, <1>2 DEF StateAt, LeftCovers, EndedClean, Unended
<1>9. StmtAt(u)' /\ LocksAt(u)'
  BY SMTT(30), <1>1 DEF StmtAt, LocksAt, InInsert, AfterScan
<1> QED
  BY <1>3, <1>4, <1>5, <1>6, <1>7, <1>8, <1>9 DEF Moves, Thread, Onward

\* Commit sets the final state and begins to release the locks.
LEMMA CommitMoves ==
  ASSUME LockTypeOK', TypeOK, NoOrphanRequest, NEW u \in Txns, Thread(u), Commit(u)
  PROVE  Moves(u)
<1>1. /\ pc[u] = "idle"
      /\ state' = [state EXCEPT ![u] = "COMMITTED"] /\ left' = [left EXCEPT ![u] = lock_set[u]]
      /\ pc' = [pc EXCEPT ![u] = "release"]
      /\ UNCHANGED <<lock_set, lock_table, indexed, heap, index, write_set, stmt, count, seen>>
  BY Zenon DEF Commit, End, Goto, data
<1>2. write_set' = [write_set EXCEPT ![u] = write_set[u]] /\ write_set[u] \in Seq(WriteRecord)
  BY Zenon, <1>1 DEF TypeOK
<1>3. /\ state'[u] = "COMMITTED" /\ left'[u] = lock_set[u] /\ left' \in [Txns -> SUBSET LockDataId]
      /\ \A t \in Txns : t # u => state'[t] = state[t] /\ left'[t] = left[t]
  BY Zenon, <1>1 DEF TypeOK, LockTypeOK
<1>4. \A id \in LockDataId : Holds(u, id)' => id \in left'[u]
  BY SMTT(30), <1>1, <1>3 DEF Holds, NoOrphanRequest
<1> QED
  BY ZenonT(40), <1>1, <1>2, <1>3, <1>4, Ending DEF Halted

\* The writes are undone, and the locks are to be released.
LEMMA UndoDoneMoves ==
  ASSUME LockTypeOK', TypeOK, NoOrphanRequest, NEW u \in Txns, Thread(u), UndoDone(u)
  PROVE  Moves(u)
<1>1. /\ pc[u] = "undo" /\ write_set[u] = <<>> /\ state[u] = "ABORTED"
      /\ left' = [left EXCEPT ![u] = lock_set[u]]
      /\ pc' = [pc EXCEPT ![u] = "release"]
      /\ UNCHANGED <<state, lock_set, lock_table, indexed, heap, index, write_set, stmt, count, seen>>
  BY Zenon DEF UndoDone, Goto, data, lockVars, Thread, StateAt
<1>2. write_set' = [write_set EXCEPT ![u] = write_set[u]] /\ write_set[u] \in Seq(WriteRecord)
  BY Zenon, <1>1 DEF TypeOK
<1>3. /\ left'[u] = lock_set[u] /\ left' \in [Txns -> SUBSET LockDataId]
      /\ \A t \in Txns : t # u => left'[t] = left[t]
  BY Zenon, <1>1 DEF TypeOK, LockTypeOK
<1>4. \A id \in LockDataId : Holds(u, id)' => id \in left'[u]
  BY SMTT(30), <1>1, <1>3 DEF Holds, NoOrphanRequest
<1> QED
  BY ZenonT(40), <1>1, <1>2, <1>3, <1>4, Ending DEF Halted

\* One lock is released.
LEMMA ReleaseMoves ==
  ASSUME LockTypeOK', TypeOK, NEW u \in Txns, Thread(u), Release(u)
  PROVE  Moves(u)
<1>1. PICK id \in left[u] : unlock(u, id) /\ left' = [left EXCEPT ![u] = @ \ {id}]
  BY Zenon DEF Release
<1>2. /\ pc[u] = "release" /\ state[u] \in {"COMMITTED", "ABORTED"} /\ id \in LockDataId
      /\ lock_table' = [lock_table EXCEPT ![id] = {r \in @ : r.txn # u}]
      /\ UNCHANGED <<lock_set, indexed, heap, index, write_set, pc, stmt, count, seen>>
  BY ZenonT(40), <1>1 DEF Release, unlock, Thread, StateAt, TypeOK, data
<1>3. UNCHANGED state
  BY ZenonT(40), <1>1, <1>2 DEF unlock, TypeOK, LockTypeOK
<1>4. /\ write_set' = [write_set EXCEPT ![u] = write_set[u]] /\ write_set[u] \in Seq(WriteRecord)
      /\ pc' = [pc EXCEPT ![u] = "release"]
  BY SMTT(30), <1>2 DEF TypeOK
<1>5. /\ left'[u] = left[u] \ {id} /\ left' \in [Txns -> SUBSET LockDataId]
      /\ \A t \in Txns : t # u => left'[t] = left[t]
      /\ left'[u] \subseteq lock_set'[u]
  BY Zenon, <1>1, <1>2 DEF TypeOK
<1>6. \A i \in LockDataId :
        lock_table'[i] = IF i = id THEN {r \in lock_table[i] : r.txn # u} ELSE lock_table[i]
  BY Zenon, <1>2 DEF TypeOK, LockTypeOK
<1>7. \A i \in LockDataId : Holds(u, i)' => i \in left'[u]
  <2>1. \A i \in LockDataId : Holds(u, i)' => i # id /\ Holds(u, i)
    BY Zenon, <1>6 DEF Holds
  <2>2. \A i \in LockDataId : Holds(u, i) => i \in left[u]
    BY Zenon, <1>2 DEF Thread, LeftCovers
  <2> QED
    BY Zenon, <1>5, <2>1, <2>2
<1>8. state'[u] = "ABORTED" => write_set[u] = <<>>
  BY Zenon, <1>2, <1>3 DEF Thread, EndedClean
<1>9. /\ \A i \in LockDataId : lock_table'[i] \subseteq lock_table[i]
      /\ \A i \in LockDataId : \A r \in lock_table[i] : r \in lock_table'[i] \/ r.txn = u
  BY ZenonT(40), <1>6
<1>10. /\ UNCHANGED <<indexed, heap, index, stmt, count, seen>>
       /\ state'[u] \in {"COMMITTED", "ABORTED"} /\ state'[u] = state[u] /\ ~Halted(u)
       /\ \A t \in Txns : t # u => /\ state'[t] = state[t] /\ lock_set'[t] = lock_set[t]
                                 /\ left'[t] = left[t]
  BY Zenon, <1>2, <1>3, <1>5 DEF Halted
<1> QED
  BY Zenon, <1>4, <1>5, <1>7, <1>8, <1>9, <1>10, Ending

\* All locks are released, and the sets are emptied.
LEMMA ReleasedMoves ==
  ASSUME LockTypeOK', TypeOK, NEW u \in Txns, Thread(u), Released(u)
  PROVE  Moves(u)
<1>1. /\ pc[u] = "release" /\ state[u] \in {"COMMITTED", "ABORTED"} /\ left[u] = {}
      /\ lock_set' = [lock_set EXCEPT ![u] = {}] /\ write_set' = [write_set EXCEPT ![u] = <<>>]
      /\ UNCHANGED <<state, lock_table, indexed, heap, index, stmt, left, count, seen>>
  BY Zenon DEF Released, Thread, StateAt
<1>2. <<>> \in Seq(WriteRecord)
  BY SMTT(30), EmptySequence
<1>3. /\ left' \in [Txns -> SUBSET LockDataId] /\ left'[u] \subseteq lock_set'[u]
      /\ \A t \in Txns : t # u => lock_set'[t] = lock_set[t]
  BY ZenonT(40), <1>1 DEF TypeOK, LockTypeOK
<1>4. PICK p \in {"done", "end_full"} : pc' = [pc EXCEPT ![u] = p]
  BY Zenon DEF Released, Logs, Goto
<1>5. p \in {"release", "done", "end_full"} /\ p # "release" /\ ~Halted(u)
  BY Zenon, <1>1 DEF Halted
<1> QED
  BY Zenon, <1>1, <1>2, <1>3, <1>4, <1>5, Ending

\* An implicit transaction is committed once more.
LEMMA CommitAgainMoves ==
  ASSUME LockTypeOK', TypeOK, NEW u \in Txns, Thread(u), CommitAgain(u)
  PROVE  Moves(u)
<1>1. /\ pc[u] = "done" /\ state' = [state EXCEPT ![u] = "COMMITTED"]
      /\ UNCHANGED <<lock_set, lock_table, indexed, heap, index, write_set, stmt, left, count, seen>>
  BY Zenon DEF CommitAgain, End, data
<1>2. write_set' = [write_set EXCEPT ![u] = <<>>] /\ <<>> \in Seq(WriteRecord)
  BY Zenon, <1>1, EmptySequence DEF TypeOK, Thread, EndedClean
<1>3. /\ state'[u] = "COMMITTED" /\ \A t \in Txns : t # u => state'[t] = state[t]
      /\ left' \in [Txns -> SUBSET LockDataId] /\ left'[u] \subseteq lock_set'[u]
  BY Zenon, <1>1 DEF TypeOK, LockTypeOK
<1>4. PICK p \in {"done", "end_full"} : pc' = [pc EXCEPT ![u] = p]
  BY Zenon DEF CommitAgain, Logs, Goto
<1>5. p \in {"release", "done", "end_full"} /\ p # "release" /\ ~Halted(u)
  BY Zenon, <1>1 DEF Halted
<1> QED
  BY ZenonT(40), <1>1, <1>2, <1>3, <1>4, <1>5, Ending

\* Abort sets the final state; locks and writes stay.
LEMMA AbortMoves ==
  ASSUME LockTypeOK', TypeOK, NEW u \in Txns, Thread(u), Abort(u)
  PROVE  Moves(u)
<1>1. /\ pc[u] \in {"idle", "abort"} /\ state' = [state EXCEPT ![u] = "ABORTED"]
      /\ pc' = [pc EXCEPT ![u] = "undo"] /\ stmt' = [stmt EXCEPT ![u] = NONE]
      /\ UNCHANGED <<lock_set, lock_table, indexed, heap, index, write_set, left, count, seen>>
  BY SMTT(30) DEF Abort, End, Goto, data
<1>2. /\ pc'[u] = "undo" /\ pc' \in [Txns -> Points] /\ state'[u] = "ABORTED"
      /\ stmt' \in [Txns -> Statement \cup {NONE}]
      /\ \A t \in Txns : t # u => pc'[t] = pc[t] /\ stmt'[t] = stmt[t] /\ state'[t] = state[t]
  BY SMTT(30), <1>1 DEF TypeOK, LockTypeOK, Points
<1>3. Others(u)
  BY SMTT(30), <1>1, <1>2 DEF Others
<1>4. TypeOK'
  BY SMTT(30), <1>1, <1>2 DEF TypeOK
<1>5. WriteLocks(u)' /\ OldOwn(u)' /\ ScanLocks(u)'
  BY ZenonT(40), <1>1, QuietKeeps DEF Keeping, Has
<1>6. StateAt(u)' /\ LeftCovers(u)' /\ EndedClean(u)'
  BY SMTT(30), <1>1, <1>2 DEF Thread, StateAt, LeftCovers, EndedClean, Unended
<1>7. StmtAt(u)' /\ LocksAt(u)'
  BY SMTT(30), <1>2 DEF StmtAt, LocksAt, InInsert, AfterScan
<1>8. Onward(u) /\ ~Halted(u)
  BY Zenon, <1>1, <1>2 DEF Halted, Onward, Has, Thread, StateAt, Unended
<1> QED
  BY Zenon, <1>3, <1>4, <1>5, <1>6, <1>7, <1>8 DEF Moves, Thread

\* The undo of a row waits for ever: locks, rows and writes stay.
LEMMA UndoWaitsMoves ==
  ASSUME LockTypeOK', TypeOK, NEW u \in Txns, Thread(u), UndoWaits(u)
  PROVE  Moves(u)
<1> DEFINE w == write_set[u][Len(write_set[u])]
           gone == [index[w.tab] EXCEPT ![heap[w.tab][w.rid].key] = TABLE]
<1>1. /\ pc[u] = "undo" /\ write_set[u] # <<>> /\ state[u] = "ABORTED"
      /\ pc' = [pc EXCEPT ![u] = "waits"]
      /\ UNCHANGED <<lockVars, indexed, heap, write_set, stmt, left, count, seen>>
      /\ \/ index' = index
         \/ index' = [index EXCEPT ![w.tab][w.old.key] = w.rid]
         \/ index' = [index EXCEPT ![w.tab] = gone]
  BY Zenon DEF UndoWaits, Goto, Thread, StateAt
<1>2. w.tab \in Tables /\ w.rid \in Rids
  <2>1. write_set[u] \in Seq(WriteRecord) /\ Len(write_set[u]) \in Nat \ {0}
    BY Zenon, <1>1, SequenceElement DEF TypeOK
  <2>2. Len(write_set[u]) \in 1 .. Len(write_set[u])
    BY <2>1
  <2> QED
    BY Zenon, <2>2, WriteSetTypes
<1> HIDE DEF w
<1>3. index' \in [Tables -> [Keys -> Rids \cup {TABLE}]]
  <2>1. gone \in [Keys -> Rids \cup {TABLE}]
    BY Zenon, <1>2 DEF TypeOK
  <2>2. [index[w.tab] EXCEPT ![w.old.key] = w.rid] \in [Keys -> Rids \cup {TABLE}]
    BY Zenon, <1>2 DEF TypeOK
  <2> HIDE DEF gone
  <2>3. CASE index' = [index EXCEPT ![w.tab][w.old.key] = w.rid]
    BY Zenon, <1>2, <2>2, <2>3 DEF TypeOK
  <2>4. CASE index' = [index EXCEPT ![w.tab] = gone]
    BY Zenon, <1>2, <2>1, <2>4 DEF TypeOK
  <2> QED
    BY Zenon, <1>1, <2>3, <2>4 DEF TypeOK
<1>4. pc'[u] = "waits" /\ pc' \in [Txns -> Points] /\ \A t \in Txns : t # u => pc'[t] = pc[t]
  BY SMTT(30), <1>1 DEF TypeOK, Points
<1>5. Others(u)
  BY SMTT(30), <1>1, <1>4 DEF Others, lockVars
<1>6. TypeOK'
  BY Zenon, <1>1, <1>3, <1>4 DEF TypeOK, lockVars
<1>7. WriteLocks(u)' /\ OldOwn(u)' /\ ScanLocks(u)'
  BY ZenonT(40), <1>1, QuietKeeps DEF Keeping, Has, lockVars
<1>8. StateAt(u)' /\ LeftCovers(u)' /\ EndedClean(u)'
  BY SMTT(30), <1>1, <1>4 DEF Thread, StateAt, LeftCovers, EndedClean, Unended, lockVars
<1>9. StmtAt(u)' /\ LocksAt(u)'
  BY SMTT(30), <1>4 DEF StmtAt, LocksAt, InInsert, AfterScan
<1>10. Onward(u) /\ ~Halted(u)
  BY Zenon, <1>1 DEF Halted, Onward, Has, lockVars
<1> QED
  BY Zenon, <1>5, <1>6, <1>7, <1>8, <1>9, <1>10 DEF Moves, Thread

-----------------------------------------------------------------------------
(* The program and the lock manager *)

\* Every step is a step that the lock manager allows its clients: locks are
\* asked for before the end, released by the ids of lock_set_, and lock_set_ is
\* cleared when nothing is held.
LEMMA LockStep ==
  ASSUME TypeOK, \A t \in Txns : Thread(t), [Next]_vars
  PROVE  [LockNext]_lockVars
<1>1. ASSUME NEW t \in Txns, Work(t) \/ Client(t)
      PROVE  [LockNext]_lockVars
  <2> Thread(t)
    BY Zenon
  <2>1. CASE InsertLock(t)
    <3>1. state[t] \in {"DEFAULT", "GROWING"} /\ Tab(t) \in Tables
      BY Zenon, <2>1 DEF InsertLock, Thread, StateAt, Unended, StmtAt, InInsert, Statement, Tab
    <3>2. Request(t)
      BY Zenon, <2>1, <3>1 DEF InsertLock, Request, Lock, Ended
    <3> QED
      BY Zenon, <3>2 DEF LockNext
  <2>2. CASE InsertRecordLock(t)
    <3>1. state[t] \in {"DEFAULT", "GROWING"} /\ Tab(t) \in Tables /\ stmt[t].rid \in Rids
      BY Zenon, <2>2 DEF InsertRecordLock, Thread, StateAt, Unended, StmtAt, InInsert, Statement, Tab
    <3>2. Request(t)
      BY Zenon, <2>2, <3>1 DEF InsertRecordLock, Request, Lock, Ended
    <3> QED
      BY Zenon, <3>2 DEF LockNext
  <2>3. CASE \E tab \in Tables, op \in Ops \ {"insert"} : StartScan(t, op, tab)
    <3>1. state[t] \in {"DEFAULT", "GROWING"}
      BY Zenon, <2>3 DEF StartScan, Start, Thread, StateAt, Unended
    <3>2. Request(t)
      BY Zenon, <2>3, <3>1 DEF StartScan, Request, Lock, Ended
    <3> QED
      BY Zenon, <3>2 DEF LockNext
  <2>4. CASE DeleteLock(t)
    <3>1. state[t] \in {"DEFAULT", "GROWING"} /\ Tab(t) \in Tables
      BY Zenon, <2>4 DEF DeleteLock, Thread, StateAt, Unended, StmtAt, AfterScan, Statement, Tab
    <3>2. Request(t)
      BY SMTT(30), <2>4, <3>1 DEF DeleteLock, Request, Lock, Ended
    <3> QED
      BY Zenon, <3>2 DEF LockNext
  <2>5. CASE UpdateLock(t)
    <3>1. state[t] \in {"DEFAULT", "GROWING"} /\ Tab(t) \in Tables /\ stmt[t].todo \subseteq Rids
      BY Zenon, <2>5 DEF UpdateLock, Thread, StateAt, Unended, StmtAt, AfterScan, Statement, Tab
    <3>2. Request(t)
      BY Zenon, <2>5, <3>1 DEF UpdateLock, Request, Lock, Ended
    <3> QED
      BY Zenon, <3>2 DEF LockNext
  <2>6. CASE Commit(t) \/ CommitAgain(t)
    BY Zenon, <2>6 DEF Commit, CommitAgain, LockNext
  <2>7. CASE Abort(t)
    BY Zenon, <2>7 DEF Abort, LockNext
  <2>8. CASE Release(t)
    <3>1. Unlock(t)
      BY Zenon, <2>8 DEF Release, Unlock, Thread, LeftCovers
    <3> QED
      BY Zenon, <3>1 DEF LockNext
  <2>9. CASE Released(t)
    <3>1. ClearLockSet(t)
      BY Zenon, <2>9 DEF Released, ClearLockSet, Thread, LeftCovers, StateAt, Ended
    <3> QED
      BY Zenon, <3>1 DEF LockNext
  <2>10. CASE UNCHANGED lockVars
    BY Zenon, <2>10
  <2> QED
    BY ZenonT(40), <1>1, <2>1, <2>2, <2>3, <2>4, <2>5, <2>6, <2>7, <2>8, <2>9, <2>10
       DEF Work, Client, StartInsert, InsertRecord, InsertIndexEntry, Scan, DeleteRow,
           UpdateIndex, UpdateRow, LoopDone, LogFull, Undo, UndoWaits, UndoDone, Disconnect
<1>2. CASE UNCHANGED vars
  BY Zenon, <1>2 DEF vars
<1> QED
  BY SMTT(30), <1>1, <1>2 DEF Next

-----------------------------------------------------------------------------
(* The invariant *)

\* At the start no lock is held, nothing is written and nothing was seen.
LEMMA InitInv == Init => Inv
<1> SUFFICES ASSUME Init
             PROVE  Inv
  BY Zenon
<1>1. LockInv
  BY Zenon, LockInitInv DEF Init
<1>2. /\ indexed \in SUBSET Tables
      /\ heap \in [Tables -> [Rids -> [key : Keys \cup {NONE}, by : {NONE}]]]
      /\ write_set = [t \in Txns |-> <<>>] /\ pc = [t \in Txns |-> "idle"]
      /\ stmt = [t \in Txns |-> NONE] /\ left = [t \in Txns |-> {}]
      /\ count = [t \in Txns |-> 0] /\ seen = [t \in Txns |-> [tab \in Tables |-> <<>>]]
      /\ state = [t \in Txns |-> "DEFAULT"] /\ lock_set = [t \in Txns |-> {}]
  BY Zenon DEF Init, LockInit
<1>3. /\ heap \in [Tables -> [Rids -> Cell]]
      /\ \A tab \in Tables, rid \in Rids : heap[tab][rid].by = NONE
  BY <1>2 DEF Cell
<1>4. index \in [Tables -> [Keys -> Rids \cup {TABLE}]]
  <2>1. ASSUME NEW tab \in Tables
        PROVE  IndexOf(heap[tab]) \in [Keys -> Rids \cup {TABLE}]
    <3>1. \A k \in Keys : (\E rid \in Rids : heap[tab][rid].key = k) =>
                            (CHOOSE rid \in Rids : heap[tab][rid].key = k) \in Rids
      BY Zenon
    <3> QED
      BY Zenon, <3>1 DEF IndexOf
  <2>2. index = [tab \in Tables |-> IF tab \in indexed THEN IndexOf(heap[tab])
                                                       ELSE [k \in Keys |-> TABLE]]
    BY Zenon DEF Init
  <2> QED
    BY Zenon, <2>1, <2>2
<1>5. TypeOK
  <2>1. write_set \in [Txns -> Seq(WriteRecord)]
    BY Zenon, <1>2, EmptySequence
  <2>2. 0 \in 0 .. MaxStmts
    BY MaxStmtsIsNat
  <2> QED
    BY SMTT(30), <1>1, <1>2, <1>3, <1>4, <2>1, <2>2 DEF TypeOK, LockInv, Points
<1>6. \A t \in Txns : Len(write_set[t]) = 0 /\ write_set[t] = <<>>
  BY Zenon, <1>2, EmptySequence
<1>7. ASSUME NEW t \in Txns
      PROVE  Thread(t)
  <2>1. StateAt(t) /\ LeftCovers(t) /\ StmtAt(t) /\ LocksAt(t) /\ ScanLocks(t) /\ EndedClean(t)
    BY Zenon, <1>2 DEF StateAt, LeftCovers, StmtAt, LocksAt, ScanLocks, EndedClean, InInsert, AfterScan, Unended
  <2>2. WriteLocks(t) /\ OldOwn(t)
    BY Zenon, <1>6, NoWrites DEF WriteLocks, OldOwn
  <2> QED
    BY Zenon, <2>1, <2>2 DEF Thread
<1>8. RowInv
  <2>1. DirtyListed /\ DirtyLive
    BY Zenon, <1>3, NoneIsNew DEF DirtyListed, DirtyLive, Dirty
  <2>2. OldClean /\ OwnRows
    BY Zenon, <1>6, NoWrites DEF OldClean, OwnRows
  <2>3. SeenClean /\ ReadsStay
    BY Zenon, <1>2 DEF SeenClean, SawBy, ReadsStay
  <2> QED
    BY Zenon, <2>1, <2>2, <2>3 DEF RowInv
<1> QED
  BY Zenon, <1>1, <1>5, <1>7, <1>8 DEF Inv

\* A step of one thread keeps the invariant if it keeps the thread's part and
\* the rows.
LEMMA ThreadStep ==
  ASSUME Inv, LockInv', NEW u \in Txns, Moves(u), RowInv'
  PROVE  Inv'
<1>1. \A t \in Txns : Thread(t)'
  BY Zenon, OthersKeepThread DEF Inv, Moves
<1> QED
  BY Zenon, <1>1 DEF Inv, Moves

\* Every step keeps the invariant.
LEMMA StepInv == Inv /\ [Next]_vars => Inv'
<1> SUFFICES ASSUME Inv, [Next]_vars
             PROVE  Inv'
  BY Zenon
<1>1. LockInv'
  BY Zenon, LockStep, LockStepInv DEF Inv
<1>2. CASE UNCHANGED vars
  <2>1. LockTypeOK'
    BY Zenon, <1>1 DEF LockInv
  <2>2. TypeOK'
    BY Zenon, <1>2, <2>1 DEF Inv, TypeOK, vars, lockVars, data, control
  <2>3. UNCHANGED <<state, lock_set, lock_table, heap, write_set, pc, stmt, left, seen>>
    BY Zenon, <1>2 DEF vars, lockVars, data, control
  <2>4. \A t \in Txns : Thread(t)'
    <3> SUFFICES ASSUME NEW t \in Txns
                 PROVE  Thread(t)'
      BY Zenon
    <3>1. Thread(t)
      BY SMTT(30) DEF Inv
    <3>2. StateAt(t)' /\ LeftCovers(t)' /\ StmtAt(t)' /\ EndedClean(t)'
      BY SMTT(30), <2>3, <3>1 DEF Thread, StateAt, LeftCovers, Holds, StmtAt, EndedClean
    <3>3. LocksAt(t)' /\ ScanLocks(t)'
      BY SMTT(30), <2>3, <3>1 DEF Thread, LocksAt, ScanLocks, Has, Tab, Keeping
    <3>4. WriteLocks(t)' /\ OldOwn(t)'
      BY Zenon, <2>3, <3>1, SameCover DEF Has, Keeping
    <3> QED
      BY Zenon, <3>2, <3>3, <3>4 DEF Thread
  <2>5. RowInv'
    <3>1. RowInv
      BY Zenon DEF Inv
    <3>2. \A t \in Txns, tab \in Tables, rid \in Rids : Dirty(t, tab, rid)' <=> Dirty(t, tab, rid)
      BY Zenon, <2>3 DEF Dirty
    <3>3. DirtyListed'
      BY Zenon, <2>3, <3>1, <3>2, SameWrites DEF RowInv, DirtyListed
    <3>4. DirtyLive'
      BY Zenon, <2>3, <3>1, <3>2 DEF RowInv, DirtyLive, Live, Has
    <3>5. OldClean'
      BY Zenon, <2>3, <3>1, SameWrites DEF RowInv, OldClean
    <3>6. OwnRows'
      BY <2>3, <3>1, SameWrites DEF RowInv, OwnRows, Halted
    <3>7. SeenClean' /\ ReadsStay'
      BY Zenon, <2>3, <3>1 DEF RowInv, SeenClean, SawBy, ReadsStay
    <3> QED
      BY Zenon, <3>3, <3>4, <3>5, <3>6, <3>7 DEF RowInv
  <2> QED
    BY Zenon, <1>1, <2>2, <2>4, <2>5 DEF Inv
<1>3. ASSUME NEW u \in Txns, Work(u) \/ Client(u)
      PROVE  Inv'
  <2>1. TypeOK /\ Thread(u) /\ LockTypeOK' /\ NoOrphanRequest
    BY Zenon, <1>1 DEF Inv, LockInv
  <2>2. ASSUME Moves(u), UNCHANGED <<heap, write_set, seen>>
        PROVE  Inv'
    BY Zenon, <1>1, <2>2, QuietRows, ThreadStep
  <2>3. CASE InsertLock(u)
    BY Zenon, <2>1, <2>2, <2>3, InsertLockMoves DEF InsertLock, data
  <2>4. CASE InsertRecord(u)
    BY Zenon, <1>1, <2>4, InsertRecordKeeps, ThreadStep
  <2>5. CASE InsertRecordLock(u)
    BY SMTT(30), <2>1, <2>2, <2>5, InsertRecordLockMoves DEF InsertRecordLock, data
  <2>6. CASE InsertIndexEntry(u)
    BY Zenon, <2>1, <2>2, <2>6, InsertIndexEntryMoves DEF InsertIndexEntry
  <2>7. CASE Scan(u)
    BY SMTT(30), <1>1, <2>1, <2>7, ScanMoves, ScanRows, ThreadStep
  <2>8. CASE DeleteLock(u)
    BY SMTT(30), <2>1, <2>2, <2>8, DeleteLockMoves DEF DeleteLock, data
  <2>9. CASE DeleteRow(u)
    BY Zenon, <1>1, <2>9, DeleteRowKeeps, ThreadStep
  <2>10. CASE UpdateLock(u)
    BY Zenon, <2>1, <2>2, <2>10, UpdateLockMoves DEF UpdateLock
  <2>11. CASE UpdateIndex(u)
    BY Zenon, <2>1, <2>2, <2>11, UpdateIndexMoves DEF UpdateIndex
  <2>12. CASE UpdateRow(u)
    BY Zenon, <1>1, <2>12, UpdateRowKeeps, ThreadStep
  <2>13. CASE LoopDone(u)
    BY Zenon, <2>1, <2>2, <2>13, LoopDoneMoves DEF LoopDone, data
  <2>14. CASE Abort(u)
    BY Zenon, <2>1, <2>2, <2>14, AbortMoves DEF Abort, data
  <2>15. CASE Undo(u)
    BY Zenon, <1>1, <2>1, <2>15, UndoMoves, UndoRows, ThreadStep
  <2>16. CASE UndoDone(u)
    BY Zenon, <2>1, <2>2, <2>16, UndoDoneMoves DEF UndoDone, data
  <2>17. CASE Release(u)
    BY Zenon, <2>1, <2>2, <2>17, ReleaseMoves DEF Release, data
  <2>18. CASE Released(u)
    <3>1. Moves(u) /\ UNCHANGED <<heap, seen>> /\ write_set' = [write_set EXCEPT ![u] = <<>>]
      BY Zenon, <2>1, <2>18, ReleasedMoves DEF Released
    <3>2. state[u] = "COMMITTED" \/ write_set[u] = <<>>
      BY Zenon, <2>1, <2>18 DEF Released, Thread, StateAt, EndedClean
    <3>3. write_set[u] = <<>> => write_set' = write_set
      BY Zenon, <2>1, <3>1 DEF TypeOK
    <3> QED
      BY Zenon, <1>1, <3>1, <3>2, <3>3, QuietRows, ThreadStep
  <2>19. ASSUME NEW tab \in Tables, NEW key \in Keys, StartInsert(u, tab, key)
         PROVE  Inv'
    BY Zenon, <2>1, <2>2, <2>19, StartInsertMoves DEF StartInsert, data
  <2>20. ASSUME NEW tab \in Tables, NEW op \in Ops, StartScan(u, op, tab)
         PROVE  Inv'
    BY Zenon, <2>1, <2>2, <2>20, StartScanMoves DEF StartScan, data
  <2>21. CASE Commit(u)
    BY Zenon, <2>1, <2>2, <2>21, CommitMoves DEF Commit, data
  <2>22. CASE CommitAgain(u)
    BY Zenon, <2>1, <2>2, <2>22, CommitAgainMoves DEF CommitAgain, data
  <2>23. CASE Disconnect(u)
    BY Zenon, <2>1, <2>2, <2>23, DisconnectMoves DEF Disconnect, data
  <2>24. CASE LogFull(u)
    BY Zenon, <2>1, <2>2, <2>24, LogFullMoves DEF LogFull, data
  <2>25. CASE UndoWaits(u)
    BY Zenon, <2>1, <2>2, <2>25, UndoWaitsMoves DEF UndoWaits
  <2> QED
    BY SMTT(30), <1>3, <2>3, <2>4, <2>5, <2>6, <2>7, <2>8, <2>9, <2>10, <2>11, <2>12, <2>13, <2>14,
       <2>15, <2>16, <2>17, <2>18, <2>19, <2>20, <2>21, <2>22, <2>23, <2>24, <2>25 DEF Work, Client
<1> QED
  BY Zenon, <1>2, <1>3 DEF Next

-----------------------------------------------------------------------------
(* Theorems *)

\* The invariant holds in every reachable state.
THEOREM Invariance == Spec => []Inv
  BY InitInv, StepInv, PTL DEF Spec

\* The state of the program always has its shape, and the loop of release_locks
\* walks a set that nobody changes under it.
THEOREM TypeCorrect == Spec => []TypeOK
<1>1. Inv => TypeOK
  BY Zenon DEF Inv
<1> QED
  BY <1>1, Invariance, PTL

\* Executors, transaction manager and client loop use the lock manager as its
\* contract says, so what LockManagerProofs shows of it holds in the program.
THEOREM ProgramKeepsContract == Spec => LockContract
<1>1. Init => LockInit
  BY Zenon DEF Init
<1>2. Inv /\ [Next]_vars => [LockNext]_lockVars
  BY Zenon, LockStep DEF Inv
<1> QED
  BY <1>1, <1>2, Invariance, PTL DEF Spec, LockContract

\* A write that is neither committed nor undone is overwritten by no other
\* transaction, although an insert locks its row only after writing it.
THEOREM WritesStay == Spec => []NoDirtyWrite
<1>1. Inv => NoDirtyWrite
  <2> SUFFICES ASSUME Inv, NEW t \in Txns, state[t] # "COMMITTED", pc[t] \notin {"stuck", "undo_full"},
                      NEW i \in 1 .. Len(write_set[t])
               PROVE  heap[write_set[t][i].tab][write_set[t][i].rid].by = t
    BY Zenon DEF NoDirtyWrite
  <2>1. TypeOK /\ OwnRows
    BY Zenon DEF Inv, RowInv
  <2>2. PICK tab \in Tables, rid \in Rids : write_set[t][i].tab = tab /\ write_set[t][i].rid = rid
    BY Zenon, <2>1, WriteSetTypes
  <2>3. i \in Nat /\ Wrote(t, i, tab, rid)
    BY <2>2 DEF Wrote
  <2> QED
    BY <2>1, <2>2, <2>3 DEF OwnRows, Halted
<1> QED
  BY <1>1, Invariance, PTL

\* A scan returns no row, and no gap, that another transaction left and has not
\* committed.
THEOREM ScansSeeCommitted == Spec => []NoDirtyRead
<1>1. Inv => NoDirtyRead
  <2> SUFFICES ASSUME Inv, NEW t \in Txns, NEW tab \in Tables, seen[t][tab] # <<>>, NEW rid \in Rids,
                      NEW by, by = seen[t][tab][rid].by
               PROVE  by \in {NONE, t} \/ state[by] = "COMMITTED"
    BY DEF NoDirtyRead
  <2>1. TypeOK /\ SeenClean
    BY Zenon DEF Inv, RowInv
  <2>2. by \in Txns \cup {NONE}
    BY <2>1 DEF TypeOK, Cell
  <2> QED
    BY Zenon, <2>1, <2>2 DEF SeenClean, SawBy
<1> QED
  BY <1>1, Invariance, PTL

\* Until a transaction ends, only its own writes change what it has scanned.
THEOREM ScansRepeat == Spec => []ReadsStay
<1>1. Inv => ReadsStay
  BY Zenon DEF Inv, RowInv
<1> QED
  BY <1>1, Invariance, PTL

\* When the undo of an abort has come to its end, no row is left by the
\* transaction: each row it wrote is in its write set until it is restored.
THEOREM UndoRestores == Spec => []AbortRestores
<1>1. Inv => AbortRestores
  <2> SUFFICES ASSUME Inv, NEW t \in Txns, pc[t] \in {"release", "done", "end_full"}, state[t] = "ABORTED",
                      NEW tab \in Tables, NEW rid \in Rids, heap[tab][rid].by = t
               PROVE  FALSE
    BY Zenon DEF AbortRestores
  <2>1. Dirty(t, tab, rid)
    BY Zenon DEF Dirty
  <2>2. Keeping(t)
    BY Zenon, <2>1, DirtyLocked
  <2> QED
    BY Zenon, <2>2 DEF Keeping
<1> QED
  BY <1>1, Invariance, PTL
=============================================================================
