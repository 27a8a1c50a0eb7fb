----------------------- MODULE TransactionsInvariant ------------------------
(***************************************************************************)
(* The inductive invariant of TransactionsProofs, and what its proof says  *)
(* of a step of one thread. The first part is about one thread: Thread(t)  *)
(* says where it is, and what its statement, write set and locks are by    *)
(* then; it depends on nothing that other threads change                   *)
(* (OthersKeepThread). The other part, RowInv, is about the rows that      *)
(* threads share: a row that was not committed is in the write set of its  *)
(* writer, who still has the table locked, and by compatibility nobody     *)
(* else reads or writes there.                                             *)
(***************************************************************************)
EXTENDS Transactions, LockManagerProofs

\* Points of a transaction that has not ended, and of one with a statement.
Unended == {"idle", "ins_lock", "ins_heap", "ins_xlock", "ins_index", "scan", "del_lock",
            "del_row", "upd_lock", "upd_row", "abort", "full", "gone"}
InInsert == {"ins_lock", "ins_heap", "ins_xlock", "ins_index"}
AfterScan == {"del_lock", "del_row", "upd_lock", "upd_row"}

\* Where a thread is tells the state of its transaction.
StateAt(t) ==
  /\ pc[t] \in Unended => state[t] \in {"DEFAULT", "GROWING"}
  /\ pc[t] \in {"undo", "stuck", "waits", "undo_full"} => state[t] = "ABORTED"
  /\ pc[t] \in {"release", "done", "end_full"} => state[t] \in {"COMMITTED", "ABORTED"}

\* What is locked while release_locks runs is still to be unlocked.
LeftCovers(t) ==
  /\ left[t] \subseteq lock_set[t]
  /\ pc[t] = "release" => \A id \in LockDataId : Holds(t, id) => id \in left[t]

\* The statement that a thread is in.
StmtAt(t) ==
  /\ pc[t] \in InInsert \cup AfterScan \cup {"scan"} => stmt[t] \in Statement
  /\ pc[t] \in InInsert => stmt[t].key \in Keys
  /\ pc[t] \in {"ins_xlock", "ins_index"} => stmt[t].rid \in Rids
  /\ pc[t] \in AfterScan => stmt[t].todo \subseteq stmt[t].rids
  /\ pc[t] = "upd_row" => stmt[t].new \in [stmt[t].rids -> Keys]

\* The transaction has a request of this mode on the table.
Has(t, tab, mode) == [txn |-> t, mode |-> mode] \in lock_table[<<tab, TABLE>>]

\* No lock has been released yet.
Keeping(t) == pc[t] \notin {"release", "done", "end_full"}

\* The table locks a statement has at each of its points.
LocksAt(t) ==
  /\ pc[t] \in {"ins_heap", "ins_xlock", "ins_index"} => Has(t, Tab(t), "IX")
  /\ pc[t] \in AfterScan \cup {"scan"} => Has(t, Tab(t), "S")
  /\ pc[t] = "del_row" => Has(t, Tab(t), "X")
  /\ pc[t] = "upd_lock" /\ stmt[t].todo # stmt[t].rids => Has(t, Tab(t), "IX")
  /\ pc[t] = "upd_row" /\ stmt[t].rids # {} => Has(t, Tab(t), "IX")

\* The i-th write of t was to this row.
Wrote(t, i, tab, rid) == /\ i \in 1 .. Len(write_set[t])
                         /\ write_set[t][i].tab = tab /\ write_set[t][i].rid = rid

\* The i-th write of t replaced a row left by this transaction.
OldBy(t, i, by) == i \in 1 .. Len(write_set[t]) /\ write_set[t][i].old.by = by

\* ... and it was a live one.
OldLive(t, i) == Live(write_set[t][i].old)

\* A scan by t saw a row left by this transaction.
SawBy(t, tab, rid, by) == seen[t][tab] # <<>> /\ seen[t][tab][rid].by = by

\* Tables that were scanned or written are locked until the end.
ScanLocks(t) ==
  \A tab \in Tables : Keeping(t) /\ seen[t][tab] # <<>> => Has(t, tab, "S")
WriteLocks(t) ==
  Keeping(t) => \A i \in Nat, tab \in Tables, rid \in Rids :
                  Wrote(t, i, tab, rid) => Has(t, tab, "IX") \/ Has(t, tab, "X")

\* An abort that releases its locks has undone all writes.
EndedClean(t) ==
  pc[t] \in {"done", "end_full"} \/ (pc[t] = "release" /\ state[t] = "ABORTED")
    => write_set[t] = <<>>

\* The row that a write replaced was the transaction's own exactly if it had
\* written it before, and then it was a live one unless the table is locked in X.
OldOwn(t) ==
  \A j \in Nat, tab \in Tables, rid \in Rids : Wrote(t, j, tab, rid) =>
    /\ OldBy(t, j, t) <=> \E i \in 1 .. j - 1 : Wrote(t, i, tab, rid)
    /\ Keeping(t) /\ OldBy(t, j, t) => OldLive(t, j) \/ Has(t, tab, "X")

Thread(t) == /\ StateAt(t) /\ LeftCovers(t) /\ StmtAt(t)
             /\ LocksAt(t) /\ ScanLocks(t) /\ WriteLocks(t)
             /\ EndedClean(t) /\ OldOwn(t)

\* A row that a transaction left and has not committed is in its write set,
\* and it is a live row unless the table is locked in X.
Dirty(t, tab, rid) == heap[tab][rid].by = t /\ state[t] # "COMMITTED"
DirtyListed ==
  \A t \in Txns, tab \in Tables, rid \in Rids :
    Dirty(t, tab, rid) => \E i \in Nat : Wrote(t, i, tab, rid)
DirtyLive ==
  \A t \in Txns, tab \in Tables, rid \in Rids :
    Dirty(t, tab, rid) => Live(heap[tab][rid]) \/ Has(t, tab, "X")

\* A row that a write replaced, or that a scan saw, was its own or a committed one.
OldClean ==
  \A t \in Txns, by \in Txns, i \in Nat :
    OldBy(t, i, by) /\ by # t => state[by] = "COMMITTED"
SeenClean ==
  \A t \in Txns, by \in Txns, tab \in Tables, rid \in Rids :
    SawBy(t, tab, rid, by) /\ by # t => state[by] = "COMMITTED"

\* The undo has stopped between a row and the end of its write set.
Halted(t) == pc[t] \in {"stuck", "undo_full"}

\* A row in the write set of a transaction that has not committed is as it left it.
OwnRows ==
  \A t \in Txns, i \in Nat, tab \in Tables, rid \in Rids :
    Wrote(t, i, tab, rid) /\ state[t] # "COMMITTED" /\ ~Halted(t) => heap[tab][rid].by = t

RowInv == DirtyListed /\ DirtyLive /\ OldClean /\ SeenClean /\ OwnRows /\ ReadsStay

Inv == /\ LockInv /\ TypeOK
       /\ \A t \in Txns : Thread(t)
       /\ RowInv

-----------------------------------------------------------------------------
(* Sequences *)

\* The empty sequence has no elements.
LEMMA EmptySequence == \A S : <<>> \in Seq(S) /\ Len(<<>>) = 0
  OBVIOUS

\* What is in a sequence.
LEMMA SequenceElement ==
  ASSUME NEW S, NEW s \in Seq(S)
  PROVE  /\ Len(s) \in Nat /\ \A i \in 1 .. Len(s) : s[i] \in S
         /\ s # <<>> => Len(s) # 0
  OBVIOUS

\* Appending keeps the elements and adds one.
LEMMA Appended ==
  ASSUME NEW S, NEW s \in Seq(S), NEW w \in S
  PROVE  /\ Append(s, w) \in Seq(S) /\ Len(Append(s, w)) = Len(s) + 1
         /\ \A i \in 1 .. Len(s) : Append(s, w)[i] = s[i]
         /\ Append(s, w)[Len(s) + 1] = w
  OBVIOUS

\* The first n elements.
LEMMA Prefix ==
  ASSUME NEW S, NEW s \in Seq(S), NEW n \in Nat, n <= Len(s)
  PROVE  /\ SubSeq(s, 1, n) \in Seq(S) /\ Len(SubSeq(s, 1, n)) = n
         /\ \A i \in 1 .. n : SubSeq(s, 1, n)[i] = s[i]
  OBVIOUS

-----------------------------------------------------------------------------
(* Steps of one thread and the others *)

\* What a step of u leaves alone.
Others(u) ==
  \A t \in Txns : t # u =>
    /\ pc'[t] = pc[t] /\ stmt'[t] = stmt[t] /\ left'[t] = left[t]
    /\ write_set'[t] = write_set[t] /\ seen'[t] = seen[t]
    /\ state'[t] = state[t] /\ lock_set'[t] = lock_set[t]
    /\ \A id \in LockDataId : \A r \in lock_table[id] : r.txn = t => r \in lock_table'[id]
    /\ \A id \in LockDataId : \A r \in lock_table'[id] : r.txn = t => r \in lock_table[id]

\* The entries of a write set.
LEMMA WriteSetTypes ==
  ASSUME TypeOK, NEW t \in Txns, NEW i \in 1 .. Len(write_set[t])
  PROVE  /\ write_set[t][i] \in WriteRecord
         /\ write_set[t][i].tab \in Tables /\ write_set[t][i].rid \in Rids
         /\ write_set[t][i].old \in Cell
<1>1. write_set[t] \in Seq(WriteRecord)
  BY Zenon DEF TypeOK
<1>2. write_set[t][i] \in WriteRecord
  BY Zenon, <1>1, SequenceElement
<1> QED
  BY Zenon, <1>2 DEF WriteRecord

\* What is said of the writes of a transaction stays with its write set.
LEMMA SameWrites ==
  ASSUME NEW t \in Txns, write_set'[t] = write_set[t]
  PROVE  /\ \A i \in Nat, tab \in Tables, rid \in Rids : Wrote(t, i, tab, rid)' <=> Wrote(t, i, tab, rid)
         /\ \A i \in Nat, by \in Txns : OldBy(t, i, by)' <=> OldBy(t, i, by)
         /\ \A i \in Nat : OldLive(t, i)' <=> OldLive(t, i)
<1>1. \A i \in Nat, tab \in Tables, rid \in Rids : Wrote(t, i, tab, rid)' <=> Wrote(t, i, tab, rid)
  BY Zenon DEF Wrote
<1>2. \A i \in Nat, by \in Txns : OldBy(t, i, by)' <=> OldBy(t, i, by)
  BY Zenon DEF OldBy
<1>3. \A i \in Nat : OldLive(t, i)' <=> OldLive(t, i)
  BY Zenon DEF OldLive, Live
<1> QED
  BY Zenon, <1>1, <1>2, <1>3

\* An empty write set has no writes.
LEMMA NoWrites ==
  ASSUME NEW t \in Txns, write_set[t] = <<>>
  PROVE  /\ \A i \in Nat, tab \in Tables, rid \in Rids : ~Wrote(t, i, tab, rid)
         /\ \A i \in Nat, by \in Txns : ~OldBy(t, i, by)
  BY EmptySequence DEF Wrote, OldBy

\* What is locked, scanned and written stays so if nothing of it changes.
LEMMA SameCover ==
  ASSUME NEW t \in Txns, Thread(t), write_set'[t] = write_set[t], Keeping(t)' => Keeping(t),
         Keeping(t)' => \A tab \in Tables, m \in LockMode : Has(t, tab, m) => Has(t, tab, m)'
  PROVE  WriteLocks(t)' /\ OldOwn(t)'
<1>1. "IX" \in LockMode /\ "X" \in LockMode
  BY Zenon DEF LockMode
<1>2. WriteLocks(t)'
  BY Zenon, <1>1, SameWrites DEF Thread, WriteLocks
<1>3. ASSUME NEW j \in Nat, NEW tab \in Tables, NEW rid \in Rids, Wrote(t, j, tab, rid)'
      PROVE  /\ OldBy(t, j, t)' <=> \E i \in 1 .. j - 1 : Wrote(t, i, tab, rid)'
             /\ Keeping(t)' /\ OldBy(t, j, t)' => OldLive(t, j)' \/ Has(t, tab, "X")'
  <2>1. /\ OldBy(t, j, t) <=> \E i \in 1 .. j - 1 : Wrote(t, i, tab, rid)
        /\ Keeping(t) /\ OldBy(t, j, t) => OldLive(t, j) \/ Has(t, tab, "X")
    BY Zenon, <1>3, SameWrites DEF Thread, OldOwn
  <2>2. \A i \in 1 .. j - 1 : Wrote(t, i, tab, rid)' <=> Wrote(t, i, tab, rid)
    BY SameWrites
  <2> QED
    BY Zenon, <1>1, <2>1, <2>2, SameWrites
<1> QED
  BY Zenon, <1>2, <1>3 DEF OldOwn

\* The lock of another on a table stays.
LEMMA OthersKeepLocks ==
  ASSUME NEW u \in Txns, Others(u), NEW t \in Txns, t # u, NEW tab \in Tables, NEW m
  PROVE  Has(t, tab, m) <=> Has(t, tab, m)'
  BY Zenon DEF Others, Has, LockDataId

\* A step of one thread keeps the invariants of every other.
LEMMA OthersKeepThread ==
  ASSUME TypeOK, NEW u \in Txns, Others(u), NEW t \in Txns, t # u, Thread(t)
  PROVE  Thread(t)'
<1>1. /\ pc'[t] = pc[t] /\ stmt'[t] = stmt[t] /\ left'[t] = left[t]
      /\ write_set'[t] = write_set[t] /\ seen'[t] = seen[t]
      /\ state'[t] = state[t] /\ lock_set'[t] = lock_set[t]
  BY Zenon DEF Others
<1>2. \A tab \in Tables, m \in LockMode : Has(t, tab, m) <=> Has(t, tab, m)'
  BY Zenon, OthersKeepLocks
<1>3. {"IX", "S", "X"} \subseteq LockMode
  BY Zenon DEF LockMode
<1>6. StateAt(t)' /\ EndedClean(t)'
  BY Zenon, <1>1 DEF Thread, StateAt, EndedClean
<1>7. LeftCovers(t)'
  <2>1. \A id \in LockDataId : Holds(t, id)' => Holds(t, id)
    BY Zenon DEF Others, Holds
  <2> QED
    BY Zenon, <1>1, <2>1 DEF Thread, LeftCovers
<1>8. StmtAt(t)'
  BY Zenon, <1>1 DEF Thread, StmtAt
<1>9. LocksAt(t)'
  <2>1. pc[t] \in InInsert \cup AfterScan \cup {"scan"} => Tab(t) \in Tables /\ Tab(t)' = Tab(t)
    BY Zenon, <1>1 DEF Thread, StmtAt, Statement, Tab
  <2> QED
    BY Zenon, <1>1, <1>2, <1>3, <2>1 DEF Thread, LocksAt, InInsert, AfterScan
<1>10. ScanLocks(t)'
  BY Zenon, <1>1, <1>2, <1>3 DEF Thread, ScanLocks, Keeping
<1>11. WriteLocks(t)' /\ OldOwn(t)'
  <2>1. Keeping(t)' => Keeping(t)
    BY Zenon, <1>1 DEF Keeping
  <2> QED
    BY Zenon, <1>1, <1>2, <2>1, SameCover
<1> QED
  BY Zenon, <1>6, <1>7, <1>8, <1>9, <1>10, <1>11 DEF Thread

\* What a thread has scanned and written stays covered by its locks as long as
\* it keeps them.
LEMMA QuietKeeps ==
  ASSUME TypeOK, NEW u \in Txns, Thread(u),
         write_set'[u] = write_set[u],
         Keeping(u)' => Keeping(u),
         Keeping(u)' => \A tab \in Tables, m \in LockMode : Has(u, tab, m) => Has(u, tab, m)'
  PROVE  /\ WriteLocks(u)' /\ OldOwn(u)'
         /\ seen'[u] = seen[u] => ScanLocks(u)'
<1>1. "S" \in LockMode
  BY Zenon DEF LockMode
<1>2. seen'[u] = seen[u] => ScanLocks(u)'
  BY Zenon, <1>1 DEF Thread, ScanLocks
<1> QED
  BY Zenon, <1>2, SameCover

-----------------------------------------------------------------------------
(* The thread that makes the step, action by action *)

\* A commit is final, a growing transaction had not ended before, and locks
\* stay until the release.
Onward(u) ==
  /\ state[u] = "COMMITTED" => state'[u] = "COMMITTED"
  /\ state'[u] = "GROWING" => pc[u] \in Unended
  /\ Keeping(u)' => \A tab \in Tables, m \in LockMode : Has(u, tab, m) => Has(u, tab, m)'

\* What is to be shown of a step of u.
Moves(u) == TypeOK' /\ Others(u) /\ Thread(u)' /\ ~Halted(u) /\ Onward(u)

\* A row is done: only todo changes.
LEMMA RowDone ==
  ASSUME TypeOK, NEW u \in Txns, stmt[u] \in Statement, NEW rid
  PROVE  LET new == [stmt EXCEPT ![u].todo = @ \ {rid}]
         IN /\ new \in [Txns -> Statement \cup {NONE}]
            /\ \A t \in Txns : t # u => new[t] = stmt[t]
            /\ new[u] \in Statement /\ new[u].todo = stmt[u].todo \ {rid}
            /\ new[u].tab = stmt[u].tab /\ new[u].rids = stmt[u].rids /\ new[u].new = stmt[u].new
<1> DEFINE s == [stmt[u] EXCEPT !.todo = @ \ {rid}]
<1>1. /\ s \in Statement /\ s.todo = stmt[u].todo \ {rid}
      /\ s.tab = stmt[u].tab /\ s.rids = stmt[u].rids /\ s.new = stmt[u].new
  BY Zenon DEF Statement
<1>2. [stmt EXCEPT ![u].todo = @ \ {rid}] = [stmt EXCEPT ![u] = s]
  BY Zenon
<1> HIDE DEF s
<1> QED
  BY Zenon, <1>1, <1>2 DEF TypeOK

\* Changing one entry of an index keeps its type; what is no key has no entry.
LEMMA IndexEntry ==
  ASSUME TypeOK, NEW tab \in Tables, NEW k, NEW v \in Rids \cup {TABLE}
  PROVE  [index EXCEPT ![tab][k] = v] \in [Tables -> [Keys -> Rids \cup {TABLE}]]
<1>1. [index[tab] EXCEPT ![k] = v] \in [Keys -> Rids \cup {TABLE}]
  BY Zenon DEF TypeOK
<1>2. [index EXCEPT ![tab][k] = v] = [index EXCEPT ![tab] = [index[tab] EXCEPT ![k] = v]]
  BY Zenon
<1> QED
  BY Zenon, <1>1, <1>2 DEF TypeOK

-----------------------------------------------------------------------------
(* Writes: the steps of a thread that change a row, those of the executors *)
(* and their undo, as steps of the thread.                                 *)

\* What a write does to the rows and to the write set.
Wrote1(u, tab, rid, key) ==
  /\ heap' \in [Tables -> [Rids -> Cell]]
  /\ heap'[tab][rid] = [key |-> key, by |-> u]
  /\ \A t \in Tables, r \in Rids : <<t, r>> # <<tab, rid>> => heap'[t][r] = heap[t][r]
  /\ write_set' \in [Txns -> Seq(WriteRecord)]
  /\ \A t \in Txns : t # u => write_set'[t] = write_set[t]
  /\ Len(write_set[u]) \in Nat /\ Len(write_set'[u]) = Len(write_set[u]) + 1
  /\ \A i \in 1 .. Len(write_set[u]) : write_set'[u][i] = write_set[u][i]
  /\ write_set'[u][Len(write_set[u]) + 1].tab = tab
  /\ write_set'[u][Len(write_set[u]) + 1].rid = rid
  /\ write_set'[u][Len(write_set[u]) + 1].old = heap[tab][rid]

\* Write does that.
LEMMA WriteWrites ==
  ASSUME TypeOK, NEW u \in Txns, NEW tab \in Tables, Tab(u) = tab, NEW rid \in Rids,
         NEW key \in Keys \cup {NONE}, NEW type \in {"INSERT", "DELETE", "UPDATE"},
         Write(u, type, rid, key)
  PROVE  Wrote1(u, tab, rid, key)
<1> DEFINE cell == [key |-> key, by |-> u]
           w == [type |-> type, tab |-> tab, rid |-> rid, old |-> heap[tab][rid]]
<1>1. heap' = [heap EXCEPT ![tab][rid] = cell] /\ write_set' = [write_set EXCEPT ![u] = Append(@, w)]
  BY Zenon DEF Write
<1>2. cell \in Cell /\ heap[tab][rid] \in Cell
  BY DEF Cell, TypeOK
<1>3. w \in WriteRecord /\ w.tab = tab /\ w.rid = rid /\ w.old = heap[tab][rid]
  BY Zenon, <1>2 DEF WriteRecord
<1>4. write_set[u] \in Seq(WriteRecord)
  BY Zenon DEF TypeOK
<1> HIDE DEF w
<1>5. /\ Append(write_set[u], w) \in Seq(WriteRecord)
      /\ Len(write_set[u]) \in Nat /\ Len(Append(write_set[u], w)) = Len(write_set[u]) + 1
      /\ \A i \in 1 .. Len(write_set[u]) : Append(write_set[u], w)[i] = write_set[u][i]
      /\ Append(write_set[u], w)[Len(write_set[u]) + 1] = w
  BY <1>3, <1>4, SequenceElement, Appended
<1>6. /\ write_set' \in [Txns -> Seq(WriteRecord)] /\ write_set'[u] = Append(write_set[u], w)
      /\ \A t \in Txns : t # u => write_set'[t] = write_set[t]
  BY Zenon, <1>1, <1>5 DEF TypeOK
<1> HIDE DEF cell
<1>7. /\ heap' \in [Tables -> [Rids -> Cell]] /\ heap'[tab][rid] = cell
      /\ \A t \in Tables, r \in Rids : <<t, r>> # <<tab, rid>> => heap'[t][r] = heap[t][r]
  BY Zenon, <1>1, <1>2 DEF TypeOK
<1> QED
  BY Zenon, <1>3, <1>5, <1>6, <1>7 DEF Wrote1, cell

\* The write set of u gets an n+1-st write, of this row.
Adds(u, n, tab, rid) ==
  /\ \A i \in Nat, t \in Tables, r \in Rids : Wrote(u, i, t, r) => i \in 1 .. n
  /\ \A i \in Nat, by \in Txns : OldBy(u, i, by) => i \in 1 .. n
  /\ \A i \in Nat, t \in Tables, r \in Rids :
       Wrote(u, i, t, r)' <=> Wrote(u, i, t, r) \/ (i = n + 1 /\ t = tab /\ r = rid)
  /\ \A i \in Nat, by \in Txns :
       OldBy(u, i, by)' <=> OldBy(u, i, by) \/ (i = n + 1 /\ heap[tab][rid].by = by)
  /\ \A i \in 1 .. n : OldLive(u, i)' <=> OldLive(u, i)
  /\ OldLive(u, n + 1)' <=> Live(heap[tab][rid])

\* The write set then has one more write, of this row, with what the row was.
LEMMA WroteRow ==
  ASSUME NEW u \in Txns, NEW tab \in Tables, NEW rid \in Rids, NEW key, Wrote1(u, tab, rid, key)
  PROVE  \E n \in Nat : Adds(u, n, tab, rid)
<1> DEFINE s == write_set[u]
           q == write_set'[u]
<1>1. PICK n \in Nat : n = Len(s)
  BY Zenon DEF Wrote1
<1>2. /\ Len(q) = n + 1 /\ \A i \in 1 .. n : q[i] = s[i]
      /\ q[n + 1].tab = tab /\ q[n + 1].rid = rid /\ q[n + 1].old = heap[tab][rid]
  BY Zenon, <1>1 DEF Wrote1
<1>3. \A i \in Nat, t \in Tables, r \in Rids :
        /\ Wrote(u, i, t, r) <=> i \in 1 .. n /\ s[i].tab = t /\ s[i].rid = r
        /\ Wrote(u, i, t, r)' <=> i \in 1 .. n + 1 /\ q[i].tab = t /\ q[i].rid = r
  BY Zenon, <1>1, <1>2 DEF Wrote
<1>4. \A i \in Nat, by \in Txns : /\ OldBy(u, i, by) <=> i \in 1 .. n /\ s[i].old.by = by
                                  /\ OldBy(u, i, by)' <=> i \in 1 .. n + 1 /\ q[i].old.by = by
  BY Zenon, <1>1, <1>2 DEF OldBy
<1>5. \A i \in Nat : (OldLive(u, i) <=> Live(s[i].old)) /\ (OldLive(u, i)' <=> Live(q[i].old))
  BY Zenon DEF OldLive, Live
<1>6. OldLive(u, n + 1)' <=> Live(heap[tab][rid])
  BY Zenon, <1>2 DEF OldLive, Live
<1> HIDE DEF s, q
<1>7. \A i \in Nat : i \in 1 .. n + 1 <=> i \in 1 .. n \/ i = n + 1
  BY <1>2
<1>8. \A i \in Nat, t \in Tables, r \in Rids :
        Wrote(u, i, t, r)' <=> Wrote(u, i, t, r) \/ (i = n + 1 /\ t = tab /\ r = rid)
  <2>1. /\ q[n + 1].tab = tab /\ q[n + 1].rid = rid
        /\ \A i \in 1 .. n : q[i] = s[i] /\ i # n + 1
    BY <1>2
  <2> QED
    BY <1>7, <1>3, <2>1
<1>9. \A i \in Nat, by \in Txns :
        OldBy(u, i, by)' <=> OldBy(u, i, by) \/ (i = n + 1 /\ heap[tab][rid].by = by)
  <2>1. q[n + 1].old = heap[tab][rid] /\ \A i \in 1 .. n : q[i] = s[i] /\ i # n + 1
    BY <1>2
  <2> QED
    BY <1>7, <1>4, <2>1
<1>10. \A i \in 1 .. n : OldLive(u, i)' <=> OldLive(u, i)
  <2>1. \A i \in 1 .. n : i \in Nat /\ q[i] = s[i]
    BY <1>2
  <2> QED
    BY Zenon, <1>5, <2>1 DEF Live
<1>11. /\ \A i \in Nat, t \in Tables, r \in Rids : Wrote(u, i, t, r) => i \in 1 .. n
       /\ \A i \in Nat, by \in Txns : OldBy(u, i, by) => i \in 1 .. n
  BY Zenon, <1>3, <1>4
<1>12. Adds(u, n, tab, rid)
  BY Zenon, <1>8, <1>9, <1>10, <1>6, <1>11 DEF Adds
<1> QED
  BY Zenon, <1>12

\* The writes are then still covered by locks, and what they replaced is known.
LEMMA AddsOwn ==
  ASSUME NEW u \in Txns, NEW tab \in Tables, NEW rid \in Rids, NEW n \in Nat,
         Adds(u, n, tab, rid), WriteLocks(u), OldOwn(u), Keeping(u),
         heap[tab][rid].by = u <=> \E i \in 1 .. n : Wrote(u, i, tab, rid),
         heap[tab][rid].by = u => Live(heap[tab][rid]) \/ Has(u, tab, "X"),
         \A t \in Tables : /\ Has(u, t, "X") <=> Has(u, t, "X")'
                           /\ Has(u, t, "IX") <=> Has(u, t, "IX")',
         Has(u, tab, "IX") \/ Has(u, tab, "X")
  PROVE  WriteLocks(u)' /\ OldOwn(u)'
<1>1. \A i \in Nat : i \in 1 .. n => i # n + 1
  OBVIOUS
<1>2. WriteLocks(u)'
  BY Zenon DEF WriteLocks, Adds
<1>3. ASSUME NEW j \in Nat, NEW t \in Tables, NEW r \in Rids, Wrote(u, j, t, r)'
      PROVE  /\ OldBy(u, j, u)' <=> \E i \in 1 .. j - 1 : Wrote(u, i, t, r)'
             /\ OldBy(u, j, u)' => OldLive(u, j)' \/ Has(u, t, "X")'
  <2>1. CASE j = n + 1 /\ t = tab /\ r = rid
    <3>1. OldBy(u, j, u)' <=> heap[tab][rid].by = u
      BY Zenon, <1>1, <2>1 DEF Adds
    <3>2. \A i \in 1 .. j - 1 : i \in 1 .. n /\ (Wrote(u, i, t, r)' <=> Wrote(u, i, t, r))
      BY <1>1, <2>1 DEF Adds
    <3>3. \A i \in 1 .. n : i \in 1 .. j - 1
      BY <2>1
    <3>4. OldLive(u, j)' <=> Live(heap[tab][rid])
      BY Zenon, <2>1 DEF Adds
    <3> QED
      BY Zenon, <2>1, <3>1, <3>2, <3>3, <3>4
  <2>2. CASE j \in 1 .. n /\ Wrote(u, j, t, r)
    <3>1. (OldBy(u, j, u)' <=> OldBy(u, j, u)) /\ (OldLive(u, j)' <=> OldLive(u, j))
      BY Zenon, <1>1, <2>2 DEF Adds
    <3>2. \A i \in 1 .. j - 1 : Wrote(u, i, t, r)' <=> Wrote(u, i, t, r)
      BY <1>1, <2>2 DEF Adds
    <3>3. /\ OldBy(u, j, u) <=> \E i \in 1 .. j - 1 : Wrote(u, i, t, r)
          /\ OldBy(u, j, u) => OldLive(u, j) \/ Has(u, t, "X")
      BY Zenon, <2>2 DEF OldOwn
    <3> QED
      BY Zenon, <3>1, <3>2, <3>3
  <2> QED
    BY Zenon, <1>3, <2>1, <2>2 DEF Adds
<1> QED
  BY Zenon, <1>2, <1>3 DEF OldOwn

\* A write under a lock of the table, as a step of its thread.
LEMMA WriteMoves ==
  ASSUME TypeOK, DirtyListed, DirtyLive, OwnRows, NEW u \in Txns, Thread(u),
         NEW tab \in Tables, NEW rid \in Rids, NEW key, Wrote1(u, tab, rid, key),
         Has(u, tab, "IX") \/ Has(u, tab, "X"),
         NEW p \in Unended, pc[u] \in Unended, pc' = [pc EXCEPT ![u] = p],
         UNCHANGED <<lockVars, indexed, left, count, seen>>,
         index' \in [Tables -> [Keys -> Rids \cup {TABLE}]],
         stmt' \in [Txns -> Statement \cup {NONE}],
         \A t \in Txns : t # u => stmt'[t] = stmt[t],
         StmtAt(u)', LocksAt(u)'
  PROVE  Moves(u)
<1>1. pc'[u] = p /\ pc' \in [Txns -> Points] /\ \A t \in Txns : t # u => pc'[t] = pc[t]
  BY Zenon DEF TypeOK, Points, Unended
<1>2. \A t \in Txns, other \in Tables, m \in LockMode : Has(t, other, m) <=> Has(t, other, m)'
  BY Zenon DEF Has, lockVars
<1>3. {"IX", "S", "X"} \subseteq LockMode
  BY Zenon DEF LockMode
<1>4. Keeping(u) /\ Keeping(u)' /\ state[u] \in {"DEFAULT", "GROWING"} /\ ~Halted(u)
  BY Zenon, <1>1 DEF Halted, Keeping, Unended, Thread, StateAt
<1>5. PICK n \in Nat : Adds(u, n, tab, rid)
  BY Zenon, WroteRow
<1>6. "IX" \in LockMode /\ "X" \in LockMode
  BY Zenon DEF LockMode
<1>7. Others(u)
  BY Zenon, <1>1, <1>2 DEF Others, Wrote1, lockVars
<1>8. TypeOK'
  BY Zenon, <1>1 DEF TypeOK, LockTypeOK, Wrote1, lockVars
<1>9. WriteLocks(u)' /\ OldOwn(u)'
  <2>1. Dirty(u, tab, rid) <=> heap[tab][rid].by = u
    BY Zenon, <1>4 DEF Dirty
  <2>2. heap[tab][rid].by = u <=> \E i \in 1 .. n : Wrote(u, i, tab, rid)
    <3>1. \A i \in Nat : Wrote(u, i, tab, rid) => i \in 1 .. n
      BY Zenon, <1>5 DEF Adds
    <3>2. \A i \in 1 .. n : i \in Nat
      OBVIOUS
    <3> QED
      BY <1>4, <2>1, <3>1, <3>2 DEF DirtyListed, OwnRows
  <2>3. heap[tab][rid].by = u => Live(heap[tab][rid]) \/ Has(u, tab, "X")
    BY Zenon, <2>1 DEF DirtyLive
  <2>4. \A t \in Tables : /\ Has(u, t, "X") <=> Has(u, t, "X")'
                          /\ Has(u, t, "IX") <=> Has(u, t, "IX")'
    BY Zenon, <1>2, <1>6
  <2>5. WriteLocks(u) /\ OldOwn(u)
    BY Zenon DEF Thread
  <2> QED
    BY Zenon, <1>4, <1>5, <2>2, <2>3, <2>4, <2>5, AddsOwn
<1>11. ScanLocks(u)'
  BY SMTT(30), <1>2, <1>3, <1>4 DEF Thread, ScanLocks
<1>12. StateAt(u)' /\ LeftCovers(u)' /\ EndedClean(u)'
  BY SMTT(30), <1>1, <1>4 DEF Thread, StateAt, LeftCovers, EndedClean, Unended, lockVars
<1>13. Onward(u)
  BY SMTT(30), <1>2, <1>4 DEF Onward, lockVars
<1> QED
  BY SMTT(30), <1>4, <1>7, <1>8, <1>9, <1>11, <1>12, <1>13 DEF Moves, Thread

\* The undo of one write: the old row comes back, and the write is popped
\* unless the index refuses the old key.
Undid(u) ==
  LET n == Len(write_set[u])
      w == write_set[u][n]
  IN /\ n \in Nat \ {0} /\ w \in WriteRecord
     /\ \/ heap' = heap /\ write_set' = write_set
        \/ /\ heap' \in [Tables -> [Rids -> Cell]]
           /\ heap'[w.tab][w.rid] = w.old
           /\ \A t \in Tables, r \in Rids : ~(t = w.tab /\ r = w.rid) => heap'[t][r] = heap[t][r]
           /\ \/ write_set' = write_set /\ Halted(u)'
              \/ /\ write_set' \in [Txns -> Seq(WriteRecord)]
                 /\ \A t \in Txns : t # u => write_set'[t] = write_set[t]
                 /\ Len(write_set'[u]) = n - 1
                 /\ \A i \in 1 .. n - 1 : write_set'[u][i] = write_set[u][i]

\* Undo does that.
LEMMA UndoUndoes ==
  ASSUME TypeOK, NEW u \in Txns, Undo(u)
  PROVE  /\ Undid(u) /\ index' \in [Tables -> [Keys -> Rids \cup {TABLE}]]
         /\ pc[u] = "undo" /\ \E p \in {"undo", "stuck", "undo_full"} : pc' = [pc EXCEPT ![u] = p]
         /\ UNCHANGED <<lockVars, indexed, stmt, left, count, seen>>
<1> DEFINE n == Len(write_set[u])
           w == write_set[u][n]
           cur == heap[w.tab][w.rid]
           gone == IF w.type # "DELETE" THEN [index[w.tab] EXCEPT ![cur.key] = TABLE] ELSE index[w.tab]
           throw == w.tab \in indexed /\ w.type # "INSERT" /\ gone[w.old.key] # TABLE
<1>1. /\ pc[u] = "undo" /\ write_set[u] # <<>>
      /\ heap' = (IF throw /\ w.type = "DELETE" THEN heap ELSE [heap EXCEPT ![w.tab][w.rid] = w.old])
      /\ index' = (IF w.tab \notin indexed THEN index
                   ELSE [index EXCEPT ![w.tab] = IF w.type = "INSERT" \/ throw THEN gone
                                                 ELSE [gone EXCEPT ![w.old.key] = w.rid]])
      /\ write_set' = (IF pc'[u] # "undo" THEN write_set
                       ELSE [write_set EXCEPT ![u] = SubSeq(@, 1, Len(@) - 1)])
      /\ IF throw THEN Goto(u, "stuck") ELSE Logs(u, "undo", "undo_full")
      /\ UNCHANGED <<lockVars, indexed, stmt, left, count, seen>>
  BY Zenon DEF Undo
<1>2. write_set[u] \in Seq(WriteRecord) /\ n \in Nat \ {0}
  <2>1. write_set[u] # <<>> /\ write_set[u] \in Seq(WriteRecord)
    BY Zenon, <1>1 DEF TypeOK
  <2> QED
    BY Zenon, <2>1, SequenceElement
<1>3. w \in WriteRecord /\ w.tab \in Tables /\ w.rid \in Rids /\ w.old \in Cell
  BY SMTT(30), <1>2, WriteSetTypes
<1>4. gone \in [Keys -> Rids \cup {TABLE}]
  BY Zenon, <1>3 DEF TypeOK
<1> HIDE DEF gone
<1>5. index' \in [Tables -> [Keys -> Rids \cup {TABLE}]]
  <2>1. [gone EXCEPT ![w.old.key] = w.rid] \in [Keys -> Rids \cup {TABLE}]
    BY Zenon, <1>3, <1>4
  <2> QED
    BY Zenon, <1>1, <1>3, <1>4, <2>1 DEF TypeOK
<1> HIDE DEF throw, cur
<1>6. ASSUME heap' = [heap EXCEPT ![w.tab][w.rid] = w.old]
      PROVE  /\ heap' \in [Tables -> [Rids -> Cell]]
             /\ heap'[w.tab][w.rid] = w.old
             /\ \A t \in Tables, r \in Rids : ~(t = w.tab /\ r = w.rid) => heap'[t][r] = heap[t][r]
  <2> HIDE DEF w
  <2> QED
    BY Zenon, <1>3, <1>6 DEF TypeOK
<1>7. ASSUME pc'[u] = "undo"
      PROVE  /\ write_set' \in [Txns -> Seq(WriteRecord)]
             /\ \A t \in Txns : t # u => write_set'[t] = write_set[t]
             /\ Len(write_set'[u]) = n - 1
             /\ \A i \in 1 .. n - 1 : write_set'[u][i] = write_set[u][i]
  <2> DEFINE s == SubSeq(write_set[u], 1, n - 1)
  <2>1. n - 1 \in Nat /\ n - 1 <= Len(write_set[u])
    BY <1>2
  <2>2. s \in Seq(WriteRecord) /\ Len(s) = n - 1 /\ \A i \in 1 .. n - 1 : s[i] = write_set[u][i]
    BY <1>2, <2>1, Prefix
  <2>3. write_set' = [write_set EXCEPT ![u] = s]
    BY SMTT(30), <1>1, <1>7
  <2> HIDE DEF s
  <2> QED
    BY Zenon, <2>2, <2>3 DEF TypeOK
<1>8. (pc'[u] # "undo" => Halted(u)') /\ (throw => pc'[u] # "undo")
  BY SMTT(30), <1>1 DEF Goto, Logs, TypeOK, Halted
<1>9. \E p \in {"undo", "stuck", "undo_full"} : pc' = [pc EXCEPT ![u] = p]
  BY Zenon, <1>1 DEF Goto, Logs
<1>10. Undid(u)
  BY Zenon, <1>1, <1>2, <1>3, <1>6, <1>7, <1>8 DEF Undid
<1> QED
  BY ZenonT(40), <1>1, <1>5, <1>9, <1>10

\* The write set of u is cut after its first m writes.
Cuts(u, m) ==
  /\ \A i \in Nat, t \in Tables, r \in Rids : Wrote(u, i, t, r)' <=> i \in 1 .. m /\ Wrote(u, i, t, r)
  /\ \A i \in Nat, by \in Txns : OldBy(u, i, by)' <=> i \in 1 .. m /\ OldBy(u, i, by)
  /\ \A i \in 1 .. m : OldLive(u, i)' <=> OldLive(u, i)

\* What that means of the sequence.
LEMMA ShorterWrites ==
  ASSUME NEW u \in Txns, NEW m \in Nat, m <= Len(write_set[u]), Len(write_set[u]) \in Nat,
         Len(write_set'[u]) = m, \A i \in 1 .. m : write_set'[u][i] = write_set[u][i]
  PROVE  Cuts(u, m)
<1>1. PICK n, s, q : /\ n \in Nat /\ s = write_set[u] /\ q = write_set'[u] /\ n = Len(s)
                     /\ Len(q) = m /\ m <= n /\ \A i \in 1 .. m : q[i] = s[i]
  OBVIOUS
<1>2. \A i \in Nat, t \in Tables, r \in Rids :
        /\ Wrote(u, i, t, r) <=> i \in 1 .. n /\ s[i].tab = t /\ s[i].rid = r
        /\ Wrote(u, i, t, r)' <=> i \in 1 .. m /\ q[i].tab = t /\ q[i].rid = r
  BY Zenon, <1>1 DEF Wrote
<1>3. \A i \in Nat, by \in Txns : /\ OldBy(u, i, by) <=> i \in 1 .. n /\ s[i].old.by = by
                                  /\ OldBy(u, i, by)' <=> i \in 1 .. m /\ q[i].old.by = by
  BY Zenon, <1>1 DEF OldBy
<1>4. \A i \in Nat : (OldLive(u, i) <=> Live(s[i].old)) /\ (OldLive(u, i)' <=> Live(q[i].old))
  BY Zenon, <1>1 DEF OldLive, Live
<1>5. \A i \in 1 .. m : i \in Nat /\ i \in 1 .. n
  BY <1>1
<1>6. \A i \in 1 .. m : OldLive(u, i)' <=> OldLive(u, i)
  BY Zenon, <1>1, <1>4, <1>5 DEF Live
<1>7. \A i \in Nat, t \in Tables, r \in Rids : Wrote(u, i, t, r)' <=> i \in 1 .. m /\ Wrote(u, i, t, r)
  BY <1>1, <1>2, <1>5
<1>8. \A i \in Nat, by \in Txns : OldBy(u, i, by)' <=> i \in 1 .. m /\ OldBy(u, i, by)
  BY <1>1, <1>3, <1>5
<1> QED
  BY Zenon, <1>6, <1>7, <1>8 DEF Cuts

\* The writes that are left are covered by locks as before.
LEMMA CutsOwn ==
  ASSUME NEW u \in Txns, NEW m \in Nat, Cuts(u, m), WriteLocks(u), OldOwn(u), Keeping(u),
         \A t \in Tables : /\ Has(u, t, "X") <=> Has(u, t, "X")'
                           /\ Has(u, t, "IX") <=> Has(u, t, "IX")'
  PROVE  WriteLocks(u)' /\ OldOwn(u)'
<1>1. WriteLocks(u)'
  BY Zenon DEF WriteLocks, Cuts
<1>2. ASSUME NEW j \in Nat, NEW t \in Tables, NEW r \in Rids, Wrote(u, j, t, r)'
      PROVE  /\ OldBy(u, j, u)' <=> \E i \in 1 .. j - 1 : Wrote(u, i, t, r)'
             /\ OldBy(u, j, u)' => OldLive(u, j)' \/ Has(u, t, "X")'
  <2>1. /\ j \in 1 .. m /\ Wrote(u, j, t, r) /\ (OldBy(u, j, u)' <=> OldBy(u, j, u))
        /\ OldLive(u, j)' <=> OldLive(u, j)
    BY Zenon, <1>2 DEF Cuts
  <2>2. \A i \in 1 .. j - 1 : Wrote(u, i, t, r)' <=> Wrote(u, i, t, r)
    BY <2>1 DEF Cuts
  <2>3. /\ OldBy(u, j, u) <=> \E i \in 1 .. j - 1 : Wrote(u, i, t, r)
        /\ OldBy(u, j, u) => OldLive(u, j) \/ Has(u, t, "X")
    BY Zenon, <2>1 DEF OldOwn
  <2> QED
    BY Zenon, <2>1, <2>2, <2>3
<1> QED
  BY Zenon, <1>1, <1>2 DEF OldOwn

\* Undo as a step of its thread.
LEMMA UndoMoves ==
  ASSUME TypeOK, NEW u \in Txns, Thread(u), Undo(u)
  PROVE  Moves(u)
<1>1. /\ Undid(u) /\ index' \in [Tables -> [Keys -> Rids \cup {TABLE}]] /\ pc[u] = "undo"
      /\ UNCHANGED <<lockVars, indexed, stmt, left, count, seen>>
  BY Zenon, UndoUndoes
<1>2. PICK p \in {"undo", "stuck", "undo_full"} : pc' = [pc EXCEPT ![u] = p]
  BY SMTT(30), UndoUndoes
<1>3. pc'[u] = p /\ pc' \in [Txns -> Points] /\ \A t \in Txns : t # u => pc'[t] = pc[t]
  BY Zenon, <1>2 DEF TypeOK, Points
<1>4. \A t \in Txns, tab \in Tables, m \in LockMode : Has(t, tab, m) <=> Has(t, tab, m)'
  BY Zenon, <1>1 DEF Has, lockVars
<1>5. {"IX", "S", "X"} \subseteq LockMode
  BY Zenon DEF LockMode
<1>6. Keeping(u) /\ Keeping(u)' /\ state[u] = "ABORTED"
  BY Zenon, <1>1, <1>3 DEF Keeping, Thread, StateAt
<1>7. /\ heap' \in [Tables -> [Rids -> Cell]] /\ write_set' \in [Txns -> Seq(WriteRecord)]
      /\ \A t \in Txns : t # u => write_set'[t] = write_set[t]
  BY Zenon, <1>1 DEF Undid, TypeOK
<1>8. WriteLocks(u)' /\ OldOwn(u)'
  <2>1. CASE write_set'[u] = write_set[u]
    BY Zenon, <1>4, <1>6, <2>1, SameCover
  <2>2. CASE write_set'[u] # write_set[u]
    <3>1. PICK n \in Nat \ {0} :
            /\ n = Len(write_set[u]) /\ Len(write_set'[u]) = n - 1
            /\ \A i \in 1 .. n - 1 : write_set'[u][i] = write_set[u][i]
      BY Zenon, <1>1, <2>2 DEF Undid
    <3>2. n - 1 \in Nat /\ n - 1 <= n
      OBVIOUS
    <3>3. Cuts(u, n - 1)
      BY Zenon, <3>1, <3>2, ShorterWrites
    <3> QED
      BY Zenon, <1>4, <1>5, <1>6, <3>2, <3>3, CutsOwn DEF Thread
  <2> QED
    BY Zenon, <2>1, <2>2
<1>9. Others(u)
  BY Zenon, <1>1, <1>3, <1>7 DEF Others, lockVars
<1>10. TypeOK'
  BY Zenon, <1>1, <1>3, <1>7 DEF TypeOK, LockTypeOK, lockVars
<1>11. ScanLocks(u)'
  BY Zenon, <1>1, <1>4, <1>5, <1>6 DEF Thread, ScanLocks
<1>12. StateAt(u)' /\ LeftCovers(u)' /\ EndedClean(u)'
  BY Zenon, <1>1, <1>3, <1>6 DEF Thread, StateAt, LeftCovers, EndedClean, Unended, lockVars
<1>13. StmtAt(u)' /\ LocksAt(u)'
  BY Zenon, <1>3 DEF StmtAt, LocksAt, InInsert, AfterScan
<1>14. Onward(u) /\ ~Halted(u)
  BY Zenon, <1>1, <1>4, <1>6 DEF Halted, Onward, lockVars
<1> QED
  BY Zenon, <1>8, <1>9, <1>10, <1>11, <1>12, <1>13, <1>14 DEF Moves, Thread

-----------------------------------------------------------------------------
(* Rows: every kind of step keeps RowInv.  Compatibility of the table locks *)
(* does the work, with WriteLocks and ScanLocks to tell that those who      *)
(* wrote or read still have theirs.                                         *)

\* Locks of two transactions on one table are compatible.
LEMMA Excludes ==
  ASSUME LockTypeOK, Compatible, NEW t \in Txns, NEW u \in Txns, t # u, NEW tab \in Tables,
         NEW m, NEW n, Has(t, tab, m), Has(u, tab, n)
  PROVE  <<m, n>> \in CompatibleModes
<1>1. <<tab, TABLE>> \in LockDataId
  BY Zenon DEF LockDataId
<1> QED
  BY Zenon, <1>1 DEF Has, Compatible

\* The writer of a row that is not committed still has the table locked.
LEMMA DirtyLocked ==
  ASSUME Inv, NEW t \in Txns, NEW tab \in Tables, NEW rid \in Rids, Dirty(t, tab, rid)
  PROVE  Keeping(t) /\ (Has(t, tab, "IX") \/ Has(t, tab, "X"))
<1>1. PICK i \in Nat : Wrote(t, i, tab, rid)
  BY Zenon DEF Inv, RowInv, DirtyListed
<1>2. write_set[t] # <<>>
  BY Zenon, <1>1, NoWrites
<1>3. Thread(t) /\ state[t] # "COMMITTED"
  BY Zenon DEF Inv, Dirty
<1>4. Keeping(t)
  BY Zenon, <1>2, <1>3 DEF Thread, Keeping, StateAt, EndedClean
<1> QED
  BY Zenon, <1>1, <1>3, <1>4 DEF Thread, WriteLocks

\* A growing transaction has the tables it scanned locked.
LEMMA ScannedLocked ==
  ASSUME Inv, NEW t \in Txns, NEW tab \in Tables, state[t] = "GROWING", seen[t][tab] # <<>>
  PROVE  Has(t, tab, "S")
<1>1. Thread(t)
  BY Zenon DEF Inv
<1>2. Keeping(t)
  BY Zenon, <1>1 DEF Thread, StateAt, Keeping
<1> QED
  BY Zenon, <1>1, <1>2 DEF Thread, ScanLocks

\* The rows nobody touches stay clean; a committed write set may be dropped.
LEMMA QuietRows ==
  ASSUME Inv, NEW u \in Txns, Moves(u), UNCHANGED <<heap, seen>>,
         \/ write_set' = write_set
         \/ state[u] = "COMMITTED" /\ write_set' = [write_set EXCEPT ![u] = <<>>]
  PROVE  RowInv'
<1>1. TypeOK /\ RowInv /\ Thread(u)
  BY Zenon DEF Inv
<1>2. TypeOK' /\ Others(u) /\ Thread(u)' /\ Onward(u) /\ ~Halted(u)
  BY Zenon DEF Moves
<1>3. \A t \in Txns : state[t] = "COMMITTED" => state'[t] = "COMMITTED"
  BY Zenon, <1>2 DEF Others, Onward
<1>4. /\ \A t \in Txns, i \in Nat, tab \in Tables, rid \in Rids :
           Wrote(t, i, tab, rid)' => Wrote(t, i, tab, rid)
      /\ \A t \in Txns, i \in Nat, by \in Txns : OldBy(t, i, by)' => OldBy(t, i, by)
  <2>1. ASSUME NEW t \in Txns, write_set'[t] # write_set[t]
        PROVE  write_set'[t] = <<>>
    <3>1. t = u /\ write_set' = [write_set EXCEPT ![u] = <<>>]
      BY Zenon, <1>2, <2>1 DEF Others
    <3> QED
      BY Zenon, <1>1, <3>1 DEF TypeOK
  <2>2. ASSUME NEW t \in Txns, write_set'[t] = <<>>
        PROVE  /\ \A i \in Nat, tab \in Tables, rid \in Rids : ~Wrote(t, i, tab, rid)'
               /\ \A i \in Nat, by \in Txns : ~OldBy(t, i, by)'
    BY <2>2, EmptySequence DEF Wrote, OldBy
  <2> QED
    BY Zenon, <2>1, <2>2, SameWrites
<1>5. ASSUME NEW t \in Txns, NEW tab \in Tables, NEW rid \in Rids, Dirty(t, tab, rid)'
      PROVE  Dirty(t, tab, rid) /\ write_set'[t] = write_set[t]
  <2>1. state[t] # "COMMITTED" /\ Dirty(t, tab, rid)
    BY Zenon, <1>3, <1>5 DEF Dirty
  <2> QED
    BY Zenon, <1>2, <2>1 DEF Others
<1>6. DirtyListed'
  BY Zenon, <1>1, <1>5, SameWrites DEF RowInv, DirtyListed
<1>7. DirtyLive'
  <2> SUFFICES ASSUME NEW t \in Txns, NEW tab \in Tables, NEW rid \in Rids, Dirty(t, tab, rid)'
               PROVE  (Live(heap[tab][rid]) \/ Has(t, tab, "X"))'
    BY Zenon DEF DirtyLive
  <2>1. Live(heap[tab][rid]) \/ Has(t, tab, "X")
    BY Zenon, <1>1, <1>5 DEF RowInv, DirtyLive
  <2>2. Has(t, tab, "X") => Has(t, tab, "X")'
    <3>1. CASE t # u
      BY Zenon, <1>2, <3>1, OthersKeepLocks
    <3>2. CASE t = u
      <4>1. PICK i \in Nat : Wrote(u, i, tab, rid)'
        BY Zenon, <1>6, <3>2 DEF DirtyListed
      <4>2. write_set'[u] # <<>> /\ state'[u] # "COMMITTED"
        BY <3>2, <4>1, EmptySequence DEF Wrote, Dirty
      <4>3. Keeping(u)'
        BY Zenon, <1>2, <4>2 DEF Thread, Keeping, StateAt, EndedClean
      <4> QED
        BY Zenon, <1>2, <3>2, <4>3 DEF Onward, LockMode
    <3> QED
      BY Zenon, <3>1, <3>2
  <2> QED
    BY Zenon, <2>1, <2>2 DEF Live
<1>8. OldClean'
  BY Zenon, <1>1, <1>3, <1>4 DEF RowInv, OldClean
<1>9. OwnRows'
  <2>1. \A t \in Txns : ~Halted(t)' => ~Halted(t)
    BY Zenon, <1>2 DEF Halted, Others
  <2>2. OwnRows
    BY Zenon, <1>1 DEF RowInv
  <2> QED
    BY <1>3, <1>4, <2>1, <2>2 DEF OwnRows
<1>10. SeenClean'
  BY <1>1, <1>3 DEF RowInv, SeenClean, SawBy
<1>11. ReadsStay'
  <2>1. ASSUME NEW t \in Txns, NEW tab \in Tables, state'[t] = "GROWING", seen[t][tab] # <<>>
        PROVE  state[t] = "GROWING"
    <3>1. CASE t # u
      BY Zenon, <1>2, <2>1, <3>1 DEF Others
    <3>2. CASE t = u
      <4>1. pc[u] \in Unended
        BY Zenon, <1>2, <2>1, <3>2 DEF Onward
      <4>2. Has(u, tab, "S") /\ state[u] \in {"DEFAULT", "GROWING"}
        BY Zenon, <1>1, <2>1, <3>2, <4>1 DEF Thread, ScanLocks, Keeping, Unended, StateAt
      <4>3. state[u] # "DEFAULT"
        BY <4>2 DEF Inv, LockInv, FreshHoldsNothing, Has, LockDataId
      <4> QED
        BY Zenon, <3>2, <4>2, <4>3
    <3> QED
      BY Zenon, <3>1, <3>2
  <2> QED
    BY Zenon, <1>1, <2>1 DEF RowInv, ReadsStay
<1> QED
  BY Zenon, <1>6, <1>7, <1>8, <1>9, <1>10, <1>11 DEF RowInv

\* A scan sees no row of another that is not committed: its lock would not be
\* compatible with the writer's.
LEMMA ScanRows ==
  ASSUME Inv, NEW u \in Txns, Moves(u), Scan(u)
  PROVE  RowInv'
<1>1. TypeOK /\ RowInv /\ LockTypeOK /\ Compatible
  BY Zenon DEF Inv, LockInv
<1>2. PICK tab \in Tables :
        /\ Has(u, tab, "S")
        /\ seen' = [seen EXCEPT ![u][tab] = heap[tab]]
        /\ UNCHANGED <<lockVars, heap, write_set>>
  BY ZenonT(40) DEF Scan, Inv, Thread, StmtAt, LocksAt, Statement, Tab, data
<1>3. /\ seen'[u][tab] = heap[tab]
      /\ \A t \in Txns, other \in Tables : (t = u /\ other = tab) \/ seen'[t][other] = seen[t][other]
  BY Zenon, <1>1, <1>2 DEF TypeOK
<1>4. UNCHANGED <<state, heap, write_set, lock_table>>
  BY Zenon, <1>2 DEF lockVars
<1>5. /\ \A t \in Txns, i \in Nat, other \in Tables, rid \in Rids :
           Wrote(t, i, other, rid)' <=> Wrote(t, i, other, rid)
      /\ \A t \in Txns, i \in Nat, by \in Txns : OldBy(t, i, by)' <=> OldBy(t, i, by)
  BY Zenon, <1>4, SameWrites
<1>6. \A t \in Txns, other \in Tables, rid \in Rids : Dirty(t, other, rid)' <=> Dirty(t, other, rid)
  BY Zenon, <1>4 DEF Dirty
<1>7. DirtyListed' /\ OldClean'
  BY Zenon, <1>1, <1>4, <1>5, <1>6 DEF RowInv, DirtyListed, OldClean
<1>8. DirtyLive'
  BY Zenon, <1>1, <1>4, <1>6 DEF RowInv, DirtyLive, Has, Live
<1>9. OwnRows'
  <2>1. \A t \in Txns : ~Halted(t)' => ~Halted(t)
    BY Zenon DEF Halted, Moves, Others
  <2> QED
    BY <1>1, <1>4, <1>5, <2>1 DEF RowInv, OwnRows
<1>10. ASSUME NEW by \in Txns, by # u, NEW rid \in Rids, heap[tab][rid].by = by
       PROVE  state[by] = "COMMITTED"
  <2>1. SUFFICES ASSUME state[by] # "COMMITTED"
                 PROVE  FALSE
    BY Zenon
  <2>2. Dirty(by, tab, rid)
    BY Zenon, <1>10, <2>1 DEF Dirty
  <2>3. Has(by, tab, "IX") \/ Has(by, tab, "X")
    BY Zenon, <2>2, DirtyLocked
  <2>4. <<"IX", "S">> \in CompatibleModes \/ <<"X", "S">> \in CompatibleModes
    BY Zenon, <1>1, <1>2, <1>10, <2>3, Excludes
  <2> QED
    BY Zenon, <2>4 DEF CompatibleModes
<1>11. SeenClean'
  <2> SUFFICES ASSUME NEW t \in Txns, NEW by \in Txns, NEW other \in Tables, NEW rid \in Rids,
                      SawBy(t, other, rid, by)', by # t
               PROVE  state[by] = "COMMITTED"
    BY Zenon, <1>4 DEF SeenClean
  <2>1. CASE t = u /\ other = tab
    BY Zenon, <1>3, <1>10, <2>1 DEF SawBy
  <2>2. CASE ~(t = u /\ other = tab)
    <3>1. SawBy(t, other, rid, by)
      BY Zenon, <1>3, <2>2 DEF SawBy
    <3> QED
      BY Zenon, <1>1, <3>1 DEF RowInv, SeenClean
  <2> QED
    BY Zenon, <2>1, <2>2
<1>12. ReadsStay'
  BY <1>1, <1>3, <1>4 DEF RowInv, ReadsStay
<1> QED
  BY Zenon, <1>7, <1>8, <1>9, <1>11, <1>12 DEF RowInv

\* A write to a row that no other has dirty leaves the rows clean.
LEMMA WriteRows ==
  ASSUME Inv, NEW u \in Txns, Moves(u), NEW tab \in Tables, NEW rid \in Rids,
         NEW key \in Keys \cup {NONE}, Wrote1(u, tab, rid, key),
         UNCHANGED <<lockVars, seen>>, state[u] # "COMMITTED",
         Has(u, tab, "IX") \/ Has(u, tab, "X"),
         key # NONE \/ Has(u, tab, "X"),
         \A t \in Txns : t # u => ~Dirty(t, tab, rid)
  PROVE  RowInv'
<1>1. RowInv /\ LockTypeOK /\ Compatible
  BY Zenon DEF Inv, LockInv
<1>2. /\ heap'[tab][rid].by = u /\ heap'[tab][rid].key = key
      /\ \A t \in Tables, r \in Rids : (t = tab /\ r = rid) \/ heap'[t][r] = heap[t][r]
  BY DEF Wrote1
<1>3. UNCHANGED <<state, lock_table, seen>>
  BY Zenon DEF lockVars
<1>4. PICK n \in Nat : Adds(u, n, tab, rid)
  BY Zenon, WroteRow
<1>5. \A t \in Txns : t # u => write_set'[t] = write_set[t]
  BY Zenon DEF Wrote1
<1>6. ASSUME NEW t \in Txns, NEW i \in Nat, NEW other \in Tables, NEW r \in Rids
      PROVE  /\ Wrote(t, i, other, r) => Wrote(t, i, other, r)'
             /\ Wrote(t, i, other, r)' => Wrote(t, i, other, r) \/ (t = u /\ other = tab /\ r = rid)
  <2>1. CASE t = u
    BY Zenon, <1>4, <2>1 DEF Adds
  <2>2. CASE t # u
    BY Zenon, <1>5, <2>2, SameWrites
  <2> QED
    BY Zenon, <2>1, <2>2
<1>7. ASSUME NEW t \in Txns, NEW i \in Nat, NEW by \in Txns, OldBy(t, i, by)'
      PROVE  OldBy(t, i, by) \/ (t = u /\ heap[tab][rid].by = by)
  <2>1. CASE t = u
    BY Zenon, <1>4, <1>7, <2>1 DEF Adds
  <2>2. CASE t # u
    BY Zenon, <1>5, <1>7, <2>2, SameWrites
  <2> QED
    BY Zenon, <2>1, <2>2
<1>8. ASSUME NEW t \in Txns, NEW other \in Tables, NEW r \in Rids, Dirty(t, other, r)'
      PROVE  (Dirty(t, other, r) /\ heap'[other][r] = heap[other][r]) \/ (t = u /\ other = tab /\ r = rid)
  BY Zenon, <1>2, <1>3, <1>8 DEF Dirty
<1>9. DirtyListed'
  <2> SUFFICES ASSUME NEW t \in Txns, NEW other \in Tables, NEW r \in Rids, Dirty(t, other, r)'
               PROVE  \E i \in Nat : Wrote(t, i, other, r)'
    BY Zenon DEF DirtyListed
  <2>1. CASE Dirty(t, other, r)
    BY Zenon, <1>1, <1>6, <2>1 DEF RowInv, DirtyListed
  <2>2. CASE t = u /\ other = tab /\ r = rid
    <3>1. n + 1 \in Nat /\ Wrote(u, n + 1, tab, rid)'
      BY <1>4 DEF Adds
    <3> QED
      BY Zenon, <2>2, <3>1
  <2> QED
    BY Zenon, <1>8, <2>1, <2>2
<1>10. DirtyLive'
  <2> SUFFICES ASSUME NEW t \in Txns, NEW other \in Tables, NEW r \in Rids, Dirty(t, other, r)'
               PROVE  (Live(heap[other][r]) \/ Has(t, other, "X"))'
    BY Zenon DEF DirtyLive
  <2>1. Has(t, other, "X") => Has(t, other, "X")'
    BY Zenon, <1>3 DEF Has
  <2>2. CASE Dirty(t, other, r) /\ heap'[other][r] = heap[other][r]
    BY Zenon, <1>1, <2>1, <2>2 DEF RowInv, DirtyLive, Live
  <2>3. CASE t = u /\ other = tab /\ r = rid
    BY Zenon, <1>2, <2>1, <2>3 DEF Live
  <2> QED
    BY Zenon, <1>8, <2>2, <2>3
<1>11. OldClean'
  <2> SUFFICES ASSUME NEW t \in Txns, NEW by \in Txns, NEW i \in Nat, OldBy(t, i, by)', by # t
               PROVE  state[by] = "COMMITTED"
    BY Zenon, <1>3 DEF OldClean
  <2>1. CASE OldBy(t, i, by)
    BY Zenon, <1>1, <2>1 DEF RowInv, OldClean
  <2>2. CASE t = u /\ heap[tab][rid].by = by
    BY Zenon, <2>2 DEF Dirty
  <2> QED
    BY Zenon, <1>7, <2>1, <2>2
<1>12. OwnRows'
  <2> SUFFICES ASSUME NEW t \in Txns, NEW i \in Nat, NEW other \in Tables, NEW r \in Rids,
                      Wrote(t, i, other, r)', state[t] # "COMMITTED", ~Halted(t)'
               PROVE  heap'[other][r].by = t
    BY <1>3 DEF OwnRows
  <2>1. CASE t = u /\ other = tab /\ r = rid
    BY Zenon, <1>2, <2>1
  <2>2. CASE Wrote(t, i, other, r) /\ ~(t = u /\ other = tab /\ r = rid)
    <3>1. ~Halted(t)
      BY Zenon DEF Halted, Moves, Others
    <3>2. heap[other][r].by = t
      BY <1>1, <2>2, <3>1 DEF RowInv, OwnRows
    <3>3. ~(other = tab /\ r = rid)
      BY Zenon, <2>2, <3>2 DEF Dirty
    <3> QED
      BY Zenon, <1>2, <3>2, <3>3
  <2> QED
    BY Zenon, <1>6, <2>1, <2>2
<1>13. SeenClean'
  BY <1>1, <1>3 DEF RowInv, SeenClean, SawBy
<1>14. ReadsStay'
  <2>1. ASSUME NEW t \in Txns, t # u, state[t] = "GROWING", seen[t][tab] # <<>>
        PROVE  FALSE
    <3>1. Has(t, tab, "S")
      BY Zenon, <2>1, ScannedLocked
    <3>2. <<"S", "IX">> \in CompatibleModes \/ <<"S", "X">> \in CompatibleModes
      BY Zenon, <1>1, <2>1, <3>1, Excludes
    <3> QED
      BY Zenon, <3>2 DEF CompatibleModes
  <2> QED
    BY <1>1, <1>2, <1>3, <2>1 DEF RowInv, ReadsStay
<1> QED
  BY Zenon, <1>9, <1>10, <1>11, <1>12, <1>13, <1>14 DEF RowInv

\* The undo of the n-th write of u: its row gets the old contents, and the write
\* set loses it unless the undo is stuck.
TakesBack(u, n, tab, rid, old) ==
  /\ Wrote(u, n, tab, rid)
  /\ heap'[tab][rid] = old
  /\ \A t \in Tables, r \in Rids : (t = tab /\ r = rid) \/ heap'[t][r] = heap[t][r]
  /\ \A by \in Txns : OldBy(u, n, by) <=> old.by = by
  /\ OldLive(u, n) <=> Live(old)
  /\ \A t \in Txns : t # u => write_set'[t] = write_set[t]
  /\ \A i \in Nat, t \in Tables, r \in Rids :
       Wrote(u, i, t, r) => i \in 1 .. n - 1 \/ (i = n /\ t = tab /\ r = rid)
  /\ Cuts(u, n - 1) \/ (Halted(u)' /\ write_set' = write_set)

\* An undo that gets so far takes back the last write.
LEMMA UndidRow ==
  ASSUME NEW u \in Txns, Undid(u), ~(heap' = heap /\ write_set' = write_set)
  PROVE  \E n \in Nat, tab \in Tables, rid \in Rids, old \in Cell : TakesBack(u, n, tab, rid, old)
<1> DEFINE s == write_set[u]
<1>1. PICK n \in Nat \ {0}, w \in WriteRecord :
        /\ n = Len(s) /\ w = s[n] /\ heap'[w.tab][w.rid] = w.old
        /\ \A t \in Tables, r \in Rids : ~(t = w.tab /\ r = w.rid) => heap'[t][r] = heap[t][r]
        /\ \/ write_set' = write_set /\ Halted(u)'
           \/ /\ \A t \in Txns : t # u => write_set'[t] = write_set[t]
              /\ Len(write_set'[u]) = n - 1
              /\ \A i \in 1 .. n - 1 : write_set'[u][i] = s[i]
  BY Zenon DEF Undid
<1>2. PICK tab \in Tables, rid \in Rids, old \in Cell : tab = w.tab /\ rid = w.rid /\ old = w.old
  BY Zenon DEF WriteRecord
<1>3. Wrote(u, n, tab, rid)
  <2>1. n \in 1 .. n
    OBVIOUS
  <2> QED
    BY Zenon, <1>1, <1>2, <2>1 DEF Wrote
<1>4. (\A by \in Txns : OldBy(u, n, by) <=> old.by = by) /\ (OldLive(u, n) <=> Live(old))
  <2>1. n \in 1 .. n
    OBVIOUS
  <2> QED
    BY Zenon, <1>1, <1>2, <2>1 DEF OldBy, OldLive, Live
<1>5. ASSUME NEW i \in Nat, NEW t \in Tables, NEW r \in Rids, Wrote(u, i, t, r)
      PROVE  i \in 1 .. n - 1 \/ (i = n /\ t = tab /\ r = rid)
  <2>1. i \in 1 .. n /\ s[i].tab = t /\ s[i].rid = r
    BY Zenon, <1>1, <1>5 DEF Wrote
  <2>2. i = n => t = tab /\ r = rid
    BY Zenon, <1>1, <1>2, <2>1
  <2> QED
    BY <2>1, <2>2
<1>6. ASSUME write_set' # write_set
      PROVE  Cuts(u, n - 1)
  <2>1. n - 1 \in Nat /\ n - 1 <= n /\ n \in Nat
    OBVIOUS
  <2> QED
    BY Zenon, <1>1, <1>6, <2>1, ShorterWrites
<1>7. Cuts(u, n - 1) \/ (Halted(u)' /\ write_set' = write_set)
  <2>1. n - 1 # n
    OBVIOUS
  <2> QED
    BY Zenon, <1>1, <1>6, <2>1
<1>8. \A t \in Txns : t # u => write_set'[t] = write_set[t]
  BY Zenon, <1>1
<1>9. TakesBack(u, n, tab, rid, old)
  BY Zenon, <1>1, <1>2, <1>3, <1>4, <1>5, <1>7, <1>8 DEF TakesBack
<1> QED
  BY Zenon, <1>9

\* Undo leaves the rows clean: what comes back is a committed row or an earlier
\* one of its own, and no other has written the row meanwhile.
LEMMA UndoRows ==
  ASSUME Inv, NEW u \in Txns, Moves(u), Undo(u)
  PROVE  RowInv'
<1>1. TypeOK /\ RowInv /\ Thread(u) /\ LockTypeOK /\ Compatible
  BY Zenon DEF Inv, LockInv
<1>2. Undid(u) /\ pc[u] = "undo" /\ UNCHANGED <<lockVars, seen>>
  BY Zenon, <1>1, UndoUndoes
<1>3. CASE heap' = heap /\ write_set' = write_set
  BY Zenon, <1>2, <1>3, QuietRows
<1>4. CASE ~(heap' = heap /\ write_set' = write_set)
  <2>1. PICK n \in Nat, tab \in Tables, rid \in Rids, old \in Cell : TakesBack(u, n, tab, rid, old)
    BY Zenon, <1>2, <1>4, UndidRow
  <2>2. UNCHANGED <<state, lock_table, seen>>
    BY Zenon, <1>2 DEF lockVars
  <2>3. state[u] = "ABORTED" /\ Keeping(u)
    BY Zenon, <1>1, <1>2 DEF Thread, StateAt, Keeping
  <2>4. \A t \in Txns : ~Halted(t)' => ~Halted(t)
    BY Zenon DEF Halted, Moves, Others
  <2>5. heap[tab][rid].by = u
    BY Zenon, <1>1, <1>2, <2>1, <2>3 DEF Halted, RowInv, OwnRows, TakesBack
  <2>6. Has(u, tab, "IX") \/ Has(u, tab, "X")
    BY Zenon, <1>1, <2>1, <2>3 DEF Thread, WriteLocks, TakesBack
  <2>7. /\ old.by = u <=> \E i \in 1 .. n - 1 : Wrote(u, i, tab, rid)
        /\ old.by = u => Live(old) \/ Has(u, tab, "X")
    BY Zenon, <1>1, <2>1, <2>3 DEF Thread, OldOwn, TakesBack
  <2>8. \A by \in Txns : old.by = by /\ by # u => state[by] = "COMMITTED"
    BY Zenon, <1>1, <2>1 DEF RowInv, OldClean, TakesBack
  <2>9. ASSUME NEW t \in Txns, NEW i \in Nat, NEW other \in Tables, NEW r \in Rids
        PROVE  /\ Wrote(t, i, other, r)' => Wrote(t, i, other, r)
               /\ Wrote(t, i, other, r) => Wrote(t, i, other, r)' \/ (t = u /\ other = tab /\ r = rid)
               /\ Wrote(t, i, other, r)' /\ t = u => i \in 1 .. n - 1 \/ Halted(u)'
               /\ Wrote(u, i, other, r) /\ i \in 1 .. n - 1 => Wrote(u, i, other, r)'
    <3>1. CASE t # u
      BY Zenon, <2>1, <3>1, SameWrites DEF TakesBack, Cuts
    <3>2. CASE t = u /\ Cuts(u, n - 1)
      BY Zenon, <2>1, <3>2 DEF TakesBack, Cuts
    <3>3. CASE t = u /\ Halted(u)' /\ write_set' = write_set
      BY Zenon, <3>3, SameWrites
    <3> QED
      BY Zenon, <2>1, <3>1, <3>2, <3>3 DEF TakesBack
  <2>10. ASSUME NEW t \in Txns, NEW i \in Nat, NEW by \in Txns, OldBy(t, i, by)'
         PROVE  OldBy(t, i, by)
    <3>1. CASE write_set'[t] = write_set[t]
      BY Zenon, <2>10, <3>1, SameWrites
    <3>2. CASE t = u /\ Cuts(u, n - 1)
      BY Zenon, <2>10, <3>2 DEF Cuts
    <3> QED
      BY Zenon, <2>1, <3>1, <3>2 DEF TakesBack
  <2>11. ASSUME NEW t \in Txns, NEW other \in Tables, NEW r \in Rids, Dirty(t, other, r)'
         PROVE  \/ Dirty(t, other, r) /\ heap'[other][r] = heap[other][r] /\ ~(other = tab /\ r = rid)
                \/ t = u /\ other = tab /\ r = rid /\ old.by = u /\ heap'[tab][rid] = old
    <3>1. CASE other = tab /\ r = rid
      BY Zenon, <2>1, <2>2, <2>8, <2>11, <3>1 DEF TakesBack, Dirty
    <3>2. CASE ~(other = tab /\ r = rid)
      BY <2>1, <2>2, <2>11, <3>2 DEF TakesBack, Dirty
    <3> QED
      BY Zenon, <3>1, <3>2
  <2>12. DirtyListed'
    <3> SUFFICES ASSUME NEW t \in Txns, NEW other \in Tables, NEW r \in Rids, Dirty(t, other, r)'
                 PROVE  \E i \in Nat : Wrote(t, i, other, r)'
      BY Zenon DEF DirtyListed
    <3>1. CASE Dirty(t, other, r) /\ ~(other = tab /\ r = rid)
      BY <1>1, <2>9, <3>1 DEF RowInv, DirtyListed
    <3>2. CASE t = u /\ other = tab /\ r = rid /\ old.by = u
      BY <2>7, <2>9, <3>2
    <3> QED
      BY Zenon, <2>11, <3>1, <3>2
  <2>13. DirtyLive'
    <3> SUFFICES ASSUME NEW t \in Txns, NEW other \in Tables, NEW r \in Rids, Dirty(t, other, r)'
                 PROVE  (Live(heap[other][r]) \/ Has(t, other, "X"))'
      BY Zenon DEF DirtyLive
    <3>1. Has(t, other, "X") => Has(t, other, "X")'
      BY Zenon, <2>2 DEF Has
    <3>2. CASE Dirty(t, other, r) /\ heap'[other][r] = heap[other][r]
      BY Zenon, <1>1, <3>1, <3>2 DEF RowInv, DirtyLive, Live
    <3>3. CASE t = u /\ other = tab /\ r = rid /\ old.by = u /\ heap'[tab][rid] = old
      BY Zenon, <2>7, <3>1, <3>3 DEF Live
    <3> QED
      BY Zenon, <2>11, <3>2, <3>3
  <2>14. OldClean'
    BY Zenon, <1>1, <2>2, <2>10 DEF RowInv, OldClean
  <2>15. OwnRows'
    <3> SUFFICES ASSUME NEW t \in Txns, NEW i \in Nat, NEW other \in Tables, NEW r \in Rids,
                        Wrote(t, i, other, r)', state[t] # "COMMITTED", ~Halted(t)'
                 PROVE  heap'[other][r].by = t
      BY <2>2 DEF OwnRows
    <3>1. Wrote(t, i, other, r) /\ (t = u => i \in 1 .. n - 1)
      BY Zenon, <2>9
    <3>2. heap[other][r].by = t
      BY <1>1, <2>4, <3>1 DEF RowInv, OwnRows
    <3>3. CASE other = tab /\ r = rid
      <4>1. t = u
        BY Zenon, <2>5, <3>2, <3>3
      <4>2. old.by = u
        BY Zenon, <2>7, <3>1, <3>3, <4>1
      <4> QED
        BY Zenon, <2>1, <3>3, <4>1, <4>2 DEF TakesBack
    <3>4. CASE ~(other = tab /\ r = rid)
      BY Zenon, <2>1, <3>2, <3>4 DEF TakesBack
    <3> QED
      BY Zenon, <3>3, <3>4
  <2>16. SeenClean'
    BY Zenon, <1>1, <2>2 DEF RowInv, SeenClean, SawBy
  <2>17. ReadsStay'
    <3>1. ASSUME NEW t \in Txns, state[t] = "GROWING", seen[t][tab] # <<>>
          PROVE  FALSE
      <4>1. Has(t, tab, "S") /\ t # u
        BY Zenon, <2>3, <3>1, ScannedLocked
      <4>2. <<"S", "IX">> \in CompatibleModes \/ <<"S", "X">> \in CompatibleModes
        BY Zenon, <1>1, <2>6, <4>1, Excludes
      <4> QED
        BY Zenon, <4>2 DEF CompatibleModes
    <3>2. \A t \in Tables, r \in Rids : t # tab => heap'[t][r] = heap[t][r]
      BY Zenon, <2>1 DEF TakesBack
    <3> QED
      BY <1>1, <2>2, <3>1, <3>2 DEF RowInv, ReadsStay
  <2> QED
    BY Zenon, <2>12, <2>13, <2>14, <2>15, <2>16, <2>17 DEF RowInv
<1> QED
  BY Zenon, <1>3, <1>4

\* An inserted row takes a slot that is not live; a deleter, whose slots are not
\* live either, would have the table locked in X.
LEMMA InsertRecordKeeps ==
  ASSUME Inv, NEW u \in Txns, InsertRecord(u)
  PROVE  Moves(u) /\ RowInv'
<1>1. TypeOK /\ Thread(u) /\ LockTypeOK /\ Compatible /\ DirtyListed /\ DirtyLive /\ OwnRows
  BY Zenon DEF Inv, LockInv, RowInv
<1>2. PICK tab \in Tables, key \in Keys :
        /\ pc[u] = "ins_heap" /\ stmt[u] \in Statement /\ stmt[u].tab = tab /\ stmt[u].key = key
        /\ state[u] \in {"DEFAULT", "GROWING"} /\ Has(u, tab, "IX")
  BY Zenon, <1>1 DEF InsertRecord, Thread, StmtAt, LocksAt, InInsert, Statement, StateAt, Unended, Tab
<1>3. PICK rid \in Rids \ LiveRids(tab) :
        /\ Write(u, "INSERT", rid, key) /\ stmt' = [stmt EXCEPT ![u].rid = rid]
        /\ Goto(u, "ins_xlock")
        /\ UNCHANGED <<lockVars, indexed, index, left, count, seen>>
  BY Zenon, <1>2 DEF InsertRecord, Tab
<1>4. Wrote1(u, tab, rid, key)
  BY Zenon, <1>1, <1>2, <1>3, WriteWrites DEF Tab
<1> DEFINE s == [stmt[u] EXCEPT !.rid = rid]
<1>5. s \in Statement /\ s.tab = tab /\ s.key = key /\ s.rid = rid
  BY Zenon, <1>2 DEF Statement
<1>6. stmt' = [stmt EXCEPT ![u] = s]
  BY Zenon, <1>3
<1> HIDE DEF s
<1>7. /\ stmt' \in [Txns -> Statement \cup {NONE}] /\ stmt'[u] = s
      /\ \A t \in Txns : t # u => stmt'[t] = stmt[t]
  BY Zenon, <1>1, <1>5, <1>6 DEF TypeOK
<1>8. pc' = [pc EXCEPT ![u] = "ins_xlock"] /\ pc'[u] = "ins_xlock"
  BY Zenon, <1>1, <1>3 DEF Goto, TypeOK
<1>9. Has(u, tab, "IX")'
  BY SMTT(30), <1>2, <1>3 DEF Has, lockVars
<1>10. StmtAt(u)' /\ LocksAt(u)'
  BY Zenon, <1>5, <1>7, <1>8, <1>9 DEF StmtAt, LocksAt, InInsert, AfterScan, Tab
<1>11. index' \in [Tables -> [Keys -> Rids \cup {TABLE}]] /\ pc[u] \in Unended /\ "ins_xlock" \in Unended
  BY SMTT(30), <1>1, <1>2, <1>3 DEF TypeOK, Unended
<1>12. Moves(u)
  BY ZenonT(40), <1>1, <1>2, <1>3, <1>4, <1>7, <1>8, <1>10, <1>11, WriteMoves
<1>13. ASSUME NEW t \in Txns, t # u, Dirty(t, tab, rid)
       PROVE  FALSE
  <2>1. Has(t, tab, "X")
    BY Zenon, <1>1, <1>3, <1>13 DEF DirtyLive, LiveRids
  <2>2. <<"X", "IX">> \in CompatibleModes
    BY Zenon, <1>1, <1>2, <1>13, <2>1, Excludes
  <2> QED
    BY Zenon, <2>2 DEF CompatibleModes
<1>14. key \in Keys \cup {NONE} /\ key # NONE /\ state[u] # "COMMITTED"
  BY Zenon, <1>2, NoneIsNew
<1>15. RowInv'
  BY SMTT(30), <1>2, <1>3, <1>4, <1>12, <1>13, <1>14, WriteRows
<1> QED
  BY Zenon, <1>12, <1>15

\* A deleted row is under an X lock of the table.
LEMMA DeleteRowKeeps ==
  ASSUME Inv, NEW u \in Txns, DeleteRow(u)
  PROVE  Moves(u) /\ RowInv'
<1>1. TypeOK /\ Thread(u) /\ LockTypeOK /\ Compatible /\ DirtyListed /\ DirtyLive /\ OwnRows
  BY Zenon DEF Inv, LockInv, RowInv
<1>2. PICK tab \in Tables :
        /\ pc[u] = "del_row" /\ stmt[u] \in Statement /\ stmt[u].tab = tab
        /\ stmt[u].todo \subseteq stmt[u].rids /\ stmt[u].todo \subseteq Rids
        /\ state[u] \in {"DEFAULT", "GROWING"} /\ Has(u, tab, "X") /\ Has(u, tab, "S")
  BY Zenon, <1>1 DEF DeleteRow, Thread, StmtAt, LocksAt, AfterScan, Statement, StateAt, Unended, Tab
<1>3. PICK rid \in Rids :
        /\ Write(u, "DELETE", rid, NONE) /\ stmt' = [stmt EXCEPT ![u].todo = @ \ {rid}]
        /\ \/ index' = index
           \/ index' = [index EXCEPT ![tab][heap[tab][rid].key] = TABLE]
        /\ UNCHANGED <<lockVars, indexed, pc, left, count, seen>>
  BY Zenon, <1>2 DEF DeleteRow, Tab
<1>4. Wrote1(u, tab, rid, NONE)
  BY Zenon, <1>1, <1>2, <1>3, WriteWrites DEF Tab
<1>5. /\ stmt' \in [Txns -> Statement \cup {NONE}]
      /\ \A t \in Txns : t # u => stmt'[t] = stmt[t]
      /\ stmt'[u] \in Statement /\ stmt'[u].todo = stmt[u].todo \ {rid}
      /\ stmt'[u].tab = stmt[u].tab /\ stmt'[u].rids = stmt[u].rids
  BY Zenon, <1>1, <1>2, <1>3, RowDone
<1>6. pc' = [pc EXCEPT ![u] = "del_row"] /\ pc'[u] = "del_row"
  BY Zenon, <1>1, <1>2, <1>3 DEF TypeOK
<1>7. Has(u, tab, "X")' /\ Has(u, tab, "S")'
  BY SMTT(30), <1>2, <1>3 DEF Has, lockVars
<1>8. StmtAt(u)' /\ LocksAt(u)'
  BY Zenon, <1>2, <1>5, <1>6, <1>7 DEF StmtAt, LocksAt, InInsert, AfterScan, Tab
<1>9. index' \in [Tables -> [Keys -> Rids \cup {TABLE}]]
  <2>1. CASE index' = index
    BY Zenon, <1>1, <2>1 DEF TypeOK
  <2>2. CASE index' = [index EXCEPT ![tab][heap[tab][rid].key] = TABLE]
    BY SMTT(30), <1>1, <2>2, IndexEntry
  <2> QED
    BY SMTT(30), <1>3, <2>1, <2>2
<1>10. Moves(u)
  <2>1. "del_row" \in Unended /\ UNCHANGED <<lockVars, indexed, left, count, seen>>
    BY Zenon, <1>3 DEF Unended
  <2> QED
    BY Zenon, <1>1, <1>2, <1>4, <1>5, <1>6, <1>8, <1>9, <2>1, WriteMoves
<1>11. ASSUME NEW t \in Txns, t # u, Dirty(t, tab, rid)
       PROVE  FALSE
  <2>1. Has(t, tab, "IX") \/ Has(t, tab, "X")
    BY Zenon, <1>11, DirtyLocked
  <2>2. <<"IX", "X">> \in CompatibleModes \/ <<"X", "X">> \in CompatibleModes
    BY Zenon, <1>1, <1>2, <1>11, <2>1, Excludes
  <2> QED
    BY Zenon, <2>2 DEF CompatibleModes
<1>12. RowInv'
  BY Zenon, <1>2, <1>3, <1>4, <1>10, <1>11, WriteRows
<1> QED
  BY SMTT(30), <1>10, <1>12

\* An updated row is in a table the update has scanned under S and has IX on.
LEMMA UpdateRowKeeps ==
  ASSUME Inv, NEW u \in Txns, UpdateRow(u)
  PROVE  Moves(u) /\ RowInv'
<1>1. TypeOK /\ Thread(u) /\ LockTypeOK /\ Compatible /\ DirtyListed /\ DirtyLive /\ OwnRows
  BY Zenon DEF Inv, LockInv, RowInv
<1>2. PICK tab \in Tables :
        /\ pc[u] = "upd_row" /\ stmt[u] \in Statement /\ stmt[u].tab = tab
        /\ stmt[u].todo \subseteq stmt[u].rids /\ stmt[u].todo \subseteq Rids
        /\ stmt[u].new \in [stmt[u].rids -> Keys]
        /\ state[u] \in {"DEFAULT", "GROWING"} /\ Has(u, tab, "S")
        /\ stmt[u].rids # {} => Has(u, tab, "IX")
  BY Zenon, <1>1 DEF UpdateRow, Thread, StmtAt, LocksAt, AfterScan, Statement, StateAt, Unended, Tab
<1>3. PICK rid \in stmt[u].todo :
        /\ Write(u, "UPDATE", rid, stmt[u].new[rid]) /\ stmt' = [stmt EXCEPT ![u].todo = @ \ {rid}]
        /\ UNCHANGED <<lockVars, indexed, index, pc, left, count, seen>>
  BY Zenon DEF UpdateRow
<1>4. PICK key \in Keys : key = stmt[u].new[rid]
  BY Zenon, <1>2, <1>3
<1>5. Has(u, tab, "IX") /\ rid \in Rids
  BY Zenon, <1>2, <1>3
<1>6. Wrote1(u, tab, rid, key)
  BY Zenon, <1>1, <1>2, <1>3, <1>4, <1>5, WriteWrites DEF Tab
<1>7. /\ stmt' \in [Txns -> Statement \cup {NONE}]
      /\ \A t \in Txns : t # u => stmt'[t] = stmt[t]
      /\ stmt'[u] \in Statement /\ stmt'[u].todo = stmt[u].todo \ {rid}
      /\ stmt'[u].tab = stmt[u].tab /\ stmt'[u].rids = stmt[u].rids /\ stmt'[u].new = stmt[u].new
  BY SMTT(30), <1>1, <1>2, <1>3, RowDone
<1>8. pc' = [pc EXCEPT ![u] = "upd_row"] /\ pc'[u] = "upd_row"
  BY Zenon, <1>1, <1>2, <1>3 DEF TypeOK
<1>9. Has(u, tab, "IX")' /\ Has(u, tab, "S")'
  BY SMTT(30), <1>2, <1>3, <1>5 DEF Has, lockVars
<1>10. StmtAt(u)' /\ LocksAt(u)'
  BY Zenon, <1>2, <1>7, <1>8, <1>9 DEF StmtAt, LocksAt, InInsert, AfterScan, Tab
<1>11. index' \in [Tables -> [Keys -> Rids \cup {TABLE}]] /\ "upd_row" \in Unended
  BY Zenon, <1>1, <1>3 DEF TypeOK, Unended
<1>12. Moves(u)
  BY ZenonT(30), <1>1, <1>2, <1>3, <1>5, <1>6, <1>7, <1>8, <1>10, <1>11, WriteMoves
<1>13. ASSUME NEW t \in Txns, t # u, Dirty(t, tab, rid)
       PROVE  FALSE
  <2>1. Has(t, tab, "IX") \/ Has(t, tab, "X")
    BY SMTT(30), <1>5, <1>13, DirtyLocked
  <2>2. <<"IX", "S">> \in CompatibleModes \/ <<"X", "S">> \in CompatibleModes
    BY SMTT(30), <1>1, <1>2, <1>13, <2>1, Excludes
  <2> QED
    BY Zenon, <2>2 DEF CompatibleModes
<1>14. key \in Keys \cup {NONE} /\ key # NONE /\ state[u] # "COMMITTED"
  BY Zenon, <1>2, NoneIsNew
<1>15. RowInv'
  BY Zenon, <1>3, <1>5, <1>6, <1>12, <1>13, <1>14, WriteRows
<1> QED
  BY Zenon, <1>12, <1>15
=============================================================================
