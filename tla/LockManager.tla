---------------------------- MODULE LockManager ----------------------------
(***************************************************************************)
(* The lock manager of src/transaction/concurrency/lock_manager.{h,cpp}:   *)
(* no-wait multi-granularity locking on tables and records.                *)
(*                                                                         *)
(* Every function of the class runs under latch_ (lock_IS_on_table and     *)
(* lock_IX_on_table under the caller's latch_), and what it touches of the *)
(* transaction (state_, lock_set_) belongs to the calling thread, so one   *)
(* call is one step.                                                       *)
(*                                                                         *)
(* A request queue is modelled by the set of its requests: every loop over *)
(* it asks whether some request conflicts, unlock erases all requests of a *)
(* transaction, and nothing depends on order or on duplicates.  A queue    *)
(* that is absent from lock_table_ and an empty one are both {}.           *)
(***************************************************************************)

CONSTANTS Txns,     \* transactions
          Tables,   \* files of tables (tab_fd)
          Rids,     \* record identifiers
          TABLE     \* the rid (-1, -1) of a table's LockDataId

ASSUME TableIsNoRid == TABLE \notin Rids

VARIABLES state,      \* Transaction::state_
          lock_set,   \* Transaction::lock_set_
          lock_table  \* LockManager::lock_table_

lockVars == <<state, lock_set, lock_table>>

-----------------------------------------------------------------------------
(* Types *)

TransactionState == {"DEFAULT", "GROWING", "SHRINKING", "COMMITTED", "ABORTED"}

LockMode == {"S", "X", "IS", "IX", "SIX"}

LockDataId == Tables \X (Rids \cup {TABLE})

LockRequest == [txn : Txns, mode : LockMode]

LockInit == /\ state = [t \in Txns |-> "DEFAULT"]
            /\ lock_set = [t \in Txns |-> {}]
            /\ lock_table = [id \in LockDataId |-> {}]

-----------------------------------------------------------------------------
(* What the lock functions share.  A call has a result: "true", "false" or *)
(* "throw" (TransactionAbortException with LOCK_ON_SHIRINKING).            *)

Results == {"true", "false", "throw"}

\* No other transaction has a request of one of these modes on id.
Free(txn, id, modes) ==
  \A r \in lock_table[id] : r.mode \in modes => r.txn = txn

\* Mutant: the ids are not entered in lock_set_.
PushUnlisted(txn, grants) ==
  /\ lock_table' = [id \in LockDataId |->
       lock_table[id] \cup {[txn |-> txn, mode |-> m] :
                              m \in {n \in LockMode : <<id, n>> \in grants}}]
  /\ UNCHANGED lock_set

\* Push a request for every <<id, mode>> of grants.
Push(txn, grants) ==
  /\ lock_table' = [id \in LockDataId |->
       lock_table[id] \cup {[txn |-> txn, mode |-> m] :
                              m \in {n \in LockMode : <<id, n>> \in grants}}]
  /\ lock_set' = [lock_set EXCEPT ![txn] =
       @ \cup {id \in LockDataId : \E m \in LockMode : <<id, m>> \in grants}]

\* Mutant: the SHRINKING check is missing.
PreambleUnchecked(txn, res) ==
  /\ res # "throw"
  /\ state' = [state EXCEPT ![txn] = "GROWING"]

\* The preamble of every lock function: a shrinking transaction is aborted,
\* any other becomes growing.
Preamble(txn, res) ==
  /\ (res = "throw") <=> (state[txn] = "SHRINKING")
  /\ state' = [state EXCEPT ![txn] = IF @ = "SHRINKING" THEN "ABORTED"
                                                        ELSE "GROWING"]

\* A lock on a table that conflicts with the given modes of the others.
TableLock(txn, tab, mode, conflicting, res) ==
  /\ Preamble(txn, res)
  /\ res # "throw" =>
       (res = "true") <=> Free(txn, <<tab, TABLE>>, conflicting)
  /\ Push(txn, IF res = "true" THEN {<<<<tab, TABLE>>, mode>>} ELSE {})

-----------------------------------------------------------------------------
(* The lock functions *)

lock_shared_on_table(txn, tab, res) ==
  TableLock(txn, tab, "S", {"IX", "SIX", "X"}, res)

lock_exclusive_on_table(txn, tab, res) ==
  TableLock(txn, tab, "X", LockMode, res)

lock_IS_on_table(txn, tab, res) ==
  TableLock(txn, tab, "IS", {"X"}, res)

\* Mutant: the S mode of others is forgotten.
lock_IX_beside_S(txn, tab, res) ==
  TableLock(txn, tab, "IX", {"SIX", "X"}, res)

lock_IX_on_table(txn, tab, res) ==
  TableLock(txn, tab, "IX", {"S", "SIX", "X"}, res)

lock_SIX_on_table(txn, tab, res) ==
  TableLock(txn, tab, "SIX", {"IX", "S", "SIX", "X"}, res)

\* The intention lock on the table stays when the record is refused.  An
\* aborted transaction is refused at once; one that already has X on the
\* record gets no second request for it.
lock_shared_on_record(txn, tab, rid, res) ==
  LET id    == <<tab, rid>>
      intent == <<<<tab, TABLE>>, "IS">>
      is    == Free(txn, <<tab, TABLE>>, {"X"})
      xs    == {r \in lock_table[id] : r.mode = "X"}
  IN \/ /\ state[txn] = "ABORTED"
        /\ res = "false"
        /\ UNCHANGED lockVars
     \/ /\ state[txn] # "ABORTED"
        /\ Preamble(txn, res)
        /\ res # "throw" =>
             (res = "true") <=> (is /\ Free(txn, id, {"X"}))
        /\ Push(txn, IF res = "throw" \/ ~is THEN {}
                     ELSE IF xs = {} THEN {intent, <<id, "S">>} ELSE {intent})

\* Mutant: no intention lock on the table.
lock_exclusive_on_record_alone(txn, tab, rid, res) ==
  /\ Preamble(txn, res)
  /\ res # "throw" => (res = "true") <=> Free(txn, <<tab, rid>>, LockMode)
  /\ Push(txn, IF res = "true" THEN {<<<<tab, rid>>, "X">>} ELSE {})

\* Mutant: the intention mode is pushed on the record's queue too.
lock_exclusive_on_record_as_IX(txn, tab, rid, res) ==
  LET ix == Free(txn, <<tab, TABLE>>, {"S", "SIX", "X"})
  IN /\ Preamble(txn, res)
     /\ res # "throw" => (res = "true") <=> (ix /\ Free(txn, <<tab, rid>>, LockMode))
     /\ Push(txn, IF res = "true" THEN {<<tab, TABLE>>, <<tab, rid>>} \X {"IX"} ELSE {})

lock_exclusive_on_record(txn, tab, rid, res) ==
  LET id    == <<tab, rid>>
      intent == <<<<tab, TABLE>>, "IX">>
      ix    == Free(txn, <<tab, TABLE>>, {"S", "SIX", "X"})
  IN /\ Preamble(txn, res)
     /\ res # "throw" =>
          (res = "true") <=> (ix /\ Free(txn, id, LockMode))
     /\ Push(txn, IF res = "throw" \/ ~ix THEN {}
                  ELSE IF res = "true" THEN {intent, <<id, "X">>} ELSE {intent})

unlock(txn, id) ==
  /\ state' = [state EXCEPT ![txn] = IF @ = "GROWING" THEN "SHRINKING" ELSE @]
  /\ lock_table' = [lock_table EXCEPT ![id] = {r \in @ : r.txn # txn}]
  /\ UNCHANGED lock_set

-----------------------------------------------------------------------------
(* Every client of the interface that keeps the contract the program keeps *)
(* (Transactions.tla shows that it does): no lock is asked for once the    *)
(* transaction has committed or aborted, for then SetTransaction begins a  *)
(* new one; locks are released by the ids in lock_set_; and lock_set_ is   *)
(* cleared, once the transaction has ended, when all of them are released. *)

Ended(txn) == state[txn] \in {"COMMITTED", "ABORTED"}

Lock(txn, tab) ==
  \E res \in Results :
    \/ lock_shared_on_table(txn, tab, res)
    \/ lock_exclusive_on_table(txn, tab, res)
    \/ lock_IS_on_table(txn, tab, res)
    \/ lock_IX_on_table(txn, tab, res)
    \/ lock_SIX_on_table(txn, tab, res)
    \/ \E rid \in Rids : \/ lock_shared_on_record(txn, tab, rid, res)
                         \/ lock_exclusive_on_record(txn, tab, rid, res)

Request(txn) == /\ ~Ended(txn)
                /\ \E tab \in Tables : Lock(txn, tab)

\* lock_shared_on_record is the one function that checks for ABORTED itself.
RequestAborted(txn) ==
  /\ state[txn] = "ABORTED"
  /\ \E tab \in Tables, rid \in Rids, res \in Results :
       lock_shared_on_record(txn, tab, rid, res)

Unlock(txn) == \E id \in lock_set[txn] : unlock(txn, id)

\* TransactionManager::commit and abort set the final state first.  A bare
\* "commit" or "abort" statement ends its implicit transaction twice.
End(txn, final) ==
  /\ state' = [state EXCEPT ![txn] = final]
  /\ UNCHANGED <<lock_set, lock_table>>

Holds(txn, id) == \E r \in lock_table[id] : r.txn = txn

\* The end of TransactionManager::release_locks.
ClearLockSet(txn) ==
  /\ Ended(txn)
  /\ \A id \in LockDataId : ~Holds(txn, id)
  /\ lock_set' = [lock_set EXCEPT ![txn] = {}]
  /\ UNCHANGED <<state, lock_table>>

LockNext ==
  \E txn \in Txns :
    \/ Request(txn)
    \/ RequestAborted(txn)
    \/ Unlock(txn)
    \/ End(txn, "COMMITTED")
    \/ End(txn, "ABORTED")
    \/ ClearLockSet(txn)

LockSpec == LockInit /\ [][LockNext]_lockVars

-----------------------------------------------------------------------------
(* Properties *)

\* The shape of the lock manager's state; record queues hold only S and X,
\* as the assertions in both record functions say.
LockTypeOK ==
  /\ state \in [Txns -> TransactionState]
  /\ lock_set \in [Txns -> SUBSET LockDataId]
  /\ lock_table \in [LockDataId -> SUBSET LockRequest]
  /\ \A tab \in Tables, rid \in Rids :
       \A r \in lock_table[<<tab, rid>>] : r.mode \in {"S", "X"}

\* The textbook compatibility of multi-granularity modes.
CompatibleModes ==
  {<<"IS", "IS">>, <<"IS", "IX">>, <<"IS", "S">>, <<"IS", "SIX">>,
   <<"IX", "IS">>, <<"IX", "IX">>,
   <<"S", "IS">>, <<"S", "S">>,
   <<"SIX", "IS">>}

\* Two transactions never hold requests on the same table or record whose
\* modes conflict, whichever of the seven functions granted them and in
\* whichever order requests, refusals and releases came.
Compatible ==
  \A id \in LockDataId : \A r, s \in lock_table[id] :
    r.txn # s.txn => <<r.mode, s.mode>> \in CompatibleModes

\* A table lock protects the records below it although nobody looks at them:
\* while two transactions are growing, one that may read a whole table (S or
\* SIX) excludes an X record lock of the other in it, and one with X on the
\* table excludes every record lock of the other.
TableLockCoversRecords ==
  \A t1, t2 \in Txns, tab \in Tables, rid \in Rids :
    \A r \in lock_table[<<tab, TABLE>>], s \in lock_table[<<tab, rid>>] :
      (/\ r.txn = t1 /\ s.txn = t2 /\ t1 # t2
       /\ state[t1] = "GROWING" /\ state[t2] = "GROWING")
        => /\ ~(r.mode \in {"S", "SIX"} /\ s.mode = "X")
           /\ r.mode # "X"

\* Every request a transaction has in the lock table is found through its
\* lock_set_, so release_locks, which walks lock_set_, leaves none behind.
NoOrphanRequest ==
  \A id \in LockDataId : \A r \in lock_table[id] : id \in lock_set[r.txn]

\* Two-phase locking: no step gives a new lock to a transaction that has
\* released one (SHRINKING) or has ended.
TwoPhase ==
  [][\A id \in LockDataId : \A r \in lock_table'[id] \ lock_table[id] :
       state[r.txn] \in {"DEFAULT", "GROWING"}]_lockVars
=============================================================================
