------------------------- MODULE LockManagerProofs -------------------------
(***************************************************************************)
(* Proofs about LockManager for every number of transactions, tables and   *)
(* records.  LockInv is the inductive invariant: the four invariants that  *)
(* TLC checks do not carry themselves through a grant, which also needs to *)
(* know that a growing transaction still has the intention lock under each *)
(* of its record locks, and that a fresh transaction has no request.       *)
(***************************************************************************)
EXTENDS LockManager, TLAPS

\* A growing transaction has the matching intention lock on the table of
\* every record it has locked.
IntentionHeld ==
  \A tab \in Tables, rid \in Rids : \A s \in lock_table[<<tab, rid>>] :
    state[s.txn] = "GROWING" =>
      [txn |-> s.txn, mode |-> IF s.mode = "X" THEN "IX" ELSE "IS"]
        \in lock_table[<<tab, TABLE>>]

\* A transaction in state DEFAULT has not asked for any lock yet.
FreshHoldsNothing ==
  \A id \in LockDataId : \A r \in lock_table[id] : state[r.txn] # "DEFAULT"

LockInv == /\ LockTypeOK
           /\ Compatible
           /\ NoOrphanRequest
           /\ IntentionHeld
           /\ FreshHoldsNothing

\* What a lock function must have made sure of before it pushes grants.
Grantable(txn, grants) ==
  /\ grants \subseteq LockDataId \X LockMode
  /\ \A id \in LockDataId, m \in LockMode : <<id, m>> \in grants =>
       \A r \in lock_table[id] :
         r.txn # txn => <<m, r.mode>> \in CompatibleModes
  /\ \A tab \in Tables, rid \in Rids, m \in LockMode :
       <<<<tab, rid>>, m>> \in grants =>
         /\ m \in {"S", "X"}
         /\ <<<<tab, TABLE>>, IF m = "X" THEN "IX" ELSE "IS">> \in grants

\* The transaction may ask for locks, and is growing afterwards.
Grows(txn) == /\ state[txn] \in {"DEFAULT", "GROWING"}
              /\ state' = [state EXCEPT ![txn] = "GROWING"]

\* What pushing grants does to the queues and the lock sets.
Pushed(txn, grants) ==
  /\ lock_table' \in [LockDataId -> SUBSET LockRequest]
  /\ lock_set' \in [Txns -> SUBSET LockDataId]
  /\ \A id \in LockDataId : \A r \in lock_table'[id] :
       r \notin lock_table[id] => /\ r.txn = txn /\ r.mode \in LockMode
                                  /\ <<id, r.mode>> \in grants
  /\ \A id \in LockDataId : lock_table[id] \subseteq lock_table'[id]
  /\ \A id \in LockDataId, m \in LockMode : <<id, m>> \in grants =>
       /\ [txn |-> txn, mode |-> m] \in lock_table'[id]
       /\ id \in lock_set'[txn]
  /\ \A t \in Txns : lock_set[t] \subseteq lock_set'[t]

-----------------------------------------------------------------------------
(* Facts about the helpers *)

\* Push changes the queues by exactly the requests it is given.
LEMMA PushAdds ==
  ASSUME LockTypeOK, NEW txn \in Txns, NEW grants, Push(txn, grants)
  PROVE  Pushed(txn, grants)
<1> DEFINE new(id) == {[txn |-> txn, mode |-> m] :
                         m \in {n \in LockMode : <<id, n>> \in grants}}
<1>1. lock_table' = [id \in LockDataId |-> lock_table[id] \cup new(id)]
  BY DEF Push
<1>2. \A id : \A r \in new(id) : /\ r \in LockRequest
                                 /\ r.txn = txn /\ r.mode \in LockMode
                                 /\ <<id, r.mode>> \in grants
  <2> TAKE id
  <2> TAKE r \in new(id)
  <2>1. PICK m \in LockMode : /\ <<id, m>> \in grants
                              /\ r = [txn |-> txn, mode |-> m]
    OBVIOUS
  <2> QED
    BY <2>1 DEF LockRequest
<1>3. \A id : \A m \in LockMode : <<id, m>> \in grants =>
                              [txn |-> txn, mode |-> m] \in new(id)
  OBVIOUS
<1>4. lock_set' = [lock_set EXCEPT ![txn] =
        @ \cup {id \in LockDataId : \E m \in LockMode : <<id, m>> \in grants}]
  BY DEF Push
<1>5. /\ lock_table \in [LockDataId -> SUBSET LockRequest]
      /\ lock_set \in [Txns -> SUBSET LockDataId]
  BY DEF LockTypeOK
<1> HIDE DEF new
<1>6. lock_table' \in [LockDataId -> SUBSET LockRequest]
  BY <1>1, <1>2, <1>5
<1>7. lock_set' \in [Txns -> SUBSET LockDataId]
  BY <1>4, <1>5
<1>8. \A id \in LockDataId : lock_table'[id] = lock_table[id] \cup new(id)
  BY <1>1
<1>9. /\ \A t \in Txns : lock_set[t] \subseteq lock_set'[t]
      /\ \A id \in LockDataId, m \in LockMode :
           <<id, m>> \in grants => id \in lock_set'[txn]
  BY <1>4, <1>5
<1>10. \A id \in LockDataId, m \in LockMode : <<id, m>> \in grants =>
              [txn |-> txn, mode |-> m] \in lock_table'[id]
  BY <1>3, <1>8
<1>11. \A id \in LockDataId : \A r \in lock_table'[id] :
         r \notin lock_table[id] => /\ r.txn = txn /\ r.mode \in LockMode
                                    /\ <<id, r.mode>> \in grants
  BY <1>2, <1>8
<1> QED
  BY <1>6, <1>7, <1>8, <1>9, <1>10, <1>11 DEF Pushed

\* Pushing nothing changes nothing.
LEMMA PushNothing ==
  ASSUME LockTypeOK, NEW txn \in Txns, Push(txn, {})
  PROVE  lock_table' = lock_table /\ lock_set' = lock_set
<1>1. \A id : {[txn |-> txn, mode |-> m] :
                 m \in {n \in LockMode : <<id, n>> \in {}}} = {}
  OBVIOUS
<1>2. lock_table' = [id \in LockDataId |-> lock_table[id]]
  BY <1>1 DEF Push
<1>3. {id \in LockDataId : \E m \in LockMode : <<id, m>> \in {}} = {}
  OBVIOUS
<1>4. lock_set' = [lock_set EXCEPT ![txn] = @ \cup {}]
  BY <1>3 DEF Push
<1> QED
  BY <1>2, <1>4 DEF LockTypeOK

\* Compatibility of modes is symmetric.
LEMMA CompatibleSymmetric ==
  ASSUME NEW m, NEW n, <<m, n>> \in CompatibleModes
  PROVE  <<n, m>> \in CompatibleModes
  BY DEF CompatibleModes

-----------------------------------------------------------------------------
(* Preservation *)

\* A grant that was checked keeps the invariant.
LEMMA GrantKeepsInv ==
  ASSUME LockInv, NEW txn \in Txns, NEW grants,
         Grows(txn), Grantable(txn, grants), Push(txn, grants)
  PROVE  LockInv'
<1>1. LockTypeOK /\ Pushed(txn, grants)
  BY PushAdds DEF LockInv
<1>2. LockTypeOK'
  <2>1. state' \in [Txns -> TransactionState]
    BY <1>1 DEF LockTypeOK, TransactionState, Grows
  <2>2. \A tab \in Tables, rid \in Rids :
          \A r \in lock_table'[<<tab, rid>>] : r.mode \in {"S", "X"}
    BY <1>1 DEF LockTypeOK, Pushed, Grantable, LockDataId
  <2> QED
    BY <1>1, <2>1, <2>2 DEF LockTypeOK, Pushed
<1>3. Compatible'
  <2> SUFFICES ASSUME NEW id \in LockDataId,
                      NEW r \in lock_table'[id], NEW s \in lock_table'[id],
                      r.txn # s.txn
               PROVE  <<r.mode, s.mode>> \in CompatibleModes
    BY DEF Compatible
  <2>1. CASE r \in lock_table[id] /\ s \in lock_table[id]
    BY <2>1 DEF LockInv, Compatible
  <2>2. CASE r \notin lock_table[id]
    <3>1. r.txn = txn /\ r.mode \in LockMode /\ <<id, r.mode>> \in grants
      BY <1>1, <2>2 DEF Pushed
    <3>2. s \in lock_table[id]
      BY <1>1, <3>1 DEF Pushed
    <3> QED
      BY <3>1, <3>2 DEF Grantable
  <2>3. CASE s \notin lock_table[id]
    <3>1. s.txn = txn /\ s.mode \in LockMode /\ <<id, s.mode>> \in grants
      BY <1>1, <2>3 DEF Pushed
    <3>2. r \in lock_table[id]
      BY <1>1, <3>1 DEF Pushed
    <3> QED
      BY <3>1, <3>2, CompatibleSymmetric DEF Grantable
  <2> QED
    BY <2>1, <2>2, <2>3
<1>4. NoOrphanRequest'
  <2> SUFFICES ASSUME NEW id \in LockDataId, NEW r \in lock_table'[id]
               PROVE  id \in lock_set'[r.txn]
    BY DEF NoOrphanRequest
  <2>1. r.txn \in Txns
    BY <1>2 DEF LockTypeOK, LockRequest
  <2>2. CASE r \in lock_table[id]
    BY <1>1, <2>1, <2>2 DEF LockInv, NoOrphanRequest, Pushed
  <2>3. CASE r \notin lock_table[id]
    BY <1>1, <2>3 DEF Pushed
  <2> QED
    BY <2>2, <2>3
<1>5. IntentionHeld'
  <2> SUFFICES ASSUME NEW tab \in Tables, NEW rid \in Rids,
                      NEW s \in lock_table'[<<tab, rid>>],
                      state'[s.txn] = "GROWING"
               PROVE  [txn |-> s.txn,
                       mode |-> IF s.mode = "X" THEN "IX" ELSE "IS"]
                        \in lock_table'[<<tab, TABLE>>]
    BY DEF IntentionHeld
  <2>1. <<tab, rid>> \in LockDataId /\ <<tab, TABLE>> \in LockDataId
    BY DEF LockDataId
  <2>2. CASE s \in lock_table[<<tab, rid>>]
    <3>1. state[s.txn] # "DEFAULT"
      BY <2>1, <2>2 DEF LockInv, FreshHoldsNothing
    <3>2. s.txn \in Txns
      BY <1>1, <2>1, <2>2 DEF LockTypeOK, LockRequest
    <3>3. state[s.txn] = "GROWING"
      BY <1>1, <3>1, <3>2 DEF LockTypeOK, Grows
    <3> QED
      BY <1>1, <2>1, <2>2, <3>3 DEF LockInv, IntentionHeld, Pushed
  <2>3. CASE s \notin lock_table[<<tab, rid>>]
    <3>1. /\ s.txn = txn /\ s.mode \in LockMode
          /\ <<<<tab, rid>>, s.mode>> \in grants
      BY <1>1, <2>1, <2>3 DEF Pushed
    <3>2. <<<<tab, TABLE>>, IF s.mode = "X" THEN "IX" ELSE "IS">> \in grants
      BY <3>1 DEF Grantable
    <3> QED
      BY <1>1, <2>1, <3>1, <3>2 DEF LockMode, Pushed
  <2> QED
    BY <2>2, <2>3
<1>6. FreshHoldsNothing'
  <2> SUFFICES ASSUME NEW id \in LockDataId, NEW r \in lock_table'[id]
               PROVE  state'[r.txn] # "DEFAULT"
    BY DEF FreshHoldsNothing
  <2>1. CASE r \in lock_table[id]
    BY <1>1, <2>1 DEF LockInv, FreshHoldsNothing, LockTypeOK, LockRequest, Grows
  <2>2. CASE r \notin lock_table[id]
    BY <1>1, <2>2 DEF LockTypeOK, Pushed, Grows
  <2> QED
    BY <2>1, <2>2
<1> QED
  BY <1>2, <1>3, <1>4, <1>5, <1>6 DEF LockInv

\* A transaction that ends, or is aborted by a late request, keeps it too.
LEMMA EndKeepsInv ==
  ASSUME LockInv, NEW txn \in Txns, NEW s \in {"SHRINKING", "COMMITTED", "ABORTED"},
         state' = [state EXCEPT ![txn] = s],
         UNCHANGED <<lock_set, lock_table>>
  PROVE  LockInv'
<1>1. LockTypeOK'
  BY DEF LockInv, LockTypeOK, TransactionState
<1>2. Compatible' /\ NoOrphanRequest'
  BY DEF LockInv, Compatible, NoOrphanRequest
<1>3. \A t \in Txns : state'[t] \in {"DEFAULT", "GROWING"} => state'[t] = state[t]
  BY DEF LockInv, LockTypeOK
<1>4. \A id \in LockDataId : \A r \in lock_table[id] : r.txn \in Txns
  BY DEF LockInv, LockTypeOK, LockRequest
<1>5. IntentionHeld'
  BY <1>3, <1>4 DEF LockInv, IntentionHeld, LockDataId
<1>6. FreshHoldsNothing'
  BY <1>3, <1>4 DEF LockInv, FreshHoldsNothing
<1> QED
  BY <1>1, <1>2, <1>5, <1>6 DEF LockInv

\* unlock keeps it: a growing transaction becomes shrinking, so the record
\* locks it still has need no intention lock any more.
LEMMA UnlockKeepsInv ==
  ASSUME LockInv, NEW txn \in Txns, NEW id \in LockDataId, unlock(txn, id)
  PROVE  LockInv'
<1>1. LockTypeOK
  BY DEF LockInv
<1>2. /\ lock_table' \in [LockDataId -> SUBSET LockRequest]
      /\ \A i \in LockDataId : lock_table'[i] \subseteq lock_table[i]
      /\ \A i \in LockDataId : \A r \in lock_table[i] :
           r.txn # txn => r \in lock_table'[i]
      /\ lock_set' = lock_set
  BY <1>1 DEF LockTypeOK, unlock
<1>3. /\ state' \in [Txns -> TransactionState]
      /\ state'[txn] # "GROWING"
      /\ \A t \in Txns : state'[t] \in {"DEFAULT", "GROWING"} => state'[t] = state[t]
  BY <1>1 DEF LockTypeOK, unlock, TransactionState
<1>4. LockTypeOK'
  BY <1>1, <1>2, <1>3 DEF LockTypeOK, LockDataId
<1>5. Compatible' /\ NoOrphanRequest'
  BY <1>2 DEF LockInv, Compatible, NoOrphanRequest
<1>6. \A i \in LockDataId : \A r \in lock_table'[i] : r.txn \in Txns
  BY <1>4 DEF LockTypeOK, LockRequest
<1>7. IntentionHeld'
  <2> SUFFICES ASSUME NEW tab \in Tables, NEW rid \in Rids,
                      NEW s \in lock_table'[<<tab, rid>>],
                      state'[s.txn] = "GROWING"
               PROVE  [txn |-> s.txn,
                       mode |-> IF s.mode = "X" THEN "IX" ELSE "IS"]
                        \in lock_table'[<<tab, TABLE>>]
    BY DEF IntentionHeld
  <2>1. <<tab, rid>> \in LockDataId /\ <<tab, TABLE>> \in LockDataId
    BY DEF LockDataId
  <2>2. s.txn \in Txns /\ s.txn # txn /\ state[s.txn] = "GROWING"
    BY <1>3, <1>6, <2>1
  <2>3. [txn |-> s.txn, mode |-> IF s.mode = "X" THEN "IX" ELSE "IS"]
          \in lock_table[<<tab, TABLE>>]
    BY <1>2, <2>1, <2>2 DEF LockInv, IntentionHeld
  <2> QED
    BY <1>2, <2>1, <2>2, <2>3
<1>8. FreshHoldsNothing'
  BY <1>2, <1>3, <1>6 DEF LockInv, FreshHoldsNothing
<1> QED
  BY <1>4, <1>5, <1>7, <1>8 DEF LockInv

\* A refused or unfinished call: only the state moves to GROWING.
LEMMA PreambleState ==
  ASSUME LockTypeOK, NEW txn \in Txns, NEW res, Preamble(txn, res), ~Ended(txn)
  PROVE  \/ /\ res = "throw" /\ state[txn] = "SHRINKING"
            /\ state' = [state EXCEPT ![txn] = "ABORTED"]
         \/ res # "throw" /\ Grows(txn)
  BY DEF LockTypeOK, TransactionState, Preamble, Ended, Grows

\* A table lock keeps the invariant if the modes it checks are all those that
\* are incompatible with the mode it pushes.
LEMMA TableLockKeepsInv ==
  ASSUME LockInv, NEW txn \in Txns, NEW tab \in Tables, NEW mode \in LockMode,
         NEW conflicting, NEW res \in Results, ~Ended(txn),
         TableLock(txn, tab, mode, conflicting, res),
         \A m \in LockMode : m \notin conflicting => <<mode, m>> \in CompatibleModes
  PROVE  LockInv'
<1> DEFINE id == <<tab, TABLE>>
<1>1. LockTypeOK /\ id \in LockDataId
  BY DEF LockInv, LockDataId
<1>2. CASE res = "throw"
  <2>1. state' = [state EXCEPT ![txn] = "ABORTED"]
    BY <1>1, <1>2, PreambleState DEF TableLock
  <2>2. Push(txn, {})
    BY <1>2 DEF TableLock
  <2> QED
    BY <1>1, <2>1, <2>2, PushNothing, EndKeepsInv
<1>3. CASE res = "false"
  <2>1. Grows(txn)
    BY <1>1, <1>3, PreambleState DEF TableLock
  <2>2. Push(txn, {})
    BY <1>3 DEF TableLock
  <2>3. Grantable(txn, {})
    BY DEF Grantable
  <2> QED
    BY <2>1, <2>2, <2>3, GrantKeepsInv
<1>4. CASE res = "true"
  <2>1. Grows(txn)
    BY <1>1, <1>4, PreambleState DEF TableLock
  <2>2. Push(txn, {<<id, mode>>}) /\ Free(txn, id, conflicting)
    BY <1>4 DEF TableLock
  <2>3. \A r \in lock_table[id] : r.mode \in LockMode
    BY <1>1 DEF LockTypeOK, LockRequest
  <2>4. Grantable(txn, {<<id, mode>>})
    <3>1. {<<id, mode>>} \subseteq LockDataId \X LockMode
      BY <1>1
    <3>2. \A r \in lock_table[id] : r.txn # txn => <<mode, r.mode>> \in CompatibleModes
      BY <2>2, <2>3 DEF Free
    <3>3. \A rid \in Rids, t \in Tables : <<t, rid>> # id
      BY TableIsNoRid
    <3> QED
      BY <3>1, <3>2, <3>3 DEF Grantable
  <2> QED
    BY <2>1, <2>2, <2>4, GrantKeepsInv
<1> QED
  BY <1>2, <1>3, <1>4 DEF Results

\* The two record functions push the intention lock before they look at the
\* record's queue, so a refused record lock is still a legal grant.
LEMMA RecordLockKeepsInv ==
  ASSUME LockInv, NEW txn \in Txns, NEW tab \in Tables, NEW rid \in Rids,
         NEW res \in Results, ~Ended(txn),
         \/ lock_shared_on_record(txn, tab, rid, res)
         \/ lock_exclusive_on_record(txn, tab, rid, res)
  PROVE  LockInv'
<1> DEFINE id  == <<tab, rid>>
           tid == <<tab, TABLE>>
<1>1. LockTypeOK /\ id \in LockDataId /\ tid \in LockDataId /\ id # tid
  BY TableIsNoRid DEF LockInv, LockDataId
<1>2. /\ \A i \in LockDataId : \A r \in lock_table[i] : r.mode \in LockMode
      /\ \A r \in lock_table[id] : r.mode \in {"S", "X"}
  BY <1>1 DEF LockTypeOK, LockRequest
<1>3. Preamble(txn, res)
  BY DEF lock_shared_on_record, lock_exclusive_on_record, Ended
<1>4. CASE res = "throw"
  <2>1. state' = [state EXCEPT ![txn] = "ABORTED"]
    BY <1>1, <1>3, <1>4, PreambleState
  <2>2. Push(txn, {})
    BY <1>4 DEF lock_shared_on_record, lock_exclusive_on_record, Ended
  <2> QED
    BY <1>1, <2>1, <2>2, PushNothing, EndKeepsInv
<1>5. CASE res # "throw"
  <2>1. Grows(txn)
    BY <1>1, <1>3, <1>5, PreambleState
  <2>2. PICK grants : Push(txn, grants) /\ Grantable(txn, grants)
    <3>1. Grantable(txn, {})
      BY DEF Grantable
    <3>2. ASSUME Free(txn, tid, {"X"})
          PROVE  Grantable(txn, {<<tid, "IS">>})
      <4>1. \A r \in lock_table[tid] :
              r.txn # txn => <<"IS", r.mode>> \in CompatibleModes
        BY <1>1, <1>2, <3>2 DEF Free, LockMode, CompatibleModes
      <4>2. {<<tid, "IS">>} \subseteq LockDataId \X LockMode
        BY <1>1 DEF LockMode
      <4>3. \A r \in Rids, t \in Tables : <<t, r>> # tid
        BY TableIsNoRid
      <4> QED
        BY <4>1, <4>2, <4>3 DEF Grantable
    <3>3. ASSUME Free(txn, tid, {"X"}), {r \in lock_table[id] : r.mode = "X"} = {}
          PROVE  Grantable(txn, {<<tid, "IS">>, <<id, "S">>})
      <4>1. \A r \in lock_table[tid] :
              r.txn # txn => <<"IS", r.mode>> \in CompatibleModes
        BY <1>1, <1>2, <3>3 DEF Free, LockMode, CompatibleModes
      <4>2. \A r \in lock_table[id] : <<"S", r.mode>> \in CompatibleModes
        BY <1>2, <3>3 DEF CompatibleModes
      <4>3. {<<tid, "IS">>, <<id, "S">>} \subseteq LockDataId \X LockMode
        BY <1>1 DEF LockMode
      <4>4. \A r \in Rids, t \in Tables : <<t, r>> # tid
        BY TableIsNoRid
      <4> QED
        BY <4>1, <4>2, <4>3, <4>4 DEF Grantable
    <3>4. ASSUME Free(txn, tid, {"S", "SIX", "X"})
          PROVE  Grantable(txn, {<<tid, "IX">>})
      <4>1. \A r \in lock_table[tid] :
              r.txn # txn => <<"IX", r.mode>> \in CompatibleModes
        BY <1>1, <1>2, <3>4 DEF Free, LockMode, CompatibleModes
      <4>2. {<<tid, "IX">>} \subseteq LockDataId \X LockMode
        BY <1>1 DEF LockMode
      <4>3. \A r \in Rids, t \in Tables : <<t, r>> # tid
        BY TableIsNoRid
      <4> QED
        BY <4>1, <4>2, <4>3 DEF Grantable
    <3>5. ASSUME Free(txn, tid, {"S", "SIX", "X"}), Free(txn, id, LockMode)
          PROVE  Grantable(txn, {<<tid, "IX">>, <<id, "X">>})
      <4>1. \A r \in lock_table[tid] :
              r.txn # txn => <<"IX", r.mode>> \in CompatibleModes
        BY <1>1, <1>2, <3>5 DEF Free, LockMode, CompatibleModes
      <4>2. \A r \in lock_table[id] : r.txn = txn
        BY <1>1, <1>2, <3>5 DEF Free
      <4>3. {<<tid, "IX">>, <<id, "X">>} \subseteq LockDataId \X LockMode
        BY <1>1 DEF LockMode
      <4>4. \A r \in Rids, t \in Tables : <<t, r>> # tid
        BY TableIsNoRid
      <4> QED
        BY <4>1, <4>2, <4>3, <4>4 DEF Grantable
    <3>6. CASE lock_shared_on_record(txn, tab, rid, res)
      <4>1. \/ Push(txn, {})
            \/ Push(txn, {<<tid, "IS">>}) /\ Free(txn, tid, {"X"})
            \/ /\ Push(txn, {<<tid, "IS">>, <<id, "S">>})
               /\ Free(txn, tid, {"X"})
               /\ {r \in lock_table[id] : r.mode = "X"} = {}
        BY <1>5, <3>6 DEF lock_shared_on_record, Ended
      <4> QED
        BY <3>1, <3>2, <3>3, <4>1
    <3>7. CASE lock_exclusive_on_record(txn, tab, rid, res)
      <4>1. \/ Push(txn, {})
            \/ Push(txn, {<<tid, "IX">>}) /\ Free(txn, tid, {"S", "SIX", "X"})
            \/ /\ Push(txn, {<<tid, "IX">>, <<id, "X">>})
               /\ Free(txn, tid, {"S", "SIX", "X"})
               /\ Free(txn, id, LockMode)
        BY <1>5, <3>7 DEF lock_exclusive_on_record
      <4> QED
        BY <3>1, <3>4, <3>5, <4>1
    <3> QED
      BY <3>6, <3>7
  <2> QED
    BY <2>1, <2>2, GrantKeepsInv
<1> QED
  BY <1>4, <1>5

\* Every lock function keeps the invariant.
LEMMA RequestKeepsInv ==
  ASSUME LockInv, NEW txn \in Txns, Request(txn)
  PROVE  LockInv'
<1>1. PICK tab \in Tables, res \in Results :
        \/ lock_shared_on_table(txn, tab, res)
        \/ lock_exclusive_on_table(txn, tab, res)
        \/ lock_IS_on_table(txn, tab, res)
        \/ lock_IX_on_table(txn, tab, res)
        \/ lock_SIX_on_table(txn, tab, res)
        \/ \E rid \in Rids : \/ lock_shared_on_record(txn, tab, rid, res)
                             \/ lock_exclusive_on_record(txn, tab, rid, res)
  BY DEF Request, Lock
<1>2. ~Ended(txn)
  BY DEF Request
<1>3. {"S", "X", "IS", "IX", "SIX"} \subseteq LockMode
  BY DEF LockMode
<1>4. CASE lock_shared_on_table(txn, tab, res)
  <2>1. \A m \in LockMode : m \notin {"IX", "SIX", "X"} => <<"S", m>> \in CompatibleModes
    BY DEF LockMode, CompatibleModes
  <2> QED
    BY <1>2, <1>3, <1>4, <2>1, TableLockKeepsInv DEF lock_shared_on_table
<1>5. CASE lock_exclusive_on_table(txn, tab, res)
  <2>1. \A m \in LockMode : m \notin LockMode => <<"X", m>> \in CompatibleModes
    OBVIOUS
  <2> QED
    BY <1>2, <1>3, <1>5, <2>1, TableLockKeepsInv DEF lock_exclusive_on_table
<1>6. CASE lock_IS_on_table(txn, tab, res)
  <2>1. \A m \in LockMode : m \notin {"X"} => <<"IS", m>> \in CompatibleModes
    BY DEF LockMode, CompatibleModes
  <2> QED
    BY <1>2, <1>3, <1>6, <2>1, TableLockKeepsInv DEF lock_IS_on_table
<1>7. CASE lock_IX_on_table(txn, tab, res)
  <2>1. \A m \in LockMode : m \notin {"S", "SIX", "X"} => <<"IX", m>> \in CompatibleModes
    BY DEF LockMode, CompatibleModes
  <2> QED
    BY <1>2, <1>3, <1>7, <2>1, TableLockKeepsInv DEF lock_IX_on_table
<1>8. CASE lock_SIX_on_table(txn, tab, res)
  <2>1. \A m \in LockMode : m \notin {"IX", "S", "SIX", "X"} =>
          <<"SIX", m>> \in CompatibleModes
    BY DEF LockMode, CompatibleModes
  <2> QED
    BY <1>2, <1>3, <1>8, <2>1, TableLockKeepsInv DEF lock_SIX_on_table
<1>9. CASE \E rid \in Rids : \/ lock_shared_on_record(txn, tab, rid, res)
                             \/ lock_exclusive_on_record(txn, tab, rid, res)
  BY <1>2, <1>9, RecordLockKeepsInv
<1> QED
  BY <1>1, <1>4, <1>5, <1>6, <1>7, <1>8, <1>9

\* The initial state satisfies the invariant.
LEMMA LockInitInv == LockInit => LockInv
  BY DEF LockInit, LockInv, LockTypeOK, TransactionState, LockDataId, Compatible,
         NoOrphanRequest, IntentionHeld, FreshHoldsNothing

\* Every step of the lock manager keeps the invariant.
LEMMA LockStepInv == LockInv /\ [LockNext]_lockVars => LockInv'
<1> SUFFICES ASSUME LockInv, [LockNext]_lockVars
             PROVE  LockInv'
  OBVIOUS
<1>1. CASE UNCHANGED lockVars
  BY <1>1 DEF lockVars, LockInv, LockTypeOK, Compatible, NoOrphanRequest,
              IntentionHeld, FreshHoldsNothing
<1>2. ASSUME NEW txn \in Txns, RequestAborted(txn)
      PROVE  LockInv'
  <2>1. UNCHANGED lockVars
    BY <1>2 DEF RequestAborted, lock_shared_on_record
  <2> QED
    BY <1>1, <2>1
<1>3. ASSUME NEW txn \in Txns, Unlock(txn)
      PROVE  LockInv'
  <2>1. PICK id \in LockDataId : unlock(txn, id)
    BY <1>3 DEF Unlock, LockInv, LockTypeOK
  <2> QED
    BY <2>1, UnlockKeepsInv
<1>4. ASSUME NEW txn \in Txns, NEW final \in {"COMMITTED", "ABORTED"}, End(txn, final)
      PROVE  LockInv'
  BY <1>4, EndKeepsInv DEF End
<1>5. ASSUME NEW txn \in Txns, ClearLockSet(txn)
      PROVE  LockInv'
  <2>1. LockTypeOK'
    BY <1>5 DEF LockInv, LockTypeOK, ClearLockSet
  <2>2. Compatible' /\ IntentionHeld' /\ FreshHoldsNothing'
    BY <1>5 DEF LockInv, Compatible, IntentionHeld, FreshHoldsNothing, ClearLockSet
  <2>3. NoOrphanRequest'
    BY <1>5 DEF LockInv, LockTypeOK, LockRequest, NoOrphanRequest, ClearLockSet, Holds
  <2> QED
    BY <2>1, <2>2, <2>3 DEF LockInv
<1> QED
  BY <1>1, <1>2, <1>3, <1>4, <1>5, RequestKeepsInv DEF LockNext

-----------------------------------------------------------------------------
(* Theorems *)

\* The inductive invariant holds in every reachable state of the lock manager.
THEOREM LockInvariance == LockSpec => []LockInv
  BY LockInitInv, LockStepInv, PTL DEF LockSpec

\* The lock manager's state always has its shape; record queues hold only S
\* and X requests, as the assertions of the record functions demand.
THEOREM LockTypeCorrect == LockSpec => []LockTypeOK
<1>1. LockInv => LockTypeOK
  BY DEF LockInv
<1> QED
  BY <1>1, LockInvariance, PTL

\* No two transactions ever hold conflicting locks on one table or record.
THEOREM NoConflictingLocks == LockSpec => []Compatible
<1>1. LockInv => Compatible
  BY DEF LockInv
<1> QED
  BY <1>1, LockInvariance, PTL

\* release_locks finds every request of its transaction through lock_set_.
THEOREM LocksAreReleasable == LockSpec => []NoOrphanRequest
<1>1. LockInv => NoOrphanRequest
  BY DEF LockInv
<1> QED
  BY <1>1, LockInvariance, PTL

\* A table lock excludes the record locks it stands for, because the holder
\* of a record lock still has an intention lock that conflicts with it.
THEOREM TableLocksCover == LockSpec => []TableLockCoversRecords
<1>1. ASSUME LockInv
      PROVE  TableLockCoversRecords
  <2> SUFFICES ASSUME NEW t1 \in Txns, NEW t2 \in Txns,
                      NEW tab \in Tables, NEW rid \in Rids,
                      NEW r \in lock_table[<<tab, TABLE>>],
                      NEW s \in lock_table[<<tab, rid>>],
                      r.txn = t1, s.txn = t2, t1 # t2,
                      state[t1] = "GROWING", state[t2] = "GROWING"
               PROVE  /\ ~(r.mode \in {"S", "SIX"} /\ s.mode = "X")
                      /\ r.mode # "X"
    BY DEF TableLockCoversRecords
  <2> DEFINE i == [txn |-> t2, mode |-> IF s.mode = "X" THEN "IX" ELSE "IS"]
  <2>1. <<tab, TABLE>> \in LockDataId
    BY DEF LockDataId
  <2>2. i \in lock_table[<<tab, TABLE>>]
    BY <1>1 DEF LockInv, IntentionHeld
  <2>3. <<r.mode, i.mode>> \in CompatibleModes
    <3>1. r.txn # i.txn
      OBVIOUS
    <3> QED
      BY <1>1, <2>1, <2>2, <3>1 DEF LockInv, Compatible
  <2> QED
    BY <2>3 DEF CompatibleModes
<1> QED
  BY <1>1, LockInvariance, PTL

\* Two-phase locking: only a fresh or growing transaction gains a request.
THEOREM TwoPhaseLocking == LockSpec => TwoPhase
<1> DEFINE A == \A id \in LockDataId : \A r \in lock_table'[id] \ lock_table[id] :
                  state[r.txn] \in {"DEFAULT", "GROWING"}
<1>1. ASSUME LockInv, LockNext
      PROVE  A
  <2>1. ASSUME NEW txn \in Txns, NEW grants, Push(txn, grants),
               state[txn] \in {"DEFAULT", "GROWING"}
        PROVE  A
    <3>1. Pushed(txn, grants)
      BY <1>1, <2>1, PushAdds DEF LockInv
    <3> QED
      BY <2>1, <3>1 DEF Pushed
  <2>2. ASSUME \A id \in LockDataId : lock_table'[id] \subseteq lock_table[id]
        PROVE  A
    BY <2>2
  <2>3. ASSUME NEW txn \in Txns, Request(txn)
        PROVE  A
    <3>1. PICK tab \in Tables, res \in Results :
            \/ \E m, c : TableLock(txn, tab, m, c, res)
            \/ \E rid \in Rids : \/ lock_shared_on_record(txn, tab, rid, res)
                                 \/ lock_exclusive_on_record(txn, tab, rid, res)
      BY <2>3 DEF Request, Lock, lock_shared_on_table, lock_exclusive_on_table,
                  lock_IS_on_table, lock_IX_on_table, lock_SIX_on_table
    <3>2. ~Ended(txn) /\ LockTypeOK
      BY <1>1, <2>3 DEF Request, LockInv
    <3>3. PICK g : Preamble(txn, res) /\ Push(txn, g) /\ (res = "throw" => g = {})
      BY <3>1, <3>2 DEF TableLock, lock_shared_on_record, lock_exclusive_on_record, Ended
    <3>4. CASE res = "throw"
      <4>1. Push(txn, {})
        BY <3>3, <3>4
      <4> QED
        BY <2>2, <3>2, <4>1, PushNothing
    <3>5. CASE res # "throw"
      BY <2>1, <3>2, <3>3, <3>5, PreambleState DEF Grows
    <3> QED
      BY <3>4, <3>5
  <2>4. ASSUME NEW txn \in Txns, RequestAborted(txn)
        PROVE  A
    BY <2>2, <2>4 DEF RequestAborted, lock_shared_on_record, lockVars
  <2>5. ASSUME NEW txn \in Txns, Unlock(txn)
        PROVE  A
    BY <1>1, <2>2, <2>5 DEF Unlock, unlock, LockInv, LockTypeOK
  <2>6. ASSUME NEW txn \in Txns,
               End(txn, "COMMITTED") \/ End(txn, "ABORTED") \/ ClearLockSet(txn)
        PROVE  A
    BY <2>2, <2>6 DEF End, ClearLockSet
  <2> QED
    BY <1>1, <2>3, <2>4, <2>5, <2>6 DEF LockNext
<1>2. LockInv /\ [LockNext]_lockVars => [A]_lockVars
  BY <1>1
<1> QED
  BY <1>2, LockInvariance, PTL DEF LockSpec, TwoPhase
=============================================================================
