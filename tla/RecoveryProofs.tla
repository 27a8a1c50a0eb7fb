--------------------------- MODULE RecoveryProofs ---------------------------
(***************************************************************************)
(* Durability, for any number of clients, tables, transactions and         *)
(* crashes: LogInv is the invariant of the log, the transactions and the   *)
(* restart, and every step keeps it.                                       *)
(*                                                                         *)
(* The log is the file with the buffer behind it.  A step adds a record at *)
(* its end, moves the buffer to the file, or loses what is still in the    *)
(* buffer; the first lemmas say what each of these leaves.  A commit is    *)
(* answered once its record is in the file (Session).  Ids are never used  *)
(* again (NextIsNew, BeginsFirst), so that a transaction which redo meets  *)
(* the commit of does not come back on the list of undo (RestartSpares).   *)
(***************************************************************************)
EXTENDS RecoveryCatalog

(* The invariant of the log *)

IsSequence(s) == s \in Seq({s[i] : i \in 1 .. Len(s)})

\* A log record has a type and a transaction.
IsRecord(r) == {"type", "tid"} \subseteq DOMAIN r /\ r.tid \in 0 .. MaxTxns

LogTypes ==
  /\ IsSequence(disk_log) /\ IsSequence(buffer)
  /\ \A i \in 1 .. Len(TheLog) : IsRecord(TheLog[i])
  /\ tid \in [Clients -> 0 .. MaxTxns] /\ acked \in SUBSET (1 .. MaxTxns)
  /\ next_txn \in Nat /\ pos \in Nat
  /\ DOMAIN write_set = Clients

\* The id that begin takes is new: to the log and to the clients.
NextIsNew ==
  phase \in Recovering \cup {"up"} =>
    /\ \A i \in 1 .. Len(TheLog) : TheLog[i].tid < next_txn
    /\ \A c \in Clients : tid[c] < next_txn

\* No transaction begins after it has committed.
BeginsFirst ==
  \A i, j \in 1 .. Len(TheLog) :
    i < j /\ TheLog[i].type = "COMMIT" /\ TheLog[j].type = "BEGIN" => TheLog[i].tid # TheLog[j].tid

\* Redo comes by the commit of every answered transaction that it has on its
\* list, and undo has none of them.
RestartSpares ==
  /\ phase = "redo" => \A n \in acked \cap undo_list :
       \E i \in 1 .. Len(disk_log) : pos <= i /\ disk_log[i] = CommitLogRecord(n)
  /\ phase \in {"undo", "recovered"} => acked \cap undo_list = {} /\ pos <= Len(disk_log)

\* Until undo the buffer is empty, and until the server is up there are no transactions.
NothingYet ==
  /\ phase \in Stopped \cup {"analyze", "redo"} => buffer = <<>>
  /\ phase # "up" => \A c \in Clients : tid[c] = 0 /\ write_set[c] = <<>>

\* A client's transaction.
Writing == {"txn", "refused", "undo", "undo_clr", "refused_clr", "stuck", "gone"}
Wrote(c, r) == {"type", "tid"} \subseteq DOMAIN r /\ IsWrite(r) /\ r.tid = tid[c]
Session(c) ==
  /\ tid[c] \notin acked
  /\ pc[c] \in TxnPoints => tid[c] # 0
  /\ IsSequence(write_set[c])
  /\ \A i \in 1 .. Len(write_set[c]) : Wrote(c, write_set[c][i])
  /\ pc[c] \notin Writing => write_set[c] = <<>>
  /\ pc[c] \in {"undo_clr", "refused_clr"} => write_set[c] # <<>>
  /\ pc[c] = "commit_flush" => \E i \in 1 .. Len(TheLog) : TheLog[i] = CommitLogRecord(tid[c])
Sessions == \A c \in Clients : Session(c)
TidsApart == \A c, d \in Clients : c # d /\ tid[c] # 0 => tid[c] # tid[d]

LogInv == /\ LogTypes /\ NextIsNew /\ BeginsFirst /\ RestartSpares /\ NothingYet
          /\ Sessions /\ TidsApart /\ DurableCommit

-----------------------------------------------------------------------------
(* The log as a sequence *)

\* A sequence over some set is one over its own elements.
LEMMA OwnElements ==
  ASSUME NEW S, NEW s \in Seq(S)
  PROVE  IsSequence(s)
  BY DEF IsSequence

\* The empty sequence is one.
LEMMA EmptyIsSequence == IsSequence(<<>>) /\ Len(<<>>) = 0
  BY DEF IsSequence

\* A record more.
Extended(u, s, e) ==
  /\ IsSequence(u)
  /\ Len(s) \in Nat /\ Len(u) = Len(s) + 1
  /\ \A i \in 1 .. Len(s) : u[i] = s[i]
  /\ u[Len(s) + 1] = e
LEMMA AppendIs ==
  ASSUME NEW s, IsSequence(s), NEW e
  PROVE  Extended(Append(s, e), s, e)
<1> DEFINE S == {s[i] : i \in 1 .. Len(s)}
<1>1. s \in Seq(S)
  BY Zenon DEF IsSequence
<1> HIDE DEF S
<1>2. Append(s, e) \in Seq(S \cup {e})
  BY <1>1
<1>3. IsSequence(Append(s, e))
  BY Zenon, <1>2, OwnElements
<1> QED
  BY <1>1, <1>3 DEF Extended

\* Two logs one after the other.
Joined(u, s, t) ==
  /\ IsSequence(u)
  /\ Len(s) \in Nat /\ Len(t) \in Nat /\ Len(u) = Len(s) + Len(t)
  /\ \A i \in 1 .. Len(s) : u[i] = s[i]
  /\ \A i \in 1 .. Len(t) : u[Len(s) + i] = t[i]
LEMMA ConcatIs ==
  ASSUME NEW s, IsSequence(s), NEW t, IsSequence(t)
  PROVE  Joined(s \o t, s, t)
<1> DEFINE S == {s[i] : i \in 1 .. Len(s)}
           T == {t[i] : i \in 1 .. Len(t)}
<1>1. s \in Seq(S) /\ t \in Seq(T)
  BY Zenon DEF IsSequence
<1> HIDE DEF S, T
<1>2. s \in Seq(S \cup T) /\ t \in Seq(S \cup T)
  BY <1>1
<1>3. s \o t \in Seq(S \cup T)
  BY <1>2
<1>4. IsSequence(s \o t)
  BY Zenon, <1>3, OwnElements
<1> QED
  BY <1>2, <1>4 DEF Joined

\* The first n records.
LEMMA PrefixIs ==
  ASSUME NEW s, IsSequence(s), NEW n \in 0 .. Len(s)
  PROVE  /\ IsSequence(SubSeq(s, 1, n))
         /\ Len(s) \in Nat /\ n \in Nat /\ n <= Len(s) /\ Len(SubSeq(s, 1, n)) = n
         /\ \A i \in 1 .. n : SubSeq(s, 1, n)[i] = s[i]
<1> DEFINE S == {s[i] : i \in 1 .. Len(s)}
<1>1. s \in Seq(S)
  BY Zenon DEF IsSequence
<1> HIDE DEF S
<1>2. SubSeq(s, 1, n) \in Seq(S)
  BY <1>1
<1>3. IsSequence(SubSeq(s, 1, n))
  BY Zenon, <1>2, OwnElements
<1> QED
  BY <1>1, <1>3

\* The largest of some numbers.
LEMMA MaxExists ==
  ASSUME NEW N \in Nat, NEW S \in SUBSET (0 .. N), S # {}
  PROVE  \E n \in S : \A m \in S : m <= n
<1> DEFINE T == {k \in Nat : N - k \in S}
<1>0. ASSUME NEW m \in S PROVE m \in Nat /\ N - m \in T
  <2>1. m \in Nat /\ 0 <= m /\ m <= N /\ N - m \in Nat /\ N - (N - m) = m
    OBVIOUS
  <2> QED
    BY Zenon, <2>1
<1>1. T \subseteq Nat /\ T # {}
  BY Zenon, <1>0
<1>2. \E x \in T : \A y \in T : ~(y < x)
  <2> HIDE DEF T
  <2>1. PICK x \in T : \A y \in T : ~(<<y, x>> \in OpToRel(<, Nat))
    BY Zenon, <1>1, NatLessThanWellFounded, WFMin
  <2>2. ASSUME NEW y \in T, y < x PROVE <<y, x>> \in OpToRel(<, Nat)
    BY <1>1, <2>2 DEF OpToRel
  <2> QED
    BY Zenon, <2>1, <2>2
<1>3. PICK x \in T : \A y \in T : ~(y < x)
  BY Zenon, <1>2
<1>4. N - x \in S /\ x \in Nat
  BY Zenon, <1>3
<1>5. ASSUME NEW m \in S PROVE m <= N - x
  <2>1. ~(N - m < x) /\ m \in Nat
    BY Zenon, <1>0, <1>3
  <2> QED
    BY <1>4, <2>1
<1> QED
  BY Zenon, <1>4, <1>5

-----------------------------------------------------------------------------
(* What the steps do to the log *)

\* TheLog is the file with the buffer behind it.
LEMMA TheLogIs ==
  ASSUME IsSequence(disk_log), IsSequence(buffer)
  PROVE  /\ IsSequence(TheLog) /\ Len(disk_log) \in Nat /\ Len(buffer) \in Nat
         /\ Len(TheLog) = Len(disk_log) + Len(buffer)
         /\ \A i \in 1 .. Len(disk_log) : TheLog[i] = disk_log[i]
         /\ \A i \in 1 .. Len(buffer) : TheLog[Len(disk_log) + i] = buffer[i]
<1>1. Joined(TheLog, disk_log, buffer)
  BY Zenon, ConcatIs DEF TheLog
<1> QED
  BY Zenon, <1>1 DEF Joined

\* The log file does not lose a record.
DiskKeeps == \A i \in 1 .. Len(disk_log) : i \in 1 .. Len(disk_log') /\ disk_log'[i] = disk_log[i]

\* The log afterwards starts with the log before; or is a part of it.
LogKeeps == \A i \in 1 .. Len(TheLog) : i \in 1 .. Len(TheLog') /\ TheLog'[i] = TheLog[i]
LogIsPart == \A i \in 1 .. Len(TheLog') : i \in 1 .. Len(TheLog) /\ TheLog'[i] = TheLog[i]

\* add_log_to_buffer puts one record at the end.
LEMMA LogGrows ==
  ASSUME IsSequence(disk_log), IsSequence(buffer), NEW rec,
         buffer' = Append(buffer, rec), disk_log' = disk_log
  PROVE  /\ IsSequence(disk_log') /\ IsSequence(buffer') /\ DiskKeeps /\ LogKeeps
         /\ Len(TheLog) \in Nat /\ Len(TheLog') = Len(TheLog) + 1
         /\ TheLog'[Len(TheLog) + 1] = rec
         /\ Len(buffer) \in Nat /\ Len(buffer') = Len(buffer) + 1 /\ buffer'[Len(buffer) + 1] = rec
         /\ \A i \in 1 .. Len(buffer) : buffer'[i] = buffer[i]
<1>1. IsSequence(disk_log') /\ IsSequence(buffer')
  BY Zenon, AppendIs DEF Extended
<1>2. /\ Len(buffer) \in Nat /\ Len(buffer') = Len(buffer) + 1 /\ buffer'[Len(buffer) + 1] = rec
      /\ \A i \in 1 .. Len(buffer) : buffer'[i] = buffer[i]
  <2>1. Extended(buffer', buffer, rec)
    BY Zenon, AppendIs
  <2> QED
    BY Zenon, <2>1 DEF Extended
<1>3. /\ Len(disk_log) \in Nat /\ Len(TheLog) = Len(disk_log) + Len(buffer)
      /\ \A i \in 1 .. Len(disk_log) : TheLog[i] = disk_log[i]
      /\ \A i \in 1 .. Len(buffer) : TheLog[Len(disk_log) + i] = buffer[i]
  BY Zenon, TheLogIs
<1>4. /\ Len(TheLog') = Len(disk_log) + Len(buffer')
      /\ \A i \in 1 .. Len(disk_log) : TheLog'[i] = disk_log[i]
      /\ \A i \in 1 .. Len(buffer') : TheLog'[Len(disk_log) + i] = buffer'[i]
  <2>1. Joined(TheLog', disk_log', buffer')
    BY Zenon, <1>1, ConcatIs DEF TheLog
  <2> QED
    BY Zenon, <2>1 DEF Joined
<1>5. Len(TheLog) \in Nat /\ Len(TheLog') = Len(TheLog) + 1
  BY <1>2, <1>3, <1>4
<1>6. TheLog'[Len(TheLog) + 1] = rec
  <2>1. Len(TheLog) + 1 = Len(disk_log) + Len(buffer') /\ Len(buffer') \in 1 .. Len(buffer')
    BY <1>2, <1>3
  <2> QED
    BY Zenon, <1>2, <1>4, <2>1
<1>7. ASSUME NEW i \in 1 .. Len(TheLog) PROVE TheLog'[i] = TheLog[i]
  <2>1. CASE i <= Len(disk_log)
    BY <1>3, <1>4, <2>1
  <2>2. CASE ~(i <= Len(disk_log))
    <3> DEFINE k == i - Len(disk_log)
    <3>1. k \in 1 .. Len(buffer) /\ k \in 1 .. Len(buffer') /\ i = Len(disk_log) + k
      BY <1>2, <1>3, <2>2
    <3> HIDE DEF k
    <3> QED
      BY Zenon, <1>2, <1>3, <1>4, <3>1
  <2> QED
    BY Zenon, <2>1, <2>2
<1>8. LogKeeps
  BY <1>5, <1>7 DEF LogKeeps
<1>9. DiskKeeps
  BY <1>3 DEF DiskKeeps
<1> QED
  BY Zenon, <1>1, <1>2, <1>5, <1>6, <1>8, <1>9

\* The buffer, or the first n records of it, go to the file, and the buffer is
\* empty afterwards.
LEMMA LogFlushes ==
  ASSUME IsSequence(disk_log), IsSequence(buffer), NEW n \in 0 .. Len(buffer),
         disk_log' = disk_log \o SubSeq(buffer, 1, n), buffer' = <<>>
  PROVE  /\ IsSequence(disk_log') /\ IsSequence(buffer') /\ DiskKeeps /\ LogIsPart
         /\ Len(buffer') = 0
         /\ n = Len(buffer) => LogKeeps /\ Len(disk_log') = Len(TheLog)
         /\ \A i \in 1 .. Len(disk_log') : disk_log'[i] = TheLog'[i]
<1> DEFINE s == SubSeq(buffer, 1, n)
<1>1. /\ IsSequence(s) /\ Len(buffer) \in Nat /\ n \in Nat /\ n <= Len(buffer) /\ Len(s) = n
      /\ \A i \in 1 .. n : s[i] = buffer[i]
  BY Zenon, PrefixIs
<1> HIDE DEF s
<1>2. /\ IsSequence(disk_log') /\ Len(disk_log) \in Nat /\ Len(disk_log') = Len(disk_log) + n
      /\ \A i \in 1 .. Len(disk_log) : disk_log'[i] = disk_log[i]
      /\ \A i \in 1 .. n : disk_log'[Len(disk_log) + i] = s[i]
  <2>1. Joined(disk_log', disk_log, s)
    BY Zenon, <1>1, ConcatIs DEF s
  <2> QED
    BY Zenon, <1>1, <2>1 DEF Joined
<1>3. IsSequence(buffer') /\ Len(buffer') = 0
  BY Zenon, EmptyIsSequence
<1>4. /\ Len(TheLog) = Len(disk_log) + Len(buffer)
      /\ \A i \in 1 .. Len(disk_log) : TheLog[i] = disk_log[i]
      /\ \A i \in 1 .. Len(buffer) : TheLog[Len(disk_log) + i] = buffer[i]
  BY Zenon, TheLogIs
<1>5. /\ Len(TheLog') = Len(disk_log') + Len(buffer')
      /\ \A i \in 1 .. Len(disk_log') : TheLog'[i] = disk_log'[i]
  <2>1. Joined(TheLog', disk_log', buffer')
    BY Zenon, <1>2, <1>3, ConcatIs DEF TheLog
  <2> QED
    BY Zenon, <2>1 DEF Joined
<1>6. Len(TheLog') = Len(disk_log') /\ Len(TheLog') <= Len(TheLog) /\ Len(TheLog) \in Nat /\ Len(TheLog') \in Nat
  BY <1>1, <1>2, <1>3, <1>4, <1>5
<1>7. ASSUME NEW i \in 1 .. Len(TheLog') PROVE TheLog'[i] = TheLog[i]
  <2>1. CASE i <= Len(disk_log)
    BY <1>2, <1>4, <1>5, <1>6, <2>1
  <2>2. CASE ~(i <= Len(disk_log))
    <3> DEFINE k == i - Len(disk_log)
    <3>1. k \in 1 .. n /\ k \in 1 .. Len(buffer) /\ i = Len(disk_log) + k /\ i \in 1 .. Len(disk_log')
      BY <1>1, <1>2, <1>6, <2>2
    <3> HIDE DEF k
    <3> QED
      <4>1. disk_log'[i] = s[k] /\ s[k] = buffer[k]
        BY Zenon, <1>1, <1>2, <3>1
      <4>2. TheLog[i] = buffer[k]
        BY Zenon, <1>4, <3>1
      <4>3. TheLog'[i] = disk_log'[i]
        BY Zenon, <1>5, <3>1
      <4> QED
        BY Zenon, <4>1, <4>2, <4>3
  <2> QED
    BY Zenon, <2>1, <2>2
<1>8. LogIsPart
  BY <1>6, <1>7 DEF LogIsPart
<1>9. n = Len(buffer) => LogKeeps /\ Len(disk_log') = Len(TheLog)
  <2>1. n = Len(buffer) => Len(TheLog') = Len(TheLog) /\ Len(TheLog) <= Len(TheLog')
    BY <1>1, <1>2, <1>4, <1>6
  <2> QED
    BY <1>6, <1>7, <2>1 DEF LogKeeps
<1>10. DiskKeeps
  BY <1>1, <1>2 DEF DiskKeeps
<1> QED
  BY Zenon, <1>2, <1>3, <1>5, <1>8, <1>9, <1>10

-----------------------------------------------------------------------------
(* What the steps leave of the invariant of the log *)

Records == \A i \in 1 .. Len(TheLog) : IsRecord(TheLog[i])
Older(n) == \A i \in 1 .. Len(TheLog) : TheLog[i].tid < n
OlderAfter(n) == \A i \in 1 .. Len(TheLog') : TheLog'[i].tid < n
Commits(n) == \E i \in 1 .. Len(TheLog) : TheLog[i] = CommitLogRecord(n)

\* A part of the log has what the log has.
LEMMA PartKeeps ==
  ASSUME LogIsPart, Records, BeginsFirst
  PROVE  Records' /\ BeginsFirst' /\ \A n : Older(n) => OlderAfter(n)
<1>1. Records'
  BY Zenon DEF LogIsPart, Records, IsRecord
<1>2. \A n : Older(n) => OlderAfter(n)
  BY Zenon DEF LogIsPart, Older, OlderAfter
<1>3. BeginsFirst'
  BY Zenon DEF LogIsPart, BeginsFirst
<1> QED
  BY Zenon, <1>1, <1>2, <1>3

\* A record at the end of the log starts a transaction only if it is new.
LEMMA GrownKeeps ==
  ASSUME IsSequence(disk_log), IsSequence(buffer), Records, BeginsFirst, NEW rec, IsRecord(rec),
         buffer' = Append(buffer, rec), disk_log' = disk_log,
         rec.type = "BEGIN" => Older(rec.tid)
  PROVE  Records' /\ BeginsFirst' /\ \A n \in Nat : Older(n) /\ rec.tid < n => OlderAfter(n)
<1> DEFINE L == Len(TheLog)
<1>1. LogKeeps /\ L \in Nat /\ Len(TheLog') = L + 1 /\ TheLog'[L + 1] = rec
  BY Zenon, LogGrows
<1> HIDE DEF L
<1>2. ASSUME NEW i \in 1 .. Len(TheLog')
      PROVE  (i \in 1 .. L /\ TheLog'[i] = TheLog[i]) \/ (i = L + 1 /\ TheLog'[i] = rec)
  <2>1. i \in 1 .. L \/ i = L + 1
    BY <1>1
  <2> QED
    BY Zenon, <1>1, <2>1 DEF LogKeeps, L
<1>3. Records'
  BY Zenon, <1>2 DEF Records, IsRecord, L
<1>4. \A n \in Nat : Older(n) /\ rec.tid < n => OlderAfter(n)
  BY Zenon, <1>2 DEF Older, OlderAfter, L
<1>5. ASSUME NEW i \in 1 .. Len(TheLog'), NEW j \in 1 .. Len(TheLog'), i < j,
             TheLog'[i].type = "COMMIT", TheLog'[j].type = "BEGIN"
      PROVE  TheLog'[i].tid # TheLog'[j].tid
  <2>1. i \in 1 .. L /\ TheLog'[i] = TheLog[i]
    <3>1. i # L + 1
      BY <1>1, <1>5
    <3> QED
      BY Zenon, <1>2, <3>1
  <2>2. CASE j \in 1 .. L /\ TheLog'[j] = TheLog[j]
    BY Zenon, <1>5, <2>1, <2>2 DEF BeginsFirst, L
  <2>3. CASE TheLog'[j] = rec
    <3>1. Older(rec.tid)
      BY Zenon, <1>5, <2>3
    <3>2. TheLog[i].tid < rec.tid
      BY Zenon, <2>1, <3>1 DEF Older, L
    <3>3. rec.tid \in Nat
      BY DEF IsRecord
    <3> QED
      BY <2>1, <2>3, <3>2, <3>3
  <2> QED
    BY Zenon, <1>2, <2>2, <2>3
<1>6. BeginsFirst'
  BY Zenon, <1>5 DEF BeginsFirst
<1> QED
  BY Zenon, <1>3, <1>4, <1>6

\* The domain of a sequence.
LEMMA SequenceDomain ==
  ASSUME NEW s, IsSequence(s)
  PROVE  DOMAIN s = 1 .. Len(s) /\ Len(s) \in Nat
<1> DEFINE S == {s[i] : i \in 1 .. Len(s)}
<1>1. s \in Seq(S)
  BY Zenon DEF IsSequence
<1> HIDE DEF S
<1> QED
  BY <1>1

\* A record of another transaction keeps what was answered in the file.
LEMMA GrownIsDurable ==
  ASSUME IsSequence(disk_log), IsSequence(buffer), DurableCommit, NEW rec, rec.tid \notin acked,
         buffer' = Append(buffer, rec), disk_log' = disk_log, acked' = acked
  PROVE  DurableCommit'
<1>1. /\ IsSequence(buffer') /\ Len(buffer) \in Nat /\ Len(buffer') = Len(buffer) + 1
      /\ buffer'[Len(buffer) + 1] = rec /\ \A i \in 1 .. Len(buffer) : buffer'[i] = buffer[i]
  BY Zenon, LogGrows
<1>2. DOMAIN buffer = 1 .. Len(buffer) /\ DOMAIN buffer' = 1 .. Len(buffer')
  BY Zenon, <1>1, SequenceDomain
<1>3. \A i \in DOMAIN buffer' : i \in DOMAIN buffer \/ i = Len(buffer) + 1
  BY <1>1, <1>2
<1>4. \A i \in DOMAIN buffer' : (i \in DOMAIN buffer /\ buffer'[i] = buffer[i]) \/ buffer'[i] = rec
  BY Zenon, <1>1, <1>2, <1>3
<1>5. \A n \in acked : \A i \in DOMAIN buffer' : buffer'[i].tid # n
  BY Zenon, <1>4 DEF DurableCommit
<1> QED
  BY Zenon, <1>5 DEF DurableCommit, CommitLogRecord

\* So does a flush of the buffer, or its loss; what is answered after a flush
\* was in the log.
LEMMA FlushedIsDurable ==
  ASSUME IsSequence(disk_log), IsSequence(disk_log'), DurableCommit, DiskKeeps, buffer' = <<>>,
         \A n \in acked' \ acked : \E i \in 1 .. Len(disk_log') : disk_log'[i] = CommitLogRecord(n)
  PROVE  DurableCommit'
<1>1. DOMAIN disk_log = 1 .. Len(disk_log) /\ DOMAIN disk_log' = 1 .. Len(disk_log')
  BY Zenon, SequenceDomain
<1>2. DOMAIN <<>> = {}
  <2>1. 1 .. 0 = {}
    OBVIOUS
  <2> QED
    BY Zenon, <2>1, EmptyIsSequence, SequenceDomain
<1>3. \A n \in acked : \E i \in DOMAIN disk_log' : disk_log'[i] = CommitLogRecord(n)
  BY Zenon, <1>1 DEF DurableCommit, DiskKeeps, CommitLogRecord
<1>4. \A n \in acked' : \E i \in DOMAIN disk_log' : disk_log'[i] = CommitLogRecord(n)
  BY Zenon, <1>1, <1>3
<1> QED
  BY Zenon, <1>2, <1>4 DEF DurableCommit, CommitLogRecord

\* A client that does not move keeps its transaction, while the log grows.
LEMMA OtherSession ==
  ASSUME NEW d \in Clients, Session(d), tid'[d] = tid[d], write_set'[d] = write_set[d], pc'[d] = pc[d],
         tid[d] \notin acked', LogKeeps
  PROVE  Session(d)'
<1>1. \A i \in 1 .. Len(write_set[d]) : Wrote(d, write_set[d][i])'
  BY Zenon DEF Session, Wrote, IsWrite
<1>2. pc[d] = "commit_flush" => Commits(tid[d])'
  BY Zenon DEF Session, LogKeeps, Commits, CommitLogRecord
<1> QED
  BY Zenon, <1>1, <1>2 DEF Session, Commits

\* Idle clients without transactions.
LEMMA NoSessions ==
  ASSUME acked' \in SUBSET (1 .. MaxTxns),
         \A c \in Clients : pc'[c] = "idle" /\ tid'[c] = 0 /\ write_set'[c] = <<>>
  PROVE  Sessions' /\ TidsApart'
<1>1. 0 \notin acked'
  BY MaxTxnsAssumption
<1>2. 1 .. 0 = {}
  OBVIOUS
<1>3. "idle" \notin TxnPoints /\ "idle" \notin {"undo_clr", "refused_clr"} /\ "idle" # "commit_flush"
  BY DEF TxnPoints
<1>4. ASSUME NEW c \in Clients PROVE Session(c)'
  BY Zenon, <1>1, <1>2, <1>3, EmptyIsSequence DEF Session
<1> QED
  BY Zenon, <1>4 DEF Sessions, TidsApart

\* The end of the process.
LEMMA LoseKeeps ==
  ASSUME CatalogInv', LogInv, phase' \in Stopped, Lose, NEW n \in 0 .. Len(buffer),
         disk_log' = disk_log \o SubSeq(buffer, 1, n), UNCHANGED <<next_txn, acked>>
  PROVE  LogInv'
<1>1. /\ IsSequence(disk_log) /\ IsSequence(buffer) /\ Records /\ BeginsFirst /\ DurableCommit
      /\ acked \in SUBSET (1 .. MaxTxns) /\ next_txn \in Nat
  BY Zenon DEF LogInv, LogTypes, Records
<1>2. /\ buffer' = <<>> /\ pos' = 0 /\ acked' = acked /\ next_txn' = next_txn
      /\ tid' = [c \in Clients |-> 0] /\ write_set' = [c \in Clients |-> <<>>]
  BY Zenon DEF Lose
<1>3. /\ IsSequence(disk_log') /\ IsSequence(buffer') /\ DiskKeeps /\ LogIsPart
  BY Zenon, <1>1, <1>2, LogFlushes
<1>4. Records' /\ BeginsFirst'
  BY Zenon, <1>1, <1>3, PartKeeps
<1>5. DurableCommit'
  BY Zenon, <1>1, <1>2, <1>3, FlushedIsDurable
<1>6. phase' \notin Recovering \cup {"up"}
  BY DEF Stopped, Recovering
<1>7. \A c \in Clients : pc'[c] = "idle" /\ tid'[c] = 0 /\ write_set'[c] = <<>>
  BY Zenon, <1>2, <1>6 DEF CatalogInv, Asleep
<1>8. Sessions' /\ TidsApart'
  BY Zenon, <1>1, <1>2, <1>7, NoSessions
<1>9. LogTypes'
  <2>1. tid' \in [Clients -> 0 .. MaxTxns] /\ pos' \in Nat
    BY <1>2, MaxTxnsAssumption
  <2> QED
    BY Zenon, <1>1, <1>2, <1>3, <1>4, <2>1 DEF LogTypes, Records
<1>10. NextIsNew' /\ RestartSpares' /\ NothingYet'
  BY Zenon, <1>2, <1>6, <1>7 DEF NextIsNew, RestartSpares, NothingYet, Recovering
<1> QED
  BY Zenon, <1>4, <1>5, <1>8, <1>9, <1>10 DEF LogInv

\* The steps of a client: what is to be shown of them.
Others(c) == \A d \in Clients \ {c} : tid'[d] = tid[d] /\ write_set'[d] = write_set[d] /\ pc'[d] = pc[d]

\* A step that leaves the log and the ids alone.
LEMMA QuietKeeps ==
  ASSUME LogInv, phase = "up", phase' = "up", NEW c \in Clients, Others(c),
         UNCHANGED <<logs, tid, next_txn, pos, acked>>, DOMAIN write_set' = Clients, Session(c)'
  PROVE  LogInv'
<1>1. TheLog' = TheLog /\ disk_log' = disk_log /\ buffer' = buffer
  BY Zenon DEF TheLog, logs
<1>2. LogKeeps /\ acked' = acked /\ tid' = tid
  BY Zenon, <1>1 DEF LogKeeps
<1>3. ASSUME NEW d \in Clients PROVE Session(d)'
  BY Zenon, <1>2, OtherSession DEF LogInv, Sessions, Session, Others
<1>4. LogTypes'
  BY Zenon, <1>1 DEF LogInv, LogTypes, IsRecord
<1>5. NextIsNew' /\ BeginsFirst' /\ TidsApart'
  <2>1. NextIsNew'
    BY Zenon, <1>1 DEF LogInv, NextIsNew
  <2>2. BeginsFirst'
    BY Zenon, <1>1 DEF LogInv, BeginsFirst
  <2>3. TidsApart'
    BY Zenon DEF LogInv, TidsApart
  <2> QED
    BY Zenon, <2>1, <2>2, <2>3
<1>6. DurableCommit'
  BY Zenon, <1>1 DEF LogInv, DurableCommit, CommitLogRecord
<1>7. RestartSpares' /\ NothingYet'
  BY Zenon DEF RestartSpares, NothingYet, Stopped
<1> QED
  BY Zenon, <1>3, <1>4, <1>5, <1>6, <1>7 DEF LogInv, Sessions

\* A step that adds a record of the client's transaction.
LEMMA LoggedKeeps ==
  ASSUME LogInv, phase = "up", phase' = "up", NEW c \in Clients, Others(c), NEW rec, Log(rec),
         IsRecord(rec), rec.type # "BEGIN", rec.tid = tid[c],
         UNCHANGED <<tid, next_txn, pos, acked>>, DOMAIN write_set' = Clients, Session(c)'
  PROVE  LogInv'
<1>1. /\ IsSequence(disk_log) /\ IsSequence(buffer) /\ Records /\ BeginsFirst /\ DurableCommit /\ Session(c)
      /\ Older(next_txn) /\ tid[c] < next_txn /\ next_txn \in Nat
  BY Zenon DEF LogInv, LogTypes, Records, Sessions, NextIsNew, Older
<1>2. buffer' = Append(buffer, rec) /\ disk_log' = disk_log /\ acked' = acked /\ tid' = tid /\ next_txn' = next_txn
  BY Zenon DEF Log
<1>3. IsSequence(disk_log') /\ IsSequence(buffer') /\ LogKeeps
  BY Zenon, <1>1, <1>2, LogGrows
<1>4. Records' /\ BeginsFirst' /\ OlderAfter(next_txn)
  BY Zenon, <1>1, <1>2, GrownKeeps
<1>5. DurableCommit'
  BY Zenon, <1>1, <1>2, GrownIsDurable DEF Session
<1>6. ASSUME NEW d \in Clients PROVE Session(d)'
  BY Zenon, <1>2, <1>3, OtherSession DEF LogInv, Sessions, Session, Others
<1>7. LogTypes'
  BY Zenon, <1>2, <1>3, <1>4 DEF LogInv, LogTypes, Records
<1>8. NextIsNew' /\ TidsApart'
  BY Zenon, <1>2, <1>4 DEF LogInv, NextIsNew, OlderAfter, TidsApart
<1>9. RestartSpares' /\ NothingYet'
  BY Zenon DEF RestartSpares, NothingYet, Stopped
<1> QED
  BY Zenon, <1>4, <1>5, <1>6, <1>7, <1>8, <1>9 DEF LogInv, Sessions

-----------------------------------------------------------------------------
(* The steps of a client's transaction *)

\* Only the client that moves is elsewhere.
LEMMA MoveMoves ==
  ASSUME CatalogInv, NEW c \in Clients, NEW point, Move(c, point)
  PROVE  pc'[c] = point /\ phase' = phase /\ \A d \in Clients \ {c} : pc'[d] = pc[d]
<1>1. pc \in [Threads -> Points] /\ Clients \subseteq Threads
  BY Zenon DEF CatalogInv, CatalogTypes, Threads
<1>2. pc' = [pc EXCEPT ![c] = point] /\ phase' = phase
  BY Zenon DEF Move
<1> QED
  BY <1>1, <1>2

\* The session of a client that moves and leaves log, ids and write set alone.
MayMoveTo(c, point) ==
  /\ point \in TxnPoints => tid[c] # 0
  /\ point \notin Writing => write_set[c] = <<>>
  /\ point \in {"undo_clr", "refused_clr"} => write_set[c] # <<>>
  /\ point # "commit_flush"
LEMMA OnlyMoves ==
  ASSUME CatalogInv, LogInv, phase = "up", NEW c \in Clients, NEW point, Move(c, point), MayMoveTo(c, point),
         UNCHANGED <<logs, tid, write_set, next_txn, pos, acked>>
  PROVE  LogInv'
<1>1. pc'[c] = point /\ phase' = "up" /\ \A d \in Clients \ {c} : pc'[d] = pc[d]
  BY Zenon, MoveMoves
<1>2. Others(c) /\ DOMAIN write_set' = Clients /\ Session(c)
  BY Zenon, <1>1 DEF Others, LogInv, LogTypes, Sessions
<1>3. Session(c)'
  BY Zenon, <1>1, <1>2 DEF Session, MayMoveTo, Wrote, IsWrite
<1> QED
  BY Zenon, <1>1, <1>2, <1>3, QuietKeeps

\* A lock is refused; an abort begins, undoes a write in the file, ends, waits
\* for ever or fails; a record does not fit.
LEMMA OnlyMovesKeep ==
  ASSUME CatalogInv, LogInv, NEW c \in Clients,
         \/ At(c, "txn") /\ Refused(c)
         \/ AbortStart(c) \/ Rollback(c) \/ AbortRelease(c) \/ RollbackWaits(c) \/ LogFull(c)
         \/ RollbackThrows(c) /\ ~Terminate
  PROVE  LogInv'
<1>1. \A point : At(c, point) => phase = "up" /\ pc[c] = point
  BY Zenon, MainAssumption DEF At
<1>2. {"txn", "refused", "undo", "undo_clr", "refused_clr", "abort_log"} \subseteq TxnPoints
  BY DEF TxnPoints
<1>3. Session(c)
  BY Zenon DEF LogInv, Sessions
<1>4. CASE At(c, "txn") /\ Refused(c)
  <2>1. MayMoveTo(c, "refused")
    BY Zenon, <1>1, <1>2, <1>3, <1>4 DEF MayMoveTo, Session, Writing
  <2> QED
    BY Zenon, <1>1, <1>4, <2>1, OnlyMoves DEF Refused, logs, session, restart, history
<1>5. CASE AbortStart(c)
  <2>1. MayMoveTo(c, "undo") /\ phase = "up"
    BY Zenon, <1>1, <1>2, <1>3, <1>5 DEF AbortStart, MayMoveTo, Session, Writing
  <2> QED
    BY Zenon, <1>5, <2>1, OnlyMoves DEF AbortStart, logs, session, restart, history
<1>6. CASE Rollback(c)
  <2>1. MayMoveTo(c, "undo_clr") /\ MayMoveTo(c, "refused_clr") /\ phase = "up"
    BY Zenon, <1>1, <1>2, <1>3, <1>6 DEF Rollback, Undoing, MayMoveTo, Session, Writing
  <2>2. Move(c, "undo_clr") \/ Move(c, "refused_clr")
    BY Zenon, <1>6 DEF Rollback
  <2> QED
    BY Zenon, <1>6, <2>1, <2>2, OnlyMoves DEF Rollback, logs, session, restart, history
<1>7. CASE AbortRelease(c)
  <2>1. MayMoveTo(c, "abort_log") /\ phase = "up"
    BY Zenon, <1>1, <1>2, <1>3, <1>7 DEF AbortRelease, Undoing, MayMoveTo, Session, Writing
  <2> QED
    BY Zenon, <1>7, <2>1, OnlyMoves DEF AbortRelease, logs, restart, history
<1>8. MayMoveTo(c, "stuck") /\ MayMoveTo(c, "gone")
  BY DEF MayMoveTo, TxnPoints, Writing
<1>9. CASE RollbackWaits(c) \/ LogFull(c)
  <2>1. phase = "up" /\ Move(c, "stuck") /\ UNCHANGED <<logs, session, restart, next_txn, history>>
    BY Zenon, <1>1, <1>9 DEF RollbackWaits, LogFull, Undoing
  <2> QED
    BY Zenon, <1>8, <2>1, OnlyMoves DEF session, restart, history
<1>10. CASE RollbackThrows(c) /\ ~Terminate
  <2>1. phase = "up" /\ Move(c, "gone") /\ UNCHANGED <<logs, session, restart, next_txn, history>>
    BY Zenon, <1>1, <1>10 DEF RollbackThrows, Undoing
  <2> QED
    BY Zenon, <1>8, <2>1, OnlyMoves DEF session, restart, history
<1> QED
  BY Zenon, <1>4, <1>5, <1>6, <1>7, <1>9, <1>10

\* commit lets the locks go.
LEMMA CommitReleaseKeeps ==
  ASSUME CatalogInv, LogInv, NEW c \in Clients, CommitRelease(c)
  PROVE  LogInv'
<1>1. phase = "up" /\ pc[c] = "txn" /\ Session(c) /\ DOMAIN write_set = Clients
  BY Zenon, MainAssumption DEF CommitRelease, At, LogInv, Sessions, LogTypes
<1>2. pc'[c] = "commit_log" /\ phase' = "up" /\ \A d \in Clients \ {c} : pc'[d] = pc[d]
  BY Zenon, <1>1, MoveMoves DEF CommitRelease
<1>3. write_set' = [write_set EXCEPT ![c] = <<>>] /\ UNCHANGED <<logs, tid, next_txn, pos, acked>>
  BY Zenon DEF CommitRelease, restart, history
<1>4. DOMAIN write_set' = Clients /\ write_set'[c] = <<>> /\ \A d \in Clients \ {c} : write_set'[d] = write_set[d]
  BY Zenon, <1>1, <1>3
<1>5. 1 .. 0 = {} /\ "txn" \in TxnPoints
  BY DEF TxnPoints
<1>6. Session(c)'
  BY Zenon, <1>1, <1>2, <1>3, <1>4, <1>5, EmptyIsSequence DEF Session
<1> QED
  BY Zenon, <1>1, <1>2, <1>3, <1>4, <1>6, QuietKeeps DEF Others

\* A row is written: its record goes into the log and into the write set.
LEMMA WrittenKeeps ==
  ASSUME CatalogInv, LogInv, phase = "up", NEW c \in Clients, pc[c] = "txn", NEW point \in {"txn", "refused"},
         Move(c, point), NEW rec, {"type", "tid"} \subseteq DOMAIN rec, IsWrite(rec), rec.tid = tid[c],
         Written(c, rec)
  PROVE  LogInv'
<1>1. /\ Session(c) /\ DOMAIN write_set = Clients /\ tid[c] \in 0 .. MaxTxns
      /\ IsSequence(disk_log) /\ IsSequence(buffer)
  BY Zenon DEF LogInv, Sessions, LogTypes
<1>2. pc'[c] = point /\ phase' = "up" /\ \A d \in Clients \ {c} : pc'[d] = pc[d]
  BY Zenon, MoveMoves
<1>3. /\ Log(rec) /\ write_set' = [write_set EXCEPT ![c] = Append(write_set[c], rec)]
      /\ UNCHANGED <<tid, next_txn, pos, acked>>
  BY Zenon DEF Written, restart, history
<1> DEFINE ws == write_set[c]
           ws1 == Append(ws, rec)
<1>4. /\ IsSequence(ws1) /\ Len(ws) \in Nat /\ Len(ws1) = Len(ws) + 1 /\ ws1[Len(ws) + 1] = rec
      /\ \A i \in 1 .. Len(ws) : ws1[i] = ws[i]
  <2>1. IsSequence(ws)
    BY Zenon, <1>1 DEF Session
  <2>2. Extended(ws1, ws, rec)
    BY Zenon, <2>1, AppendIs
  <2> HIDE DEF ws, ws1
  <2> QED
    BY Zenon, <2>2 DEF Extended
<1>5. DOMAIN write_set' = Clients /\ write_set'[c] = ws1 /\ \A d \in Clients \ {c} : write_set'[d] = write_set[d]
  BY Zenon, <1>1, <1>3
<1> HIDE DEF ws1
<1>6. \A i \in 1 .. Len(ws1) : (i \in 1 .. Len(ws) /\ ws1[i] = ws[i]) \/ ws1[i] = rec
  <2>1. \A i \in 1 .. Len(ws1) : i \in 1 .. Len(ws) \/ i = Len(ws) + 1
    BY <1>4
  <2> QED
    BY Zenon, <1>4, <2>1
<1>7. \A i \in 1 .. Len(ws1) : Wrote(c, ws1[i])
  BY Zenon, <1>1, <1>6 DEF Session, Wrote
<1>8. point \in Writing /\ point \notin {"undo_clr", "refused_clr"} /\ point # "commit_flush" /\ "txn" \in TxnPoints
  BY DEF TxnPoints, Writing
<1>9. Session(c)'
  <2>1. tid'[c] = tid[c] /\ acked' = acked
    BY Zenon, <1>3
  <2>2. \A i \in 1 .. Len(write_set'[c]) : Wrote(c, write_set[c][i])'
    BY Zenon, <1>5, <1>7, <2>1 DEF Wrote, IsWrite
  <2>3. IsSequence(write_set'[c])
    BY Zenon, <1>4, <1>5
  <2> QED
    BY Zenon, <1>1, <1>2, <1>8, <2>1, <2>2, <2>3 DEF Session
<1>10. IsRecord(rec) /\ rec.type # "BEGIN"
  BY Zenon, <1>1 DEF IsRecord, IsWrite
<1> QED
  BY Zenon, <1>2, <1>3, <1>5, <1>9, <1>10, LoggedKeeps DEF Others

\* Insert, Delete and Update.
LEMMA RowKeeps ==
  ASSUME CatalogInv, LogInv, NEW c \in Clients, NEW t,
         \/ \E v : Insert(c, t, v)
         \/ \E rid : Delete(c, t, rid)
         \/ \E rid, v : Update(c, t, rid, v)
  PROVE  LogInv'
<1>1. At(c, "txn")
  BY Zenon DEF Insert, Delete, Update, Statement
<1>2. phase = "up" /\ pc[c] = "txn" /\ Session(c)
  BY Zenon, <1>1, MainAssumption DEF At, LogInv, Sessions
<1>3. MayMoveTo(c, "txn") /\ MayMoveTo(c, "refused")
  BY Zenon, <1>2 DEF MayMoveTo, Session, Writing, TxnPoints
<1>4. CASE Refused(c)
  BY Zenon, <1>1, <1>4, OnlyMovesKeep
<1>5. CASE (Move(c, "txn") \/ Move(c, "refused")) /\ UNCHANGED <<logs, tid, write_set, restart, next_txn, history>>
  BY Zenon, <1>2, <1>3, <1>5, OnlyMoves DEF restart, history
<1>6. \/ Refused(c)
      \/ (Move(c, "txn") \/ Move(c, "refused")) /\ UNCHANGED <<logs, tid, write_set, restart, next_txn, history>>
      \/ /\ Move(c, "txn") \/ Move(c, "refused")
         /\ \/ \E rid, v : Written(c, InsertLogRecord(tid[c], t, rid, v))
            \/ \E rid, v : Written(c, DeleteLogRecord(tid[c], t, rid, v))
            \/ \E rid, v, w : Written(c, UpdateLogRecord(tid[c], t, rid, v, w))
  <2>1. ASSUME NEW v, Insert(c, t, v), ~Refused(c)
        PROVE  \/ (Move(c, "txn") \/ Move(c, "refused")) /\ UNCHANGED <<logs, tid, write_set, restart, next_txn, history>>
               \/ /\ Move(c, "txn") \/ Move(c, "refused")
                  /\ \E rid : Written(c, InsertLogRecord(tid[c], t, rid, v))
    BY Zenon, <2>1 DEF Insert
  <2>2. ASSUME NEW rid, Delete(c, t, rid), ~Refused(c)
        PROVE  Move(c, "txn") /\ \E v : Written(c, DeleteLogRecord(tid[c], t, rid, v))
    BY Zenon, <2>2 DEF Delete
  <2>3. ASSUME NEW rid, NEW w, Update(c, t, rid, w), ~Refused(c)
        PROVE  Move(c, "txn") /\ \E v : Written(c, UpdateLogRecord(tid[c], t, rid, v, w))
    BY Zenon, <2>3 DEF Update
  <2> QED
    BY Zenon, <2>1, <2>2, <2>3
<1>7. ASSUME NEW rec, {"type", "tid"} \subseteq DOMAIN rec, IsWrite(rec), rec.tid = tid[c],
             Move(c, "txn") \/ Move(c, "refused"), Written(c, rec)
      PROVE  LogInv'
  BY Zenon, <1>2, <1>7, WrittenKeeps
<1>8. ASSUME NEW rid, NEW v, NEW rec, rec = InsertLogRecord(tid[c], t, rid, v)
      PROVE  {"type", "tid"} \subseteq DOMAIN rec /\ IsWrite(rec) /\ rec.tid = tid[c]
  BY <1>8 DEF InsertLogRecord, IsWrite
<1>9. ASSUME NEW rid, NEW v, NEW rec, rec = DeleteLogRecord(tid[c], t, rid, v)
      PROVE  {"type", "tid"} \subseteq DOMAIN rec /\ IsWrite(rec) /\ rec.tid = tid[c]
  BY <1>9 DEF DeleteLogRecord, IsWrite
<1>10. ASSUME NEW rid, NEW v, NEW w, NEW rec, rec = UpdateLogRecord(tid[c], t, rid, v, w)
       PROVE  {"type", "tid"} \subseteq DOMAIN rec /\ IsWrite(rec) /\ rec.tid = tid[c]
  BY <1>10 DEF UpdateLogRecord, IsWrite
<1>11. CASE /\ Move(c, "txn") \/ Move(c, "refused")
            /\ \E rid, v : Written(c, InsertLogRecord(tid[c], t, rid, v))
  BY Zenon, <1>7, <1>8, <1>11
<1>12. CASE /\ Move(c, "txn") \/ Move(c, "refused")
            /\ \E rid, v : Written(c, DeleteLogRecord(tid[c], t, rid, v))
  BY Zenon, <1>7, <1>9, <1>12
<1>13. CASE /\ Move(c, "txn") \/ Move(c, "refused")
            /\ \E rid, v, w : Written(c, UpdateLogRecord(tid[c], t, rid, v, w))
  BY Zenon, <1>7, <1>10, <1>13
<1> QED
  BY Zenon, <1>4, <1>5, <1>6, <1>11, <1>12, <1>13

\* begin takes a new id and logs it.
LEMMA TxnBeginKeeps ==
  ASSUME CatalogInv, LogInv, NEW c \in Clients, TxnBegin(c)
  PROVE  LogInv'
<1> DEFINE rec == BeginLogRecord(next_txn)
<1>1. /\ Session(c) /\ DOMAIN write_set = Clients /\ tid \in [Clients -> 0 .. MaxTxns] /\ next_txn \in Nat
      /\ IsSequence(disk_log) /\ IsSequence(buffer) /\ Records /\ BeginsFirst /\ DurableCommit
      /\ acked \in SUBSET (1 .. MaxTxns) /\ TidsApart /\ Sessions /\ pos \in Nat
  BY Zenon DEF LogInv, Sessions, LogTypes, Records
<1>2. /\ phase = "up" /\ pc[c] = "idle" /\ next_txn <= MaxTxns /\ Move(c, "txn") /\ Log(rec)
      /\ tid' = [tid EXCEPT ![c] = next_txn] /\ next_txn' = next_txn + 1
      /\ write_set' = write_set /\ acked' = acked /\ pos' = pos
  BY Zenon, MainAssumption DEF TxnBegin, At, restart, history
<1>3. Older(next_txn) /\ \A d \in Clients : tid[d] < next_txn
  BY Zenon, <1>2 DEF LogInv, NextIsNew, Older
<1>4. pc'[c] = "txn" /\ phase' = "up" /\ \A d \in Clients \ {c} : pc'[d] = pc[d]
  BY Zenon, <1>2, MoveMoves
<1>5. /\ rec.tid = next_txn /\ next_txn \in 0 .. MaxTxns /\ next_txn # 0 /\ next_txn < next_txn + 1
      /\ {"type", "tid"} \subseteq DOMAIN rec /\ rec.type = "BEGIN" /\ next_txn + 1 \in Nat
  BY <1>1, <1>2, <1>3, MaxTxnsAssumption DEF BeginLogRecord
<1> HIDE DEF rec
<1>6. buffer' = Append(buffer, rec) /\ disk_log' = disk_log
  BY Zenon, <1>2 DEF Log
<1>7. IsSequence(disk_log') /\ IsSequence(buffer') /\ LogKeeps
  BY Zenon, <1>1, <1>6, LogGrows
<1>8. Older(next_txn + 1)
  BY <1>1, <1>3 DEF Older, Records, IsRecord
<1>9. Records' /\ BeginsFirst' /\ \A n \in Nat : Older(n) /\ rec.tid < n => OlderAfter(n)
  BY Zenon, <1>1, <1>3, <1>5, <1>6, GrownKeeps DEF IsRecord
<1>10. OlderAfter(next_txn')
  BY Zenon, <1>2, <1>5, <1>8, <1>9
<1>11. next_txn \notin acked
  <2> SUFFICES ASSUME next_txn \in acked PROVE FALSE
    OBVIOUS
  <2>1. PICK i \in DOMAIN disk_log : disk_log[i] = CommitLogRecord(next_txn)
    BY Zenon, <1>1 DEF DurableCommit
  <2>2. i \in 1 .. Len(disk_log)
    BY Zenon, <1>1, SequenceDomain
  <2>3. TheLog[i] = CommitLogRecord(next_txn) /\ i \in 1 .. Len(TheLog)
    BY <1>1, <2>1, <2>2, TheLogIs
  <2>4. CommitLogRecord(next_txn).tid < next_txn
    BY Zenon, <1>3, <2>3 DEF Older
  <2> QED
    BY <1>1, <2>4 DEF CommitLogRecord
<1>12. DurableCommit'
  BY Zenon, <1>1, <1>2, <1>5, <1>6, <1>11, GrownIsDurable
<1>13. /\ tid' \in [Clients -> 0 .. MaxTxns] /\ tid'[c] = next_txn
       /\ \A d \in Clients \ {c} : tid'[d] = tid[d]
  BY <1>1, <1>2, <1>5
<1>14. write_set[c] = <<>>
  BY Zenon, <1>1, <1>2 DEF Session, Writing
<1>15. 1 .. 0 = {}
  OBVIOUS
<1>16. Session(c)'
  BY Zenon, <1>2, <1>4, <1>5, <1>11, <1>13, <1>14, <1>15, EmptyIsSequence DEF Session, Writing
<1>17. ASSUME NEW d \in Clients PROVE Session(d)'
  <2>1. CASE d = c
    BY Zenon, <1>16, <2>1
  <2>2. CASE d # c
    <3>1. Session(d) /\ tid[d] \notin acked'
      BY Zenon, <1>1, <1>2 DEF Sessions, Session
    <3>2. tid'[d] = tid[d] /\ write_set'[d] = write_set[d] /\ pc'[d] = pc[d]
      BY Zenon, <1>2, <1>4, <1>13, <2>2
    <3> QED
      BY Zenon, <1>7, <3>1, <3>2, OtherSession
  <2> QED
    BY Zenon, <2>1, <2>2
<1>18. \A d \in Clients : tid[d] # next_txn
  BY <1>1, <1>3
<1>19. TidsApart'
  <2> SUFFICES ASSUME NEW d \in Clients, NEW e \in Clients, d # e, tid'[d] # 0 PROVE tid'[d] # tid'[e]
    BY Zenon DEF TidsApart
  <2>1. CASE d = c
    BY Zenon, <1>13, <1>18, <2>1
  <2>2. CASE d # c /\ e = c
    BY Zenon, <1>13, <1>18, <2>2
  <2>3. CASE d # c /\ e # c
    BY Zenon, <1>1, <1>13, <2>3 DEF TidsApart
  <2> QED
    BY Zenon, <2>1, <2>2, <2>3
<1>20. \A d \in Clients : tid'[d] < next_txn'
  BY <1>1, <1>2, <1>3, <1>13
<1>21. LogTypes' /\ NextIsNew'
  <2>1. LogTypes'
    BY Zenon, <1>1, <1>2, <1>5, <1>7, <1>9, <1>13 DEF LogTypes, Records
  <2>2. NextIsNew'
    BY Zenon, <1>10, <1>20 DEF NextIsNew, OlderAfter
  <2> QED
    BY Zenon, <2>1, <2>2
<1>22. RestartSpares' /\ NothingYet'
  BY Zenon, <1>4 DEF RestartSpares, NothingYet, Stopped
<1> QED
  BY Zenon, <1>9, <1>12, <1>17, <1>19, <1>21, <1>22 DEF LogInv, Sessions

-----------------------------------------------------------------------------
(* The end of a transaction *)

\* commit and abort write their record.
LEMMA EndLogKeeps ==
  ASSUME CatalogInv, LogInv, NEW c \in Clients, CommitLog(c) \/ AbortLog(c)
  PROVE  LogInv'
<1> DEFINE rec == IF pc[c] = "commit_log" THEN CommitLogRecord(tid[c]) ELSE AbortLogRecord(tid[c])
           next == IF pc[c] = "commit_log" THEN "commit_flush" ELSE "abort_flush"
<1>1. /\ phase = "up" /\ pc[c] \in {"commit_log", "abort_log"} /\ Move(c, next) /\ Log(rec)
      /\ UNCHANGED <<tid, write_set, next_txn, pos, acked>>
  BY Zenon, MainAssumption DEF CommitLog, AbortLog, EndLog, At, session, restart, history
<1>2. /\ Session(c) /\ DOMAIN write_set = Clients /\ tid[c] \in 0 .. MaxTxns
      /\ IsSequence(disk_log) /\ IsSequence(buffer)
  BY Zenon DEF LogInv, Sessions, LogTypes
<1>3. rec.tid = tid[c] /\ rec.type # "BEGIN" /\ {"type", "tid"} \subseteq DOMAIN rec
  BY DEF CommitLogRecord, AbortLogRecord
<1>4. next = "commit_flush" => rec = CommitLogRecord(tid[c])
  BY Zenon
<1>5. next \in {"commit_flush", "abort_flush"}
  BY Zenon
<1> HIDE DEF rec, next
<1>6. pc'[c] = next /\ phase' = "up" /\ \A d \in Clients \ {c} : pc'[d] = pc[d]
  BY Zenon, <1>1, MoveMoves
<1>7. buffer' = Append(buffer, rec) /\ disk_log' = disk_log
  BY Zenon, <1>1 DEF Log
<1>8. Len(TheLog) \in Nat /\ Len(TheLog') = Len(TheLog) + 1 /\ TheLog'[Len(TheLog) + 1] = rec
  BY Zenon, <1>2, <1>7, LogGrows
<1>9. Len(TheLog) + 1 \in 1 .. Len(TheLog')
  BY <1>8
<1>10. next = "commit_flush" => \E i \in 1 .. Len(TheLog') : TheLog'[i] = CommitLogRecord(tid'[c])
  <2>1. tid'[c] = tid[c]
    BY Zenon, <1>1
  <2> QED
    BY Zenon, <1>4, <1>8, <1>9, <2>1
<1>11. tid[c] # 0 /\ write_set[c] = <<>>
  <2>1. {"commit_log", "abort_log"} \subseteq TxnPoints /\ "commit_log" \notin Writing /\ "abort_log" \notin Writing
    BY DEF TxnPoints, Writing
  <2> QED
    BY Zenon, <1>1, <1>2, <2>1 DEF Session
<1>12. 1 .. 0 = {}
  OBVIOUS
<1>13. Session(c)'
  <2>1. tid'[c] = tid[c] /\ acked' = acked /\ write_set'[c] = <<>>
    BY Zenon, <1>1, <1>11
  <2>2. next \notin {"undo_clr", "refused_clr"}
    BY Zenon, <1>5
  <2> QED
    BY Zenon, <1>2, <1>6, <1>10, <1>11, <1>12, <2>1, <2>2, EmptyIsSequence DEF Session, CommitLogRecord
<1> QED
  BY Zenon, <1>1, <1>2, <1>3, <1>6, <1>13, LoggedKeeps DEF Others, IsRecord

\* A compensation record is a record of the same transaction.
LEMMA CLRIs ==
  ASSUME NEW r, {"type", "tid"} \subseteq DOMAIN r, IsWrite(r)
  PROVE  {"type", "tid"} \subseteq DOMAIN CLR(r) /\ CLR(r).tid = r.tid /\ CLR(r).type # "BEGIN"
<1>1. ASSUME NEW q, {"type", "tid"} \subseteq DOMAIN q, IsWrite(q)
      PROVE  /\ {"type", "tid"} \subseteq DOMAIN setCLR(q) /\ setCLR(q).tid = q.tid
             /\ setCLR(q).type # "BEGIN"
  <2>1. DOMAIN setCLR(q) = DOMAIN q
    BY Zenon DEF setCLR
  <2>2. setCLR(q).tid = q.tid
    BY <1>1 DEF setCLR
  <2>3. setCLR(q).type # "BEGIN"
    BY <1>1 DEF setCLR, IsWrite
  <2> QED
    BY Zenon, <1>1, <2>1, <2>2, <2>3
<1>2. CASE r.type # "UPDATE"
  BY Zenon, <1>1, <1>2 DEF CLR
<1>3. CASE r.type = "UPDATE"
  <2> DEFINE q == [r EXCEPT !.old = r.new, !.new = r.old]
  <2>1. DOMAIN q = DOMAIN r
    BY Zenon
  <2>2. q.tid = r.tid /\ q.type = r.type
    OBVIOUS
  <2>3. CLR(r) = setCLR(q)
    BY Zenon, <1>3 DEF CLR
  <2> HIDE DEF q
  <2> QED
    BY Zenon, <1>1, <2>1, <2>2, <2>3 DEF IsWrite
<1> QED
  BY Zenon, <1>2, <1>3

\* A write that was undone is logged and leaves the write set.
LEMMA RollbackLogKeeps ==
  ASSUME CatalogInv, LogInv, NEW c \in Clients, RollbackLog(c)
  PROVE  LogInv'
<1> DEFINE ws == write_set[c]
           ws1 == SubSeq(ws, 1, Len(ws) - 1)
           rec == CLR(LastWrite(c))
           next == IF pc[c] = "undo_clr" THEN "undo" ELSE "refused"
<1>1. /\ phase = "up" /\ pc[c] \in {"undo_clr", "refused_clr"} /\ Move(c, next) /\ Log(rec)
      /\ write_set' = [write_set EXCEPT ![c] = ws1] /\ UNCHANGED <<tid, next_txn, pos, acked>>
  BY Zenon, MainAssumption DEF RollbackLog, At, restart, history
<1>2. Session(c) /\ DOMAIN write_set = Clients /\ tid[c] \in 0 .. MaxTxns
  BY Zenon DEF LogInv, Sessions, LogTypes
<1>3. IsSequence(ws) /\ ws # <<>> /\ \A i \in 1 .. Len(ws) : Wrote(c, ws[i])
  BY Zenon, <1>1, <1>2 DEF Session
<1>4. Len(ws) \in Nat /\ Len(ws) # 0
  <2> DEFINE S == {ws[i] : i \in 1 .. Len(ws)}
  <2>1. ws \in Seq(S)
    BY Zenon, <1>3 DEF IsSequence
  <2> HIDE DEF S
  <2> QED
    BY <1>3, <2>1
<1>5. Len(ws) \in 1 .. Len(ws) /\ Len(ws) - 1 \in 0 .. Len(ws)
  BY <1>4
<1>6. Wrote(c, LastWrite(c))
  BY Zenon, <1>3, <1>5 DEF LastWrite
<1>7. {"type", "tid"} \subseteq DOMAIN rec /\ rec.tid = tid[c] /\ rec.type # "BEGIN"
  BY Zenon, <1>6, CLRIs DEF Wrote
<1> HIDE DEF rec
<1>8. /\ IsSequence(ws1) /\ Len(ws1) = Len(ws) - 1 /\ \A i \in 1 .. Len(ws) - 1 : ws1[i] = ws[i]
  BY Zenon, <1>3, <1>5, PrefixIs
<1>9. DOMAIN write_set' = Clients /\ write_set'[c] = ws1 /\ \A d \in Clients \ {c} : write_set'[d] = write_set[d]
  BY Zenon, <1>1, <1>2
<1> HIDE DEF ws1
<1>10. \A i \in 1 .. Len(ws1) : i \in 1 .. Len(ws) /\ ws1[i] = ws[i]
  BY <1>4, <1>8
<1>11. pc'[c] = next /\ phase' = "up" /\ \A d \in Clients \ {c} : pc'[d] = pc[d]
  BY Zenon, <1>1, MoveMoves
<1>12. next \in Writing /\ next \notin {"undo_clr", "refused_clr"} /\ next # "commit_flush"
  BY DEF Writing
<1>13. tid[c] # 0
  <2>1. {"undo_clr", "refused_clr"} \subseteq TxnPoints
    BY DEF TxnPoints
  <2> QED
    BY Zenon, <1>1, <1>2, <2>1 DEF Session
<1> HIDE DEF next
<1>14. Session(c)'
  <2>1. tid'[c] = tid[c] /\ acked' = acked
    BY Zenon, <1>1
  <2>2. \A i \in 1 .. Len(write_set'[c]) : Wrote(c, write_set[c][i])'
    BY Zenon, <1>3, <1>9, <1>10, <2>1 DEF Wrote, IsWrite
  <2>3. IsSequence(write_set'[c])
    BY Zenon, <1>8, <1>9
  <2> QED
    BY Zenon, <1>2, <1>11, <1>12, <1>13, <2>1, <2>2, <2>3 DEF Session
<1> QED
  BY Zenon, <1>1, <1>2, <1>7, <1>9, <1>11, <1>14, LoggedKeeps DEF Others, IsRecord

\* The whole of a sequence, and nothing of it.
LEMMA WholeAndNone ==
  ASSUME NEW s, IsSequence(s), NEW t, IsSequence(t)
  PROVE  /\ SubSeq(t, 1, Len(t)) = t /\ Len(t) \in 0 .. Len(t)
         /\ s \o SubSeq(t, 1, 0) = s /\ 0 \in 0 .. Len(t)
<1> DEFINE S == {s[i] : i \in 1 .. Len(s)}
           T == {t[i] : i \in 1 .. Len(t)}
<1>1. s \in Seq(S) /\ t \in Seq(T)
  BY Zenon DEF IsSequence
<1> HIDE DEF S, T
<1>2. SubSeq(t, 1, Len(t)) = t
  BY <1>1
<1>3. SubSeq(t, 1, 0) = <<>>
  BY <1>1
<1>4. s \o <<>> = s
  BY <1>1
<1>5. Len(t) \in 0 .. Len(t) /\ 0 \in 0 .. Len(t)
  BY <1>1
<1> QED
  BY Zenon, <1>2, <1>3, <1>4, <1>5

\* The log is flushed and the client gets its answer.
LEMMA FlushKeeps ==
  ASSUME CatalogInv, LogInv, NEW c \in Clients, Flush(c)
  PROVE  LogInv'
<1>1. /\ Session(c) /\ DOMAIN write_set = Clients /\ tid \in [Clients -> 0 .. MaxTxns] /\ next_txn \in Nat
      /\ IsSequence(disk_log) /\ IsSequence(buffer) /\ Records /\ BeginsFirst /\ DurableCommit
      /\ acked \in SUBSET (1 .. MaxTxns) /\ TidsApart /\ Sessions /\ pos \in Nat
  BY Zenon DEF LogInv, Sessions, LogTypes, Records
<1>2. /\ phase = "up" /\ pc[c] \in {"commit_flush", "abort_flush"} /\ Move(c, "idle")
      /\ disk_log' = disk_log \o buffer /\ buffer' = <<>> /\ tid' = [tid EXCEPT ![c] = 0]
      /\ acked' = (IF pc[c] = "commit_flush" THEN acked \cup {tid[c]} ELSE acked)
      /\ write_set' = write_set /\ next_txn' = next_txn /\ pos' = pos
  BY Zenon, MainAssumption DEF Flush, Flushing, At, flush_log_to_disk, Answer, restart
<1>3. pc'[c] = "idle" /\ phase' = "up" /\ \A d \in Clients \ {c} : pc'[d] = pc[d]
  BY Zenon, <1>2, MoveMoves
<1>4. disk_log' = disk_log \o SubSeq(buffer, 1, Len(buffer)) /\ Len(buffer) \in 0 .. Len(buffer)
  BY Zenon, <1>1, <1>2, WholeAndNone
<1>5. /\ IsSequence(disk_log') /\ IsSequence(buffer') /\ DiskKeeps /\ LogIsPart /\ LogKeeps
      /\ Len(disk_log') = Len(TheLog) /\ \A i \in 1 .. Len(disk_log') : disk_log'[i] = TheLog'[i]
  BY Zenon, <1>1, <1>2, <1>4, LogFlushes
<1>6. Older(next_txn) /\ \A d \in Clients : tid[d] < next_txn
  BY Zenon, <1>2 DEF LogInv, NextIsNew, Older
<1>7. Records' /\ BeginsFirst' /\ OlderAfter(next_txn)
  BY Zenon, <1>1, <1>5, <1>6, PartKeeps
<1>8. pc[c] = "commit_flush" => \E i \in 1 .. Len(disk_log') : disk_log'[i] = CommitLogRecord(tid[c])
  BY Zenon, <1>1, <1>5 DEF Session, LogKeeps
<1>9. DurableCommit'
  <2>1. \A n \in acked' \ acked : \E i \in 1 .. Len(disk_log') : disk_log'[i] = CommitLogRecord(n)
    BY Zenon, <1>2, <1>8
  <2> QED
    BY Zenon, <1>1, <1>2, <1>5, <2>1, FlushedIsDurable
<1>10. tid[c] # 0 /\ write_set[c] = <<>>
  <2>1. {"commit_flush", "abort_flush"} \subseteq TxnPoints /\ "commit_flush" \notin Writing /\ "abort_flush" \notin Writing
    BY DEF TxnPoints, Writing
  <2> QED
    BY Zenon, <1>1, <1>2, <2>1 DEF Session
<1>11. /\ tid' \in [Clients -> 0 .. MaxTxns] /\ tid'[c] = 0 /\ \A d \in Clients \ {c} : tid'[d] = tid[d]
       /\ acked' \in SUBSET (1 .. MaxTxns) /\ 0 \notin acked' /\ tid[c] \in 0 .. MaxTxns
  <2>1. tid[c] \in 1 .. MaxTxns
    BY <1>1, <1>10, MaxTxnsAssumption
  <2>2. 0 \notin 1 .. MaxTxns
    BY MaxTxnsAssumption
  <2>3. acked' \in SUBSET (1 .. MaxTxns)
    BY Zenon, <1>1, <1>2, <2>1
  <2>4. tid' \in [Clients -> 0 .. MaxTxns] /\ tid'[c] = 0 /\ \A d \in Clients \ {c} : tid'[d] = tid[d]
    BY <1>1, <1>2, MaxTxnsAssumption
  <2> QED
    BY Zenon, <1>1, <2>2, <2>3, <2>4
<1>12. ASSUME NEW d \in Clients PROVE Session(d)'
  <2>1. CASE d = c
    <3>1. 1 .. 0 = {} /\ "idle" \notin TxnPoints /\ "idle" \notin {"undo_clr", "refused_clr"}
      BY DEF TxnPoints
    <3> QED
      BY Zenon, <1>2, <1>3, <1>10, <1>11, <2>1, <3>1, EmptyIsSequence DEF Session
  <2>2. CASE d # c
    <3>1. Session(d) /\ tid[d] # tid[c]
      BY Zenon, <1>1, <1>10, <2>2 DEF Sessions, TidsApart
    <3>2. tid[d] \notin acked'
      BY Zenon, <1>2, <3>1 DEF Session
    <3>3. tid'[d] = tid[d] /\ write_set'[d] = write_set[d] /\ pc'[d] = pc[d]
      BY Zenon, <1>2, <1>3, <1>11, <2>2
    <3> QED
      BY Zenon, <1>5, <3>1, <3>2, <3>3, OtherSession
  <2> QED
    BY Zenon, <2>1, <2>2
<1>13. TidsApart'
  BY Zenon, <1>1, <1>11 DEF TidsApart
<1>14. \A d \in Clients : tid'[d] < next_txn
  BY <1>1, <1>6, <1>11
<1>15. LogTypes'
  BY Zenon, <1>1, <1>2, <1>5, <1>7, <1>11 DEF LogTypes, Records
<1>16. NextIsNew'
  BY Zenon, <1>2, <1>7, <1>14 DEF NextIsNew, OlderAfter
<1>17. RestartSpares' /\ NothingYet'
  BY Zenon, <1>3 DEF RestartSpares, NothingYet, Stopped
<1> QED
  BY Zenon, <1>7, <1>9, <1>12, <1>13, <1>15, <1>16, <1>17 DEF LogInv, Sessions

-----------------------------------------------------------------------------
(* DDL statements, the end of the process, and the start *)

\* A DDL statement moves its client from point to point, or ends the process.
IdlePoints == DdlPoints \cup {"idle"}
LEMMA DdlMoves ==
  ASSUME NEW c \in Clients, Request(c) \/ Execute(c) \/ \E t \in Tables : NameMissing(c, t)
  PROVE  /\ phase = "up" /\ pc[c] \in IdlePoints
         /\ \/ phase' \in {"down", "dead"}
            \/ phase' = "up" /\ (pc' = pc \/ \E point \in IdlePoints : pc' = [pc EXCEPT ![c] = point])
<1>1. \A point : At(c, point) => phase = "up" /\ pc[c] = point
  BY Zenon, MainAssumption DEF At
<1>2. {"ct_file", "ct_meta", "ct_open", "ci_meta", "ci_file", "ci_open", "di_check", "di_meta", "di_file",
       "di_erase", "dt_check", "dt_meta", "dt_file", "dt_erase", "idle"} = IdlePoints
  BY DEF IdlePoints, DdlPoints, CreatePoints, DropPoints
<1> DEFINE Moves == \/ phase' \in {"down", "dead"}
                    \/ phase' = phase /\ (pc' = pc \/ \E point \in IdlePoints : pc' = [pc EXCEPT ![c] = point])
<1>3. ASSUME NEW point \in IdlePoints, Goto(c, point) PROVE Moves
  BY Zenon, <1>3 DEF Goto
<1>4. ASSUME Return(c) PROVE Moves
  BY Zenon, <1>2, <1>4 DEF Return
<1>5. ASSUME Throw(c) \/ Segfault PROVE Moves
  BY Zenon, <1>2, <1>5 DEF Throw, Segfault, Stop, Return
<1>6. CASE \E t \in Tables : NameMissing(c, t)
  BY Zenon, <1>1, <1>2, <1>6 DEF NameMissing, control
<1>7. CASE Request(c)
  <2>1. PICK t \in Tables : create_table(c, t) \/ drop_table(c, t) \/ create_index(c, t) \/ drop_index(c, t)
    BY Zenon, <1>7 DEF Request
  <2>2. DropPoint(t) \in IdlePoints
    BY Zenon, <1>2 DEF DropPoint
  <2>3. \E op : \E point \in IdlePoints : Begin(c, op, t, point)
    BY Zenon, <1>2, <2>1, <2>2 DEF create_table, drop_table, create_index, drop_index
  <2> QED
    BY Zenon, <1>1, <1>2, <2>3 DEF Begin
<1>8. CASE CreateTableFile(c) \/ CreateTableMeta(c) \/ CreateTableOpen(c)
  <2>1. Moves
    BY Zenon, <1>2, <1>3, <1>4, <1>5, <1>8 DEF CreateTableFile, CreateTableMeta, CreateTableOpen
  <2> QED
    BY Zenon, <1>1, <1>2, <1>8, <2>1 DEF CreateTableFile, CreateTableMeta, CreateTableOpen
<1>9. CASE CreateIndexMeta(c) \/ CreateIndexFile(c) \/ CreateIndexOpen(c)
  <2>1. Moves
    BY Zenon, <1>2, <1>3, <1>4, <1>5, <1>9 DEF CreateIndexMeta, CreateIndexFile, CreateIndexOpen
  <2> QED
    BY Zenon, <1>1, <1>2, <1>9, <2>1 DEF CreateIndexMeta, CreateIndexFile, CreateIndexOpen
<1>10. CASE DropIndexCheck(c) \/ DropIndexMeta(c) \/ DropIndexFile(c) \/ DropIndexErase(c)
  <2>1. Moves
    <3>1. CASE DropIndexErase(c)
      BY Zenon, <1>2, <1>4, <3>1 DEF DropIndexErase
    <3> QED
      BY Zenon, <1>2, <1>3, <1>4, <1>5, <1>10, <3>1 DEF DropIndexCheck, DropIndexMeta, DropIndexFile
  <2> QED
    BY Zenon, <1>1, <1>2, <1>10, <2>1 DEF DropIndexCheck, DropIndexMeta, DropIndexFile, DropIndexErase
<1>11. CASE DropTableCheck(c) \/ DropTableMeta(c) \/ DropTableFile(c) \/ DropTableErase(c)
  <2>1. Moves
    BY Zenon, <1>2, <1>3, <1>4, <1>5, <1>11 DEF DropTableCheck, DropTableMeta, DropTableFile, DropTableErase
  <2> QED
    BY Zenon, <1>1, <1>2, <1>11, <2>1 DEF DropTableCheck, DropTableMeta, DropTableFile, DropTableErase
<1> QED
  BY Zenon, <1>6, <1>7, <1>8, <1>9, <1>10, <1>11 DEF Execute

\* The process ends and the buffer with it.
LEMMA LostKeeps ==
  ASSUME CatalogInv', LogInv, phase' \in Stopped, Lose, UNCHANGED <<disk_log, next_txn, acked>>
  PROVE  LogInv'
<1>1. IsSequence(disk_log) /\ IsSequence(buffer)
  BY Zenon DEF LogInv, LogTypes
<1>2. disk_log' = disk_log \o SubSeq(buffer, 1, 0) /\ 0 \in 0 .. Len(buffer)
  BY Zenon, <1>1, WholeAndNone
<1> QED
  BY Zenon, <1>2, LoseKeeps

\* A step of a DDL statement, and load_data, leave the transactions alone.
LEMMA DdlKeeps ==
  ASSUME CatalogInv, CatalogInv', LogInv, NEW c \in Clients,
         Ddl(c) \/ \E t, v : load_data(c, t, v)
  PROVE  LogInv'
<1>1. CASE Ddl(c)
  <2>1. /\ Request(c) \/ Execute(c) \/ \E t \in Tables : NameMissing(c, t)
        /\ IF phase' \in {"down", "dead"} THEN Lose /\ UNCHANGED <<disk_log, next_txn, bounds, acked>>
           ELSE UNCHANGED <<logs, session, held, restart, next_txn, bounds, acked>>
    BY Zenon, <1>1 DEF Ddl, CatalogStep
  <2>2. /\ phase = "up" /\ pc[c] \in IdlePoints
        /\ \/ phase' \in {"down", "dead"}
           \/ phase' = "up" /\ (pc' = pc \/ \E point \in IdlePoints : pc' = [pc EXCEPT ![c] = point])
    BY Zenon, <2>1, DdlMoves
  <2>3. CASE phase' \in {"down", "dead"}
    BY Zenon, <2>1, <2>3, LostKeeps DEF Stopped
  <2>4. CASE phase' \notin {"down", "dead"}
    <3>1. /\ phase' = "up" /\ (pc' = pc \/ \E point \in IdlePoints : pc' = [pc EXCEPT ![c] = point])
          /\ UNCHANGED <<logs, tid, write_set, next_txn, pos, acked>>
      BY Zenon, <2>1, <2>2, <2>4 DEF session, restart
    <3>2. pc \in [Threads -> Points] /\ Clients \subseteq Threads
      BY Zenon DEF CatalogInv, CatalogTypes, Threads
    <3>3. pc'[c] \in IdlePoints /\ \A d \in Clients \ {c} : pc'[d] = pc[d]
      BY <2>2, <3>1, <3>2
    <3>4. Session(c) /\ DOMAIN write_set = Clients
      BY Zenon DEF LogInv, Sessions, LogTypes
    <3>5. ASSUME NEW point \in IdlePoints
          PROVE  /\ point \notin TxnPoints /\ point \notin Writing /\ point \notin {"undo_clr", "refused_clr"}
                 /\ point # "commit_flush"
      BY DEF IdlePoints, DdlPoints, CreatePoints, DropPoints, TxnPoints, Writing
    <3>6. write_set[c] = <<>> /\ write_set' = write_set /\ tid' = tid /\ acked' = acked
      BY Zenon, <2>2, <3>1, <3>4, <3>5 DEF Session
    <3>7. 1 .. 0 = {}
      OBVIOUS
    <3>8. Session(c)'
      BY Zenon, <3>3, <3>4, <3>5, <3>6, <3>7, EmptyIsSequence DEF Session
    <3> QED
      BY Zenon, <2>2, <3>1, <3>3, <3>4, <3>6, <3>8, QuietKeeps DEF Others
  <2> QED
    BY Zenon, <2>3, <2>4
<1>2. ASSUME NEW t, NEW v, load_data(c, t, v) PROVE LogInv'
  <2>1. /\ phase = "up" /\ phase' = "up" /\ pc[c] = "idle" /\ pc' = pc
        /\ UNCHANGED <<logs, tid, write_set, next_txn, pos, acked>>
    BY Zenon, <1>2, MainAssumption DEF load_data, At, catalogVars, control, session, restart
  <2>2. Session(c) /\ DOMAIN write_set = Clients
    BY Zenon DEF LogInv, Sessions, LogTypes
  <2>3. Session(c)'
    BY Zenon, <2>1, <2>2 DEF Session, Wrote, IsWrite, TheLog, logs
  <2> QED
    BY Zenon, <2>1, <2>2, <2>3, QuietKeeps DEF Others
<1> QED
  BY Zenon, <1>1, <1>2

\* A crash and a shutdown save a part of the buffer or all of it, and other ends none.
LEMMA EndKeepsLog ==
  ASSUME CatalogInv', LogInv, Crash \/ Shutdown \/ Terminate \/ MainStops("dead") \/ MainStops("hung")
  PROVE  LogInv'
<1>1. IsSequence(disk_log) /\ IsSequence(buffer)
  BY Zenon DEF LogInv, LogTypes
<1>2. Len(buffer) \in Nat
  BY Zenon, <1>1, TheLogIs
<1>3. CASE Crash
  <2>1. /\ phase' = "down" /\ Lose /\ UNCHANGED <<next_txn, acked>>
        /\ \E n \in Reached : disk_log' = disk_log \o SubSeq(buffer, 1, n)
    BY Zenon, <1>3 DEF Crash, Stop, history
  <2>2. Reached \subseteq 0 .. Len(buffer)
    BY <1>2 DEF Reached
  <2> QED
    BY Zenon, <2>1, <2>2, LoseKeeps DEF Stopped
<1>4. CASE Shutdown
  <2>1. phase' = "down" /\ Lose /\ UNCHANGED <<next_txn, acked>> /\ disk_log' = disk_log \o buffer
    BY Zenon, <1>4 DEF Shutdown, Stop, history
  <2>2. SubSeq(buffer, 1, Len(buffer)) = buffer /\ Len(buffer) \in 0 .. Len(buffer)
    BY Zenon, <1>1, WholeAndNone
  <2> QED
    BY Zenon, <2>1, <2>2, LoseKeeps DEF Stopped
<1>5. CASE Terminate \/ MainStops("dead") \/ MainStops("hung")
  <2>1. phase' \in {"down", "dead", "hung"} /\ Lose /\ UNCHANGED <<disk_log, next_txn, acked>>
    BY Zenon, <1>5 DEF Terminate, MainStops, Stop, history
  <2> QED
    BY Zenon, <2>1, LostKeeps DEF Stopped
<1> QED
  BY Zenon, <1>3, <1>4, <1>5

\* Every step of a client's transaction.
LEMMA TransactionKeeps ==
  ASSUME CatalogInv, CatalogInv', LogInv, NEW c \in Clients, TxnBegin(c) \/ Rows(c) \/ End(c) \/ Fails(c)
  PROVE  LogInv'
<1>1. CASE Rows(c)
  <2>1. PICK t \in Tables :
          \/ \E v \in NewRows : Insert(c, t, v) \/ load_data(c, t, v)
          \/ \E rid \in RidsOf(file[t]) : Delete(c, t, rid) \/ \E v \in Values : Update(c, t, rid, v)
          \/ OutOfRange(c, t)
    BY Zenon, <1>1 DEF Rows
  <2>2. CASE OutOfRange(c, t)
    BY Zenon, <2>2, EndKeepsLog DEF OutOfRange
  <2>3. CASE \E v \in NewRows : load_data(c, t, v)
    BY Zenon, <2>3, DdlKeeps
  <2> QED
    BY Zenon, <2>1, <2>2, <2>3, RowKeeps
<1>2. CASE TxnBegin(c)
  BY Zenon, <1>2, TxnBeginKeeps
<1>3. CASE End(c)
  BY Zenon, <1>3, CommitReleaseKeeps, EndLogKeeps, OnlyMovesKeep, RollbackLogKeeps, FlushKeeps DEF End
<1>4. CASE Fails(c)
  BY Zenon, <1>4, OnlyMovesKeep, EndKeepsLog DEF Fails
<1> QED
  BY Zenon, <1>1, <1>2, <1>3, <1>4

\* A step of the main thread: what is to be shown of it.
LEMMA MainKeepsLog ==
  ASSUME LogInv, phase # "up", UNCHANGED <<disk_log, tid, write_set, acked>>,
         \A c \in Clients : pc'[c] = "idle", IsSequence(buffer'), Records', BeginsFirst', DurableCommit',
         next_txn' \in Nat, pos' \in Nat, NextIsNew', RestartSpares',
         phase' \in Stopped \cup {"analyze", "redo"} => buffer' = <<>>
  PROVE  LogInv'
<1>1. LogTypes /\ NothingYet
  BY Zenon DEF LogInv
<1>2. LogTypes'
  BY Zenon, <1>1 DEF LogTypes, Records
<1>3. \A c \in Clients : pc'[c] = "idle" /\ tid'[c] = 0 /\ write_set'[c] = <<>>
  BY Zenon, <1>1 DEF NothingYet
<1>4. Sessions' /\ TidsApart'
  BY Zenon, <1>1, <1>3, NoSessions DEF LogTypes
<1>5. NothingYet'
  BY Zenon, <1>3 DEF NothingYet
<1> QED
  BY Zenon, <1>2, <1>4, <1>5 DEF LogInv

\* It leaves the log alone.
LEMMA LogStays ==
  ASSUME LogInv, UNCHANGED <<logs, acked>>
  PROVE  TheLog' = TheLog /\ IsSequence(buffer') /\ Records' /\ BeginsFirst' /\ DurableCommit'
<1>1. disk_log' = disk_log /\ buffer' = buffer /\ TheLog' = TheLog
  BY Zenon DEF TheLog, logs
<1>2. Records' /\ BeginsFirst'
  BY Zenon, <1>1 DEF LogInv, LogTypes, Records, BeginsFirst, IsRecord
<1>3. DurableCommit'
  BY Zenon, <1>1 DEF LogInv, DurableCommit, CommitLogRecord
<1> QED
  BY Zenon, <1>1, <1>2, <1>3 DEF LogInv, LogTypes

-----------------------------------------------------------------------------
(* The start *)

\* analyze takes an id that the log does not have.
LEMMA NextIdIsNew ==
  ASSUME IsSequence(disk_log), Records, buffer = <<>>
  PROVE  NextId \in Nat /\ 0 < NextId /\ Older(NextId)
<1> DEFINE ids == {disk_log[i].tid : i \in DOMAIN disk_log} \cup {0}
           top == CHOOSE n \in ids : \A m \in ids : m <= n
<1>1. IsSequence(buffer) /\ Len(buffer) = 0
  BY Zenon, EmptyIsSequence
<1>2. /\ Len(disk_log) \in Nat /\ Len(TheLog) = Len(disk_log) + Len(buffer)
      /\ \A i \in 1 .. Len(disk_log) : TheLog[i] = disk_log[i]
  BY Zenon, <1>1, TheLogIs
<1>3. Len(TheLog) = Len(disk_log) /\ DOMAIN disk_log = 1 .. Len(disk_log)
  <2>1. DOMAIN disk_log = 1 .. Len(disk_log)
    BY Zenon, SequenceDomain
  <2> QED
    BY <1>1, <1>2, <2>1
<1>4. \A i \in DOMAIN disk_log : disk_log[i].tid \in 0 .. MaxTxns
  BY Zenon, <1>2, <1>3 DEF Records, IsRecord
<1>5. 0 \in 0 .. MaxTxns /\ MaxTxns \in Nat
  BY MaxTxnsAssumption
<1>6. ids \in SUBSET (0 .. MaxTxns) /\ ids # {} /\ 0 \in ids
  BY Zenon, <1>4, <1>5
<1>7. \A i \in 1 .. Len(TheLog) : TheLog[i].tid \in ids
  BY Zenon, <1>2, <1>3
<1>8. NextId = 1 + top
  BY Zenon DEF NextId
<1> HIDE DEF ids
<1>9. \E n \in ids : \A m \in ids : m <= n
  BY Zenon, <1>5, <1>6, MaxExists
<1>10. top \in ids /\ \A m \in ids : m <= top
  BY Zenon, <1>9
<1> HIDE DEF top
<1>11. top \in Nat
  BY <1>5, <1>6, <1>10
<1>12. ASSUME NEW i \in 1 .. Len(TheLog) PROVE TheLog[i].tid < NextId
  <2>1. TheLog[i].tid \in 0 .. MaxTxns /\ TheLog[i].tid <= top
    BY Zenon, <1>6, <1>7, <1>10
  <2> QED
    BY <1>5, <1>8, <1>11, <2>1
<1> QED
  BY <1>8, <1>11, <1>12 DEF Older

\* The steps of the catalog on the way through analyze.
LEMMA AnalyzeKeepsLog ==
  ASSUME CatalogInv, CatalogInv', LogInv,
         \/ CatalogStep(open_db) \/ CatalogStep(AnalyzeDrop) \/ CatalogStep(AnalyzeCreate)
         \/ CatalogStep(Execute(Main))
  PROVE  LogInv'
<1>1. phase \in {"down", "analyze"} /\ phase' \in {"down", "dead", "analyze"}
  <2>1. CASE open_db \/ AnalyzeDrop \/ AnalyzeCreate
    BY Zenon, <2>1 DEF open_db, AnalyzeDrop, AnalyzeCreate, Stop, At
  <2>2. \A point : At(Main, point) => phase = "analyze"
    BY Zenon DEF At
  <2>3. CASE CreateTableFile(Main) \/ CreateTableMeta(Main) \/ CreateTableOpen(Main)
    BY Zenon, <2>2, <2>3 DEF CreateTableFile, CreateTableMeta, CreateTableOpen, Goto, Return, Throw, Stop
  <2>4. CASE CreateIndexMeta(Main) \/ CreateIndexFile(Main) \/ CreateIndexOpen(Main)
    BY Zenon, <2>2, <2>4 DEF CreateIndexMeta, CreateIndexFile, CreateIndexOpen, Goto, Return, Throw, Stop
  <2>5. CASE DropIndexCheck(Main) \/ DropIndexMeta(Main) \/ DropIndexFile(Main) \/ DropIndexErase(Main)
    BY Zenon, <2>2, <2>5 DEF DropIndexCheck, DropIndexMeta, DropIndexFile, DropIndexErase, Goto, Return, Throw,
       Segfault, Stop
  <2>6. CASE DropTableCheck(Main) \/ DropTableMeta(Main) \/ DropTableFile(Main) \/ DropTableErase(Main)
    BY Zenon, <2>2, <2>6 DEF DropTableCheck, DropTableMeta, DropTableFile, DropTableErase, Goto, Return, Throw,
       Segfault, Stop
  <2> QED
    BY Zenon, <2>1, <2>3, <2>4, <2>5, <2>6 DEF CatalogStep, Execute
<1>2. CASE phase' \in {"down", "dead"}
  <2>1. Lose /\ UNCHANGED <<disk_log, next_txn, acked>>
    BY Zenon, <1>2 DEF CatalogStep
  <2> QED
    BY Zenon, <1>2, <2>1, LostKeeps DEF Stopped
<1>3. CASE phase' \notin {"down", "dead"}
  <2>1. phase' = "analyze" /\ UNCHANGED <<logs, tid, write_set, pos, next_txn, acked>>
    BY Zenon, <1>1, <1>3 DEF CatalogStep, session, restart
  <2>2. \A c \in Clients : pc'[c] = "idle"
    BY Zenon, <2>1 DEF CatalogInv, Asleep
  <2>3. NextIsNew' /\ RestartSpares'
    BY Zenon, <2>1 DEF NextIsNew, RestartSpares, Recovering
  <2>4. phase # "up" /\ buffer' = <<>> /\ disk_log' = disk_log
    BY Zenon, <1>1, <2>1 DEF LogInv, NothingYet, Stopped, logs
  <2>5. next_txn' \in Nat /\ pos' \in Nat
    BY Zenon, <2>1 DEF LogInv, LogTypes
  <2>6. IsSequence(buffer') /\ Records' /\ BeginsFirst' /\ DurableCommit'
    BY Zenon, <2>1, LogStays
  <2> QED
    BY Zenon, <2>1, <2>2, <2>3, <2>4, <2>5, <2>6, MainKeepsLog
<1> QED
  BY Zenon, <1>2, <1>3

\* The end of analyze: the ids go on from the last one of the log, and the
\* commits that were answered lie ahead of redo.
LEMMA AnalyzeLogKeepsLog ==
  ASSUME CatalogInv, CatalogInv', LogInv, AnalyzeLog
  PROVE  LogInv'
<1>1. /\ phase = "analyze" /\ phase' = "redo" /\ pos' = 1 /\ next_txn' = NextId
      /\ UNCHANGED <<logs, tid, write_set, acked>>
  BY Zenon DEF AnalyzeLog, Analyzed, At, session, history
<1>2. /\ IsSequence(disk_log) /\ Records /\ buffer = <<>> /\ tid \in [Clients -> 0 .. MaxTxns] /\ DurableCommit
      /\ \A c \in Clients : tid[c] = 0
  BY Zenon, <1>1 DEF LogInv, LogTypes, Records, NothingYet
<1>3. NextId \in Nat /\ 0 < NextId /\ Older(NextId)
  BY Zenon, <1>2, NextIdIsNew
<1>4. TheLog' = TheLog /\ IsSequence(buffer') /\ Records' /\ BeginsFirst' /\ DurableCommit'
  BY Zenon, <1>1, LogStays
<1>5. \A c \in Clients : pc'[c] = "idle"
  BY Zenon, <1>1 DEF CatalogInv, Asleep
<1>6. NextIsNew'
  BY Zenon, <1>1, <1>2, <1>3, <1>4 DEF NextIsNew, Older
<1>7. RestartSpares'
  <2>1. DOMAIN disk_log = 1 .. Len(disk_log) /\ Len(disk_log) \in Nat
    BY Zenon, <1>2, SequenceDomain
  <2>2. \A i \in 1 .. Len(disk_log) : 1 <= i
    BY <2>1
  <2> QED
    BY Zenon, <1>1, <1>2, <2>1, <2>2 DEF RestartSpares, DurableCommit, logs, CommitLogRecord
<1>8. phase # "up" /\ disk_log' = disk_log /\ buffer' = <<>> /\ pos' \in Nat
  BY <1>1, <1>2 DEF logs
<1> QED
  BY Zenon, <1>1, <1>3, <1>4, <1>5, <1>6, <1>7, <1>8, MainKeepsLog

\* The main thread changes its place and its list, and no more.
LEMMA MainMovesKeepsLog ==
  ASSUME LogInv, CatalogInv, phase \in Recovering, phase' \in Recovering \cup {"up"}, NEW p \in Nat,
         MainMoves(phase', p), buffer' = buffer, RestartSpares',
         phase' = "redo" => phase = "redo"
  PROVE  LogInv'
<1>1. UNCHANGED <<disk_log, logs, tid, write_set, acked, next_txn, pc>> /\ pos' = p
  BY Zenon DEF MainMoves, logs, session, history
<1>2. TheLog' = TheLog /\ IsSequence(buffer') /\ Records' /\ BeginsFirst' /\ DurableCommit'
  BY Zenon, <1>1, LogStays
<1>3. phase # "up" /\ phase' \notin Stopped \cup {"analyze"}
  BY DEF Recovering, Stopped
<1>4. \A c \in Clients : pc'[c] = "idle"
  BY Zenon, <1>1, <1>3 DEF CatalogInv, Asleep
<1>5. NextIsNew'
  BY Zenon, <1>1, <1>2 DEF LogInv, NextIsNew
<1>6. phase' \in Stopped \cup {"analyze", "redo"} => buffer' = <<>>
  BY Zenon, <1>3 DEF LogInv, NothingYet
<1>7. next_txn' \in Nat /\ pos' \in Nat
  BY Zenon, <1>1 DEF LogInv, LogTypes
<1> QED
  BY Zenon, <1>1, <1>2, <1>3, <1>4, <1>5, <1>6, <1>7, MainKeepsLog

\* What a record does to the list of redo.
LEMMA UndoListIs ==
  ASSUME NEW rec
  PROVE  /\ UndoList(rec) \subseteq undo_list \cup {rec.tid}
         /\ rec.type # "BEGIN" => UndoList(rec) \subseteq undo_list
         /\ rec.type = "COMMIT" => rec.tid \notin UndoList(rec)
<1>1. CASE rec.type = "BEGIN"
  <2>1. UndoList(rec) = undo_list \cup {rec.tid}
    BY Zenon, <1>1 DEF UndoList
  <2> QED
    BY <1>1, <2>1
<1>2. CASE rec.type \in {"COMMIT", "ABORT"}
  <2>1. UndoList(rec) = undo_list \ {rec.tid}
    BY Zenon, <1>2 DEF UndoList
  <2> QED
    BY <1>2, <2>1
<1>3. CASE rec.type \notin {"BEGIN", "COMMIT", "ABORT"}
  <2>1. UndoList(rec) = undo_list
    BY Zenon, <1>3 DEF UndoList
  <2> QED
    BY <1>3, <2>1
<1> QED
  BY Zenon, <1>1, <1>2, <1>3

\* Redo passes a record: an answered transaction that it puts on the list has
\* its commit further on, and a commit takes it off.
LEMMA RedoKeepsLog ==
  ASSUME CatalogInv, CatalogInv', LogInv, Redo
  PROVE  LogInv'
<1> DEFINE rec == disk_log[pos]
<1>1. CASE MainStops("dead") \/ MainStops("hung")
  BY Zenon, <1>1, EndKeepsLog
<1>2. CASE ~(MainStops("dead") \/ MainStops("hung"))
  <2>1. /\ phase = "redo" /\ pos <= Len(disk_log) /\ MainMoves("redo", pos + 1) /\ buffer' = buffer
        /\ undo_list' = UndoList(rec)
    BY Zenon, <1>2 DEF Redo
  <2>2. /\ IsSequence(disk_log) /\ IsSequence(buffer) /\ pos \in Nat /\ RestartSpares /\ BeginsFirst
        /\ DurableCommit
    BY Zenon DEF LogInv, LogTypes
  <2>3. phase' = "redo" /\ pos' = pos + 1 /\ disk_log' = disk_log /\ acked' = acked
    BY Zenon, <2>1 DEF MainMoves, history
  <2>4. /\ Len(disk_log) \in Nat /\ Len(buffer) \in Nat /\ Len(TheLog) = Len(disk_log) + Len(buffer)
        /\ \A i \in 1 .. Len(disk_log) : TheLog[i] = disk_log[i]
    BY Zenon, <2>2, TheLogIs
  <2>5. DOMAIN disk_log = 1 .. Len(disk_log)
    BY Zenon, <2>2, SequenceDomain
  <2>6. \A n : CommitLogRecord(n).type = "COMMIT" /\ CommitLogRecord(n).tid = n
    BY DEF CommitLogRecord
  <2>7. ASSUME NEW n \in acked, n \in UndoList(rec)
        PROVE  \E i \in 1 .. Len(disk_log) : pos + 1 <= i /\ disk_log[i] = CommitLogRecord(n)
    <3>1. CASE n \in undo_list
      <4>1. PICK i \in 1 .. Len(disk_log) : pos <= i /\ disk_log[i] = CommitLogRecord(n)
        BY Zenon, <2>1, <2>2, <3>1 DEF RestartSpares
      <4>2. i # pos
        BY Zenon, <2>6, <2>7, <4>1, UndoListIs
      <4>3. pos + 1 <= i
        BY <2>2, <4>1, <4>2
      <4> QED
        BY Zenon, <4>1, <4>3
    <3>2. CASE n \notin undo_list
      <4>1. rec.type = "BEGIN" /\ rec.tid = n
        BY Zenon, <2>7, <3>2, UndoListIs
      <4>2. PICK i \in 1 .. Len(disk_log) : disk_log[i] = CommitLogRecord(n)
        BY Zenon, <2>2, <2>5 DEF DurableCommit
      <4>3. CASE pos = 0
        BY <2>4, <4>2, <4>3
      <4>4. CASE pos # 0
        <5>1. pos \in 1 .. Len(disk_log) /\ pos \in 1 .. Len(TheLog) /\ i \in 1 .. Len(TheLog)
          BY <2>1, <2>2, <2>4, <4>2, <4>4
        <5>2. ~(i < pos)
          <6>1. /\ TheLog[i].type = "COMMIT" /\ TheLog[i].tid = n
                /\ TheLog[pos].type = "BEGIN" /\ TheLog[pos].tid = n
            BY Zenon, <2>4, <2>6, <4>1, <4>2, <5>1
          <6> QED
            BY Zenon, <2>2, <5>1, <6>1 DEF BeginsFirst
        <5>3. i # pos
          <6>1. "BEGIN" # "COMMIT"
            OBVIOUS
          <6> QED
            BY Zenon, <2>6, <4>1, <4>2, <6>1
        <5>4. pos + 1 <= i
          BY <2>2, <4>2, <5>2, <5>3
        <5> QED
          BY Zenon, <4>2, <5>4
      <4> QED
        BY Zenon, <4>3, <4>4
    <3> QED
      BY Zenon, <3>1, <3>2
  <2>8. RestartSpares'
    BY Zenon, <2>1, <2>3, <2>7 DEF RestartSpares, CommitLogRecord
  <2>9. pos + 1 \in Nat /\ phase \in Recovering /\ phase' \in Recovering \cup {"up"}
    BY <2>1, <2>2, <2>3 DEF Recovering
  <2> QED
    BY Zenon, <2>1, <2>3, <2>8, <2>9, MainMovesKeepsLog
<1> QED
  BY Zenon, <1>1, <1>2

\* At the end of redo no answered transaction is on the list; the last steps of
\* the start leave it alone.
LEMMA PassedKeepsLog ==
  ASSUME CatalogInv, LogInv, RedoDone \/ UndoDone \/ start_server
  PROVE  LogInv'
<1>1. IsSequence(disk_log) /\ pos \in Nat /\ RestartSpares
  BY Zenon DEF LogInv, LogTypes
<1>2. Len(disk_log) \in Nat
  BY Zenon, <1>1, SequenceDomain
<1>3. "redo" \in Recovering /\ "undo" \in Recovering /\ "recovered" \in Recovering
  BY DEF Recovering
<1>4. CASE RedoDone
  <2>1. phase = "redo" /\ pos > Len(disk_log) /\ MainMoves("undo", Len(disk_log)) /\ UNCHANGED <<buffer, undo_list>>
    BY Zenon, <1>4 DEF RedoDone
  <2>2. \A i \in 1 .. Len(disk_log) : ~(pos <= i)
    BY <1>1, <1>2, <2>1
  <2>3. acked \cap undo_list = {}
    BY Zenon, <1>1, <2>1, <2>2 DEF RestartSpares
  <2>4. phase' = "undo" /\ UNCHANGED <<disk_log, acked, undo_list>> /\ pos' = Len(disk_log)
    BY Zenon, <2>1 DEF MainMoves, history
  <2>5. Len(disk_log) <= Len(disk_log) /\ "undo" # "redo"
    BY <1>2
  <2>6. RestartSpares'
    BY Zenon, <2>3, <2>4, <2>5 DEF RestartSpares
  <2> QED
    BY Zenon, <1>2, <1>3, <2>1, <2>4, <2>5, <2>6, MainMovesKeepsLog
<1>5. CASE UndoDone
  <2>1. phase = "undo" /\ MainMoves("recovered", 0) /\ UNCHANGED <<buffer, undo_list>>
    BY Zenon, <1>5 DEF UndoDone
  <2>2. phase' = "recovered" /\ UNCHANGED <<disk_log, acked, undo_list>> /\ pos' = 0
    BY Zenon, <2>1 DEF MainMoves, history
  <2>3. 0 <= Len(disk_log) /\ "recovered" # "redo" /\ 0 \in Nat
    BY <1>2
  <2>4. RestartSpares'
    BY Zenon, <1>1, <2>1, <2>2, <2>3 DEF RestartSpares
  <2> QED
    BY Zenon, <1>3, <2>1, <2>2, <2>3, <2>4, MainMovesKeepsLog
<1>6. CASE start_server
  <2>1. phase = "recovered" /\ MainMoves("up", 0) /\ UNCHANGED <<buffer, undo_list>>
    BY Zenon, <1>6 DEF start_server
  <2>2. phase' = "up"
    BY Zenon, <2>1 DEF MainMoves
  <2>3. "up" \notin {"redo", "undo", "recovered"} /\ 0 \in Nat
    OBVIOUS
  <2>4. RestartSpares'
    BY Zenon, <2>2, <2>3 DEF RestartSpares
  <2> QED
    BY Zenon, <1>3, <2>1, <2>2, <2>3, <2>4, MainMovesKeepsLog
<1> QED
  BY Zenon, <1>4, <1>5, <1>6

\* Undo logs the compensation of a write, for a transaction that nobody was
\* told has committed, and crosses a transaction off at its begin.
LEMMA UndoKeepsLog ==
  ASSUME CatalogInv, CatalogInv', LogInv, Undo
  PROVE  LogInv'
<1> DEFINE at == CHOOSE i \in UndoFrom : \A j \in UndoFrom : j <= i
           rec == disk_log[at]
<1>1. CASE MainStops("hung")
  BY Zenon, <1>1, EndKeepsLog
<1>2. CASE ~MainStops("hung")
  <2>1. /\ phase = "undo" /\ UndoFrom # {} /\ MainMoves("undo", at - 1)
        /\ (IsWrite(rec) /\ buffer' = Append(buffer, CLR(rec))) \/ buffer' = buffer
        /\ undo_list' \subseteq undo_list
    BY Zenon, <1>2 DEF Undo
  <2>2. /\ IsSequence(disk_log) /\ IsSequence(buffer) /\ pos \in Nat /\ next_txn \in Nat /\ Records
        /\ RestartSpares /\ BeginsFirst /\ DurableCommit /\ NextIsNew
    BY Zenon DEF LogInv, LogTypes, Records
  <2>3. acked \cap undo_list = {} /\ pos <= Len(disk_log)
    BY Zenon, <2>1, <2>2 DEF RestartSpares
  <2>4. /\ Len(disk_log) \in Nat /\ Len(buffer) \in Nat /\ Len(TheLog) = Len(disk_log) + Len(buffer)
        /\ \A i \in 1 .. Len(disk_log) : TheLog[i] = disk_log[i]
    BY Zenon, <2>2, TheLogIs
  <2>5. at \in UndoFrom
    <3>1. UndoFrom \in SUBSET (0 .. pos)
      BY <2>2 DEF UndoFrom
    <3>2. \E n \in UndoFrom : \A m \in UndoFrom : m <= n
      BY Zenon, <2>1, <2>2, <3>1, MaxExists
    <3> QED
      BY Zenon, <3>2
  <2>6. at \in 1 .. pos /\ rec.tid \in undo_list
    BY Zenon, <2>5 DEF UndoFrom
  <2> HIDE DEF at
  <2>7. at \in 1 .. Len(disk_log) /\ at \in 1 .. Len(TheLog) /\ at - 1 \in Nat /\ at - 1 <= Len(disk_log)
    BY <2>2, <2>3, <2>4, <2>6
  <2>8. IsRecord(rec) /\ rec.tid < next_txn /\ rec.tid \notin acked
    <3>1. "undo" \in Recovering
      BY DEF Recovering
    <3>2. TheLog[at] = rec
      BY Zenon, <2>4, <2>7
    <3> QED
      BY Zenon, <2>1, <2>2, <2>3, <2>6, <2>7, <3>1, <3>2 DEF Records, NextIsNew, IsRecord
  <2>9. /\ phase' = "undo" /\ pos' = at - 1
        /\ UNCHANGED <<disk_log, acked, tid, write_set, next_txn, pc>>
    BY Zenon, <2>1 DEF MainMoves, history, session
  <2>10. RestartSpares'
    <3>1. "undo" # "redo"
      OBVIOUS
    <3> QED
      BY Zenon, <2>1, <2>3, <2>7, <2>9, <3>1 DEF RestartSpares
  <2>11. CASE buffer' = buffer
    <3>1. "undo" \in Recovering /\ "undo" # "redo"
      BY DEF Recovering
    <3> QED
      BY Zenon, <2>1, <2>7, <2>9, <2>10, <2>11, <3>1, MainMovesKeepsLog
  <2>12. CASE IsWrite(rec) /\ buffer' = Append(buffer, CLR(rec))
    <3> DEFINE clr == CLR(rec)
    <3>1. {"type", "tid"} \subseteq DOMAIN clr /\ clr.tid = rec.tid /\ clr.type # "BEGIN"
      BY Zenon, <2>8, <2>12, CLRIs DEF IsRecord
    <3>2. buffer' = Append(buffer, clr)
      BY Zenon, <2>12
    <3> HIDE DEF clr
    <3>3. IsRecord(clr) /\ clr.tid < next_txn /\ clr.tid \notin acked
      BY Zenon, <2>8, <3>1 DEF IsRecord
    <3>4. IsSequence(buffer')
      BY Zenon, <2>2, <3>2, AppendIs DEF Extended
    <3>5. Records' /\ BeginsFirst' /\ (Older(next_txn) /\ clr.tid < next_txn => OlderAfter(next_txn))
      BY Zenon, <2>2, <2>9, <3>1, <3>2, <3>3, GrownKeeps
    <3>6. DurableCommit'
      BY Zenon, <2>2, <2>9, <3>2, <3>3, GrownIsDurable
    <3>7. Older(next_txn) /\ \A c \in Clients : tid[c] < next_txn
      <4>1. "undo" \in Recovering
        BY DEF Recovering
      <4> QED
        BY Zenon, <2>1, <2>2, <4>1 DEF NextIsNew, Older
    <3>8. NextIsNew'
      BY Zenon, <2>9, <3>3, <3>5, <3>7 DEF NextIsNew, OlderAfter
    <3>9. phase # "up" /\ phase' \notin Stopped \cup {"analyze", "redo"}
      BY <2>1, <2>9 DEF Stopped
    <3>10. \A c \in Clients : pc'[c] = "idle"
      BY Zenon, <2>9, <3>9 DEF CatalogInv, Asleep
    <3>11. next_txn' \in Nat /\ pos' \in Nat
      BY Zenon, <2>2, <2>7, <2>9
    <3> QED
      BY Zenon, <2>9, <2>10, <3>4, <3>5, <3>6, <3>8, <3>9, <3>10, <3>11, MainKeepsLog
  <2> QED
    BY Zenon, <2>1, <2>11, <2>12
<1> QED
  BY Zenon, <1>1, <1>2

-----------------------------------------------------------------------------
(* The invariant of the log, and durability *)

\* Every step keeps it.
LEMMA StepLog ==
  ASSUME CatalogInv, CatalogInv', LogInv, [Next]_vars
  PROVE  LogInv'
<1>1. CASE UNCHANGED vars
  <2>1. UNCHANGED <<phase, pc, disk_log, buffer, tid, write_set, undo_list, pos, next_txn, acked>>
    BY Zenon, <1>1 DEF vars, catalogVars, control, logs, session, restart, history
  <2>2. TheLog' = TheLog
    BY Zenon, <2>1 DEF TheLog
  <2>3. \A c \in Clients : Session(c)'
    <3>1. \A c \in Clients : \A i \in 1 .. Len(write_set[c]) : Wrote(c, write_set[c][i])'
      BY Zenon, <2>1 DEF LogInv, Sessions, Session, Wrote, IsWrite
    <3> QED
      BY Zenon, <2>1, <2>2, <3>1 DEF LogInv, Sessions, Session, CommitLogRecord
  <2>4. LogTypes' /\ BeginsFirst' /\ NextIsNew'
    BY Zenon, <2>1, <2>2 DEF LogInv, LogTypes, IsRecord, BeginsFirst, NextIsNew
  <2>5. RestartSpares' /\ NothingYet' /\ TidsApart' /\ DurableCommit'
    BY Zenon, <2>1 DEF LogInv, RestartSpares, NothingYet, TidsApart, DurableCommit, CommitLogRecord
  <2> QED
    BY Zenon, <2>3, <2>4, <2>5 DEF LogInv, Sessions
<1>2. CASE Restart
  <2>1. \/ CatalogStep(open_db) \/ CatalogStep(AnalyzeDrop) \/ CatalogStep(AnalyzeCreate)
        \/ CatalogStep(Execute(Main)) \/ AnalyzeLog \/ Redo \/ RedoDone \/ Undo \/ UndoDone \/ start_server
    BY Zenon, <1>2 DEF Restart
  <2> QED
    BY Zenon, <2>1, AnalyzeKeepsLog, AnalyzeLogKeepsLog, RedoKeepsLog, PassedKeepsLog, UndoKeepsLog
<1>3. CASE Crash \/ Shutdown
  BY Zenon, <1>3, EndKeepsLog
<1>4. ASSUME NEW c \in Clients, TxnBegin(c) \/ Rows(c) \/ End(c) \/ Fails(c) PROVE LogInv'
  BY Zenon, <1>4, TransactionKeeps
<1>5. ASSUME NEW c \in Clients, Ddl(c) PROVE LogInv'
  BY Zenon, <1>5, DdlKeeps
<1> QED
  BY Zenon, <1>1, <1>2, <1>3, <1>4, <1>5 DEF Next

\* A sequence given by its elements.
LEMMA GivenIs ==
  ASSUME NEW n \in Nat, NEW S, NEW s \in [1 .. n -> S]
  PROVE  IsSequence(s) /\ Len(s) = n
<1>1. s \in Seq(S) /\ Len(s) = n
  OBVIOUS
<1> QED
  BY Zenon, <1>1, OwnElements
\* A sequence of one element.
LEMMA SingleIs ==
  ASSUME NEW e
  PROVE  IsSequence(<<e>>) /\ Len(<<e>>) = 1 /\ <<e>>[1] = e
<1>1. <<e>> \in Seq({e}) /\ Len(<<e>>) = 1 /\ <<e>>[1] = e
  OBVIOUS
<1> QED
  BY Zenon, <1>1, OwnElements

\* The log of a server whose first transaction has filled the tables.
LEMMA InitLog ==
  ASSUME Init
  PROVE  LogInv
<1> DEFINE n == Cardinality(Tables) * Len(Loaded)
           B == <<BeginLogRecord(1)>>
           C == <<CommitLogRecord(1)>>
<1>1. n \in Nat
  <2>1. Len(Loaded) \in Nat
    BY LoadedRows
  <2> QED
    BY <2>1, TablesAreFinite
<1>2. /\ buffer = <<>> /\ tid = [c \in Clients |-> 0] /\ write_set = [c \in Clients |-> <<>>]
      /\ undo_list = {} /\ pos = 0 /\ next_txn = 2 /\ acked = {1} /\ CatalogInit
  BY Zenon DEF Init
<1>3. PICK tab : disk_log =
          B \o [i \in 1 .. n |-> InsertLogRecord(1, tab[1 + (i - 1) \div Len(Loaded)],
                                                 RowRid((i - 1) % Len(Loaded)),
                                                 Loaded[1 + ((i - 1) % Len(Loaded))])] \o C
  BY Zenon DEF Init
<1> DEFINE ins(i) == InsertLogRecord(1, tab[1 + (i - 1) \div Len(Loaded)],
                                     RowRid((i - 1) % Len(Loaded)), Loaded[1 + ((i - 1) % Len(Loaded))])
           inserts == [i \in 1 .. n |-> ins(i)]
           log == B \o inserts
<1>4. disk_log = log \o C
  BY Zenon, <1>3
<1>5. \A i : ins(i).type = "INSERT" /\ ins(i).tid = 1 /\ {"type", "tid"} \subseteq DOMAIN ins(i)
  BY DEF InsertLogRecord
<1> HIDE DEF ins, n
<1>6. IsSequence(inserts) /\ Len(inserts) = n
  <2> DEFINE S == {ins(i) : i \in 1 .. n}
  <2>1. inserts \in [1 .. n -> S]
    BY Zenon
  <2> HIDE DEF inserts, S
  <2> QED
    BY Zenon, <1>1, <2>1, GivenIs
<1>7. \A i \in 1 .. n : inserts[i].type = "INSERT" /\ inserts[i].tid = 1 /\ {"type", "tid"} \subseteq DOMAIN inserts[i]
  BY Zenon, <1>5
<1> HIDE DEF inserts
<1>8. /\ IsSequence(B) /\ Len(B) = 1 /\ B[1] = BeginLogRecord(1)
      /\ IsSequence(C) /\ Len(C) = 1 /\ C[1] = CommitLogRecord(1)
  BY Zenon, SingleIs
<1> HIDE DEF B, C
<1>9. Joined(log, B, inserts)
  BY Zenon, <1>6, <1>8, ConcatIs
<1> HIDE DEF log
<1>10. Joined(disk_log, log, C)
  <2>1. IsSequence(log)
    BY Zenon, <1>9 DEF Joined
  <2> QED
    BY Zenon, <1>4, <1>8, <2>1, ConcatIs
<1>11. IsSequence(disk_log) /\ Len(disk_log) = n + 2 /\ disk_log[n + 2] = CommitLogRecord(1)
  <2>1. Len(log) = n + 1 /\ Len(disk_log) = Len(log) + 1
    BY <1>1, <1>6, <1>8, <1>9, <1>10 DEF Joined
  <2>2. disk_log[Len(log) + 1] = C[1]
    BY <1>8, <1>10 DEF Joined
  <2>3. Len(log) + 1 = n + 2
    BY <1>1, <2>1
  <2>4. IsSequence(disk_log)
    BY Zenon, <1>10 DEF Joined
  <2> QED
    BY Zenon, <1>8, <2>1, <2>2, <2>3, <2>4
<1>12. ASSUME NEW i \in 1 .. n + 2
       PROVE  /\ {"type", "tid"} \subseteq DOMAIN disk_log[i] /\ disk_log[i].tid = 1
              /\ disk_log[i].type = "COMMIT" => i = n + 2
  <2>0. /\ {"type", "tid"} \subseteq DOMAIN BeginLogRecord(1) /\ BeginLogRecord(1).tid = 1
        /\ {"type", "tid"} \subseteq DOMAIN CommitLogRecord(1) /\ CommitLogRecord(1).tid = 1
        /\ BeginLogRecord(1).type = "BEGIN" /\ "BEGIN" # "COMMIT" /\ "INSERT" # "COMMIT"
    BY DEF BeginLogRecord, CommitLogRecord
  <2>1. CASE i = 1
    <3>1. 1 \in 1 .. Len(B) /\ 1 \in 1 .. Len(log)
      BY <1>1, <1>6, <1>8, <1>9 DEF Joined
    <3>2. disk_log[i] = BeginLogRecord(1)
      BY Zenon, <1>8, <1>9, <1>10, <2>1, <3>1 DEF Joined
    <3> QED
      BY Zenon, <2>0, <3>2
  <2>2. CASE i = n + 2
    BY Zenon, <1>11, <2>0, <2>2
  <2>3. CASE i # 1 /\ i # n + 2
    <3> DEFINE k == i - 1
    <3>1. k \in 1 .. n /\ i = Len(B) + k /\ i \in 1 .. Len(log)
      BY <1>1, <1>6, <1>8, <1>9, <2>3 DEF Joined
    <3> HIDE DEF k
    <3>2. disk_log[i] = inserts[k]
      BY Zenon, <1>6, <1>9, <1>10, <3>1 DEF Joined
    <3> QED
      BY Zenon, <1>7, <2>0, <3>1, <3>2
  <2> QED
    BY Zenon, <2>1, <2>2, <2>3
<1>13. IsSequence(buffer) /\ Len(buffer) = 0
  BY Zenon, <1>2, EmptyIsSequence
<1>14. Len(TheLog) = n + 2 /\ \A i \in 1 .. n + 2 : TheLog[i] = disk_log[i]
  <2>1. Len(TheLog) = Len(disk_log) + Len(buffer) /\ \A i \in 1 .. Len(disk_log) : TheLog[i] = disk_log[i]
    BY Zenon, <1>11, <1>13, TheLogIs
  <2>2. n + 2 + 0 = n + 2
    BY <1>1
  <2> QED
    BY Zenon, <1>11, <1>13, <2>1, <2>2
<1>15. 1 \in 0 .. MaxTxns /\ 0 \in 0 .. MaxTxns /\ {1} \in SUBSET (1 .. MaxTxns) /\ 1 < 2 /\ 0 < 2 /\ 0 \in Nat /\ 2 \in Nat
  BY MaxTxnsAssumption
<1>16. LogTypes
  <2>1. tid \in [Clients -> 0 .. MaxTxns] /\ DOMAIN write_set = Clients
    BY Zenon, <1>2, <1>15
  <2> QED
    BY Zenon, <1>2, <1>11, <1>12, <1>13, <1>14, <1>15, <2>1 DEF LogTypes, IsRecord
<1>17. NextIsNew
  BY Zenon, <1>2, <1>12, <1>14, <1>15 DEF NextIsNew
<1>18. BeginsFirst
  <2>1. \A i, j \in 1 .. n + 2 : i < j => i # n + 2
    BY <1>1
  <2> QED
    BY Zenon, <1>12, <1>14, <2>1 DEF BeginsFirst
<1>19. phase = "up" /\ pc = [c \in Threads |-> "idle"] /\ Clients \subseteq Threads
  BY Zenon, <1>2 DEF CatalogInit, Threads
<1>20. RestartSpares /\ NothingYet
  <2>1. "up" \notin {"redo", "undo", "recovered"} /\ "up" \notin Stopped \cup {"analyze", "redo"}
    BY DEF Stopped
  <2> QED
    BY Zenon, <1>19, <2>1 DEF RestartSpares, NothingYet
<1>21. Sessions /\ TidsApart
  <2>1. \A c \in Clients : pc[c] = "idle" /\ tid[c] = 0 /\ write_set[c] = <<>>
    BY Zenon, <1>2, <1>19
  <2>2. /\ "idle" \notin TxnPoints /\ "idle" \notin {"undo_clr", "refused_clr"}
        /\ "idle" # "commit_flush" /\ 1 .. 0 = {} /\ 0 # 1
    BY DEF TxnPoints
  <2>3. ASSUME NEW c \in Clients PROVE Session(c)
    <3>1. tid[c] \notin acked
      BY <1>2, <2>1
    <3> QED
      BY Zenon, <2>1, <2>2, <3>1, EmptyIsSequence DEF Session
  <2> QED
    BY Zenon, <2>1, <2>3 DEF Sessions, TidsApart
<1>22. DurableCommit
  <2>1. n + 2 \in 1 .. n + 2 /\ 1 .. 0 = {}
    BY <1>1
  <2>2. DOMAIN disk_log = 1 .. n + 2 /\ DOMAIN buffer = {}
    BY Zenon, <1>11, <1>13, <2>1, SequenceDomain
  <2> QED
    BY Zenon, <1>2, <1>11, <2>1, <2>2 DEF DurableCommit
<1> QED
  BY Zenon, <1>16, <1>17, <1>18, <1>20, <1>21, <1>22 DEF LogInv

\* LogInv is invariant.
THEOREM LogInvariance == Spec => []LogInv
<1>1. Init => LogInv
  BY Zenon, InitLog
<1>2. CatalogInv /\ CatalogInv' /\ LogInv /\ [Next]_vars => LogInv'
  BY Zenon, StepLog
<1> QED
  BY <1>1, <1>2, CatalogInvariance, PTL DEF Spec

\* A commit that was answered is in the log file, and nothing of the
\* transaction is left to be written, now or under its id after a restart.
THEOREM CommitsAreDurable == Spec => []DurableCommit
<1>1. LogInv => DurableCommit
  BY Zenon DEF LogInv
<1> QED
  BY <1>1, LogInvariance, PTL

\* An id that begin gives out, before or after a restart, is larger than every
\* id in the log or in use: set_txn_id_num counts on from the log.
THEOREM IdsAreNew == Spec => []NextIsNew
<1>1. LogInv => NextIsNew
  BY Zenon DEF LogInv
<1> QED
  BY <1>1, LogInvariance, PTL

\* No transaction whose commit was answered is on the list that redo leaves to
\* undo.
THEOREM UndoSparesAnswered == Spec => [](phase \in {"undo", "recovered"} => acked \cap undo_list = {})
<1>1. LogInv => (phase \in {"undo", "recovered"} => acked \cap undo_list = {})
  BY Zenon DEF LogInv, RestartSpares
<1> QED
  BY <1>1, LogInvariance, PTL

=============================================================================
