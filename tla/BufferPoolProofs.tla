-------------------------- MODULE BufferPoolProofs --------------------------
(***************************************************************************)
(* The theorems about the buffer pool, for any number of threads, frames,  *)
(* pages and writes.  BufferPoolSteps states the invariant PoolInv of the  *)
(* pool's bookkeeping, and BufferPoolSteps and BufferPoolFrames show that  *)
(* every step keeps it; BufferPoolSteps does the same for DataInv, what    *)
(* the pages contain.  Here the steps are put together, and the properties *)
(* follow.                                                                 *)
(*                                                                         *)
(* The bookkeeping needs ClosesAlone: a file is closed only when a single  *)
(* thread uses the pool.  What the pages contain needs Solo, a single      *)
(* thread: with two, a fetch reads a page from disk before the eviction    *)
(* that is under way has written it (the run buffer_pool_stale).           *)
(***************************************************************************)
EXTENDS BufferPoolFrames, FiniteSetTheorems

\* Sets of threads are finite, and are counted as finite sets are.
LEMMA Counting == CountLaws
<1> SUFFICES ASSUME NEW S \in SUBSET Threads
             PROVE  /\ Cardinality(S) \in Nat /\ (Cardinality(S) = 0 <=> S = {})
                    /\ \A t \in Threads : t \notin S => Cardinality(S \cup {t}) = Cardinality(S) + 1
                    /\ \A t \in S : Cardinality(S \ {t}) = Cardinality(S) - 1
  BY Zenon DEF CountLaws
<1>1. IsFiniteSet(S)
  BY Zenon, PoolIsFinite, FS_Subset
<1>2. Cardinality(S) \in Nat
  BY Zenon, <1>1, FS_CardinalityType
<1>3. Cardinality(S) = 0 <=> S = {}
  BY Zenon, <1>1, FS_EmptySet
<1>4. ASSUME NEW t \in Threads, t \notin S
      PROVE  Cardinality(S \cup {t}) = Cardinality(S) + 1
  BY Zenon, <1>1, <1>4, FS_AddElement
<1>5. ASSUME NEW t \in S
      PROVE  Cardinality(S \ {t}) = Cardinality(S) - 1
  BY Zenon, <1>1, FS_RemoveElement
<1> QED
  BY Zenon, <1>2, <1>3, <1>4, <1>5

\* The free list of the constructor has every frame once.
LEMMA AllFree ==
  ASSUME NEW s \in Bijection(1 .. Cardinality(Frames), Frames)
  PROVE  s \in Seq(Frames) /\ IsInjective(s) /\ \A f \in Frames : f \in Range(s)
<1>1. Cardinality(Frames) \in Nat
  BY Zenon, PoolIsFinite, FS_CardinalityType
<1>2. /\ s \in [1 .. Cardinality(Frames) -> Frames] /\ IsInjective(s)
      /\ \A f \in Frames : \E i \in 1 .. Cardinality(Frames) : s[i] = f
  BY Zenon DEF Bijection, Injection, Surjection
<1>3. s \in Seq(Frames)
  BY <1>1, <1>2
<1>4. \A f \in Frames : f \in Range(s)
  BY Zenon, <1>2 DEF Range
<1> QED
  BY Zenon, <1>2, <1>3, <1>4

\* A pool that has just been made satisfies the invariant.
LEMMA InitPool ==
  ASSUME Init
  PROVE  PoolInv
<1>1. /\ frames = [f \in Frames |-> [id |-> NONE, data |-> 0, dirty |-> FALSE, pin |-> 0]]
      /\ page_latch = [f \in Frames |-> NONE] /\ page_table = [p \in Pages |-> NONE]
      /\ lru = <<>> /\ pc = [t \in Threads |-> "idle"] /\ arg = [t \in Threads |-> NoArg]
      /\ pins = [t \in Threads |-> [p \in Pages |-> NONE]] /\ wrote = [t \in Threads |-> {}]
  BY Zenon DEF Init
<1>2. /\ disk = [p \in Pages |-> IF p \in OnDisk THEN 0 ELSE NONE]
      /\ status = [p \in Pages |-> IF p \in OnDisk THEN "used" ELSE "new"]
      /\ content = [p \in Pages |-> IF p \in OnDisk THEN 0 ELSE NONE]
  BY Zenon DEF Init
<1>3. free_list \in Seq(Frames) /\ IsInjective(free_list) /\ \A f \in Frames : f \in Range(free_list)
  BY Zenon, AllFree DEF Init
<1>4. lru \in Seq(Frames) /\ IsInjective(lru) /\ \A f : f \notin Range(lru)
  BY <1>1 DEF IsInjective, Range
<1>5. 0 \in Content
  BY MaxWritesIsNat DEF Content
<1>6. TypeOK
  <2>1. frames \in [Frames -> [id : Pages \cup {NONE}, data : Content, dirty : BOOLEAN, pin : Nat]]
    BY <1>1, <1>5
  <2>2. /\ page_latch \in [Frames -> Threads \cup {NONE}] /\ page_table \in [Pages -> Frames \cup {NONE}]
        /\ pc \in [Threads -> Points] /\ wrote \in [Threads -> SUBSET Pages]
        /\ pins \in [Threads -> [Pages -> Frames \cup {NONE}]]
    BY <1>1 DEF Points
  <2>3. /\ disk \in [Pages -> Content \cup {NONE}] /\ content \in [Pages -> Content \cup {NONE}]
        /\ status \in [Pages -> {"new", "allocated", "used", "deleted"}]
    BY <1>2, <1>5
  <2>4. arg \in [Threads -> [page : Pages \cup Files \cup {NONE}, frame : Frames \cup {NONE},
                             todo : SUBSET Frames]]
    BY <1>1 DEF NoArg
  <2>5. \A f \in Frames : page_latch[f] = NONE
    BY Zenon, <1>1
  <2> QED
    BY Zenon, <1>3, <1>4, <2>1, <2>2, <2>3, <2>4, <2>5 DEF TypeOK, Points
<1>7. /\ \A f \in Frames : frames[f].id = NONE /\ frames[f].pin = 0 /\ page_latch[f] = NONE
      /\ \A p \in Pages : page_table[p] = NONE
      /\ \A t \in Threads : pc[t] = "idle"
      /\ \A t \in Threads, p \in Pages : pins[t][p] = NONE
  BY <1>1
<1>8. \A t \in Threads : Thread(t)
  BY Zenon, <1>7 DEF Thread, Fetches, Creates, Deletes, Closes
<1>9. ASSUME NEW f \in Frames
      PROVE  Frame(f)
  <2>1. f # NONE /\ (\A t \in Threads : t # NONE) /\ \A p \in Pages : p # NONE
    BY Zenon, NoneIsNew
  <2>2. Held(f) /\ Maps(f) /\ Shows(f)
    BY Zenon, <1>7, <2>1 DEF Held, Maps, Shows, Takes
  <2>3. Listed(f)
    BY Zenon, <1>3, <1>4, <1>7, <2>1 DEF Listed, Takes, Unmapped
  <2> QED
    BY Zenon, <2>2, <2>3 DEF Frame
<1>10. ASSUME NEW p \in Pages
       PROVE  Age(p)
  <2>1. (\A f \in Frames : frames[f].id # p) /\ 0 # NONE
    BY Zenon, <1>5, <1>7, NoneIsNew DEF Content
  <2>2. CASE p \in OnDisk
    <3>1. status[p] = "used" /\ disk[p] = 0 /\ content[p] = 0
      BY Zenon, <1>2, <2>2
    <3> QED
      BY <2>1, <3>1 DEF Age
  <2>3. CASE p \notin OnDisk
    <3>1. status[p] = "new" /\ disk[p] = NONE
      BY Zenon, <1>2, <2>3
    <3> QED
      BY <2>1, <3>1 DEF Age
  <2> QED
    BY Zenon, <2>2, <2>3
<1>11. NumbersOnce /\ ListsOnce
  BY Zenon, <1>3, <1>4, <1>7 DEF NumbersOnce, ListsOnce
<1> QED
  BY Zenon, <1>6, <1>8, <1>9, <1>10, <1>11 DEF PoolInv

\* Every step keeps the invariant.
LEMMA StepPool ==
  ASSUME ClosesAlone, PoolInv, [Next]_vars
  PROVE  PoolInv'
<1>1. Setting
  BY Zenon, Counting DEF Setting
<1>2. CASE UNCHANGED vars
  <2>1. /\ frames' = frames /\ page_latch' = page_latch /\ page_table' = page_table
        /\ free_list' = free_list /\ lru' = lru /\ disk' = disk /\ status' = status
        /\ pc' = pc /\ arg' = arg /\ pins' = pins /\ wrote' = wrote /\ content' = content
    BY Zenon, <1>2 DEF vars, pool, callers
  <2>2. TypeOK' /\ NumbersOnce' /\ ListsOnce'
    BY Zenon, <2>1 DEF PoolInv, TypeOK, NumbersOnce, ListsOnce
  <2>3. ASSUME NEW t \in Threads
        PROVE  Thread(t)'
    <3>1. Thread(t)
      BY Zenon DEF PoolInv
    <3> QED
      BY <2>1, <3>1 DEF Thread, Fetches, Creates, Deletes, Closes, Unmapped, Unpinned
  <2>4. ASSUME NEW f \in Frames
        PROVE  Frame(f)'
    <3>1. Held(f) /\ Maps(f) /\ Shows(f) /\ Listed(f)
      BY Zenon DEF PoolInv, Frame
    <3>2. Held(f)' /\ Listed(f)'
      BY Zenon, <2>1, <3>1 DEF Held, Listed, Engages, Takes, Unmapped
    <3>3. Maps(f)' /\ Shows(f)'
      <4>1. \A p \in Pages : Pinners(p)' = Pinners(p)
        BY Zenon, <2>1 DEF Pinners
      <4>2. Maps(f)'
        <5>1. \A t \in Threads, p \in Pages : Loads(t, p, f)' <=> Loads(t, p, f)
          BY Zenon, <2>1 DEF Loads
        <5>2. frames' = frames /\ page_table' = page_table /\ status' = status /\ pc' = pc /\ arg' = arg
          BY Zenon, <2>1
        <5>3. Maps(f)
          BY Zenon, <3>1
        <5> QED
          BY <4>1, <5>1, <5>2, <5>3 DEF Maps
      <4> QED
        BY Zenon, <2>1, <3>1, <4>2 DEF Shows, Turns
    <3> QED
      BY Zenon, <3>2, <3>3 DEF Frame
  <2>5. ASSUME NEW p \in Pages
        PROVE  Age(p)'
    <3>1. Age(p)
      BY Zenon DEF PoolInv
    <3> QED
      BY Zenon, <2>1, <3>1 DEF Age
  <2> QED
    BY Zenon, <2>2, <2>3, <2>4, <2>5 DEF PoolInv
<1>3. CASE Next
  <2>1. PICK t \in Threads :
          \/ \E p \in Pages : \/ FetchHit(t, p) \/ FetchMiss(t, p)
                              \/ Write(t, p) \/ unpin_page(t, p) \/ flush_page(t, p)
                              \/ DeletePage(t, p) \/ free_page(t, p)
          \/ FetchWrite(t) \/ FetchRead(t)
          \/ NewVictim(t) \/ NewReset(t) \/ NewTable(t)
          \/ DeleteWrite(t)
          \/ \E file \in Closable : CloseFile(t, file)
          \/ flush_all_pages(t) \/ free_all_pages(t)
    BY Zenon, <1>3 DEF Next
  <2>2. ASSUME NEW p \in Pages,
               \/ FetchHit(t, p) \/ FetchMiss(t, p)
               \/ Write(t, p) \/ unpin_page(t, p) \/ flush_page(t, p)
               \/ DeletePage(t, p) \/ free_page(t, p)
        PROVE  PoolInv'
    BY Zenon, <1>1, <2>2, FetchHitKeeps, FetchMissKeeps, WriteKeeps, UnpinKeeps, FlushPageKeeps,
       DeletePageKeeps, FreePageKeeps
  <2>3. CASE \/ FetchWrite(t) \/ FetchRead(t)
             \/ NewVictim(t) \/ NewReset(t) \/ NewTable(t)
             \/ DeleteWrite(t)
    BY Zenon, <1>1, <2>3, FetchWriteKeeps, FetchReadKeeps, NewVictimKeeps, NewResetKeeps, NewTableKeeps,
       DeleteWriteKeeps
  <2>4. CASE \E file \in Closable : CloseFile(t, file)
    BY Zenon, <1>1, <2>4, CloseFileKeeps
  <2>5. CASE flush_all_pages(t) \/ free_all_pages(t)
    BY Zenon, <1>1, <2>5, FlushAllKeeps, FreeAllKeeps
  <2> QED
    BY Zenon, <2>1, <2>2, <2>3, <2>4, <2>5
<1> QED
  BY Zenon, <1>2, <1>3

-----------------------------------------------------------------------------
(* The pool's bookkeeping *)

\* The invariant of the bookkeeping of BufferPoolManager holds in every
\* reachable state, when files are closed by a single thread or not at all.
THEOREM PoolInvariance ==
  ASSUME ClosesAlone
  PROVE  Spec => []PoolInv
<1>1. Init => PoolInv
  BY Zenon, InitPool
<1>2. PoolInv /\ [Next]_vars => PoolInv'
  BY Zenon, StepPool
<1> QED
  BY <1>1, <1>2, PTL DEF Spec

\* The state of the buffer pool keeps its shape, and a thread that is in no
\* call holds no frame's mutex.
THEOREM PoolTypeCorrect ==
  ASSUME ClosesAlone
  PROVE  Spec => []TypeOK
<1>1. PoolInv => TypeOK
  BY Zenon DEF PoolInv
<1> QED
  BY <1>1, PoolInvariance, PTL

\* free_list_ and LRUlist_ one after the other have no frame twice.
LEMMA ListsApart ==
  ASSUME PoolInv
  PROVE  IsInjective(free_list \o lru) /\ \A f : f \in Range(free_list \o lru) <=> f \in Range(free_list) \/ f \in Range(lru)
<1>1. /\ free_list \in Seq(Frames) /\ lru \in Seq(Frames) /\ IsInjective(free_list) /\ IsInjective(lru)
      /\ \A f \in Frames : ~(f \in Range(free_list) /\ f \in Range(lru))
  BY Zenon DEF PoolInv, TypeOK, ListsOnce, Frame, Listed
<1> DEFINE a == free_list
           b == lru
           c == a \o b
           m == Len(a)
           n == Len(b)
<1>2. /\ c \in Seq(Frames) /\ Len(c) = m + n /\ m \in Nat /\ n \in Nat
      /\ \A j \in 1 .. m + n : c[j] = IF j <= m THEN a[j] ELSE b[j - m]
  BY <1>1, Joined, Places
<1>3. /\ \A i, j \in 1 .. m : a[i] = a[j] => i = j
      /\ \A i, j \in 1 .. n : b[i] = b[j] => i = j
      /\ \A g : g \in Range(a) <=> \E i \in 1 .. m : a[i] = g
      /\ \A g : g \in Range(b) <=> \E i \in 1 .. n : b[i] = g
      /\ \A i \in 1 .. m : a[i] \in Frames
  BY Zenon, <1>1, Places
<1>4. /\ IsInjective(c) <=> \A i, j \in 1 .. Len(c) : c[i] = c[j] => i = j
      /\ \A g : g \in Range(c) <=> \E i \in 1 .. Len(c) : c[i] = g
  BY Zenon, <1>2, Places
<1>5. \A i \in 1 .. m, j \in 1 .. n : a[i] # b[j]
  BY Zenon, <1>1, <1>3
<1> HIDE DEF a, b, c, m, n
<1>6. \A i, j \in 1 .. m + n : c[i] = c[j] => i = j
  <2> SUFFICES ASSUME NEW i \in 1 .. m + n, NEW j \in 1 .. m + n, c[i] = c[j]
               PROVE  i = j
    BY Zenon
  <2>1. CASE i <= m /\ j <= m
    BY <1>2, <1>3, <2>1
  <2>2. CASE i > m /\ j > m
    <3>1. i - m \in 1 .. n /\ j - m \in 1 .. n /\ b[i - m] = b[j - m]
      BY <1>2, <2>2
    <3>2. i - m = j - m
      BY Zenon, <1>3, <3>1
    <3> QED
      BY <1>2, <3>2
  <2>3. CASE i <= m /\ j > m
    <3>1. i \in 1 .. m /\ j - m \in 1 .. n /\ a[i] = b[j - m]
      BY <1>2, <2>3
    <3> QED
      BY Zenon, <1>5, <3>1
  <2>4. CASE i > m /\ j <= m
    <3>1. j \in 1 .. m /\ i - m \in 1 .. n /\ a[j] = b[i - m]
      BY <1>2, <2>4
    <3> QED
      BY Zenon, <1>5, <3>1
  <2> QED
    BY <1>2, <2>1, <2>2, <2>3, <2>4
<1>7. ASSUME NEW g
      PROVE  (\E i \in 1 .. m + n : c[i] = g) <=> (\E i \in 1 .. m : a[i] = g) \/ (\E i \in 1 .. n : b[i] = g)
  <2>1. ASSUME NEW i \in 1 .. m + n, c[i] = g
        PROVE  (\E j \in 1 .. m : a[j] = g) \/ (\E j \in 1 .. n : b[j] = g)
    <3>1. CASE i <= m
      BY <1>2, <2>1, <3>1
    <3>2. CASE i > m
      <4>1. i - m \in 1 .. n /\ b[i - m] = g
        BY <1>2, <2>1, <3>2
      <4> QED
        BY Zenon, <4>1
    <3> QED
      BY <1>2, <3>1, <3>2
  <2>2. ASSUME NEW i \in 1 .. m, a[i] = g
        PROVE  \E j \in 1 .. m + n : c[j] = g
    <3>1. i \in 1 .. m + n /\ c[i] = g
      BY <1>2, <2>2
    <3> QED
      BY Zenon, <3>1
  <2>3. ASSUME NEW i \in 1 .. n, b[i] = g
        PROVE  \E j \in 1 .. m + n : c[j] = g
    <3>1. i + m \in 1 .. m + n /\ c[i + m] = g
      BY <1>2, <2>3
    <3> QED
      BY Zenon, <3>1
  <2> QED
    BY Zenon, <2>1, <2>2, <2>3
<1>8. IsInjective(c) /\ \A f : f \in Range(c) <=> f \in Range(a) \/ f \in Range(b)
  BY Zenon, <1>2, <1>3, <1>4, <1>6, <1>7
<1> QED
  BY Zenon, <1>8 DEF a, b, c

\* No frame is lost or used twice, whatever calls interleave: each is pinned
\* or in transit, or once on free_list_ or in LRUlist_, and page_table_ leads
\* from two pages to two frames.
THEOREM FramesStayAccounted ==
  ASSUME ClosesAlone
  PROVE  Spec => []FramesAccounted
<1>1. ASSUME PoolInv
      PROVE  FramesAccounted
  <2>1. ASSUME NEW f \in Frames
        PROVE  f \in Range(free_list \o lru) <=> ~(frames[f].pin > 0 \/ InTransit(f))
    <3>1. InTransit(f) <=> \E t \in Threads : Takes(t, f)
      BY Zenon DEF InTransit, Takes
    <3>2. frames[f].pin \in Nat
      BY <1>1 DEF PoolInv, TypeOK
    <3>3. ~(frames[f].pin > 0) <=> frames[f].pin = 0
      BY <3>2
    <3>4. Listed(f)
      BY Zenon, <1>1 DEF PoolInv, Frame
    <3> QED
      BY Zenon, <1>1, <3>1, <3>3, <3>4, ListsApart DEF Listed
  <2>2. \A f \in Frames : (f \in Range(free_list \o lru)) # (frames[f].pin > 0 \/ InTransit(f))
    BY <2>1
  <2>3. ASSUME NEW p \in Pages, NEW q \in Pages, page_table[p] = page_table[q], p # q
        PROVE  page_table[p] = NONE
    <3>1. page_table[p] \in Frames \cup {NONE}
      BY Zenon, <1>1 DEF PoolInv, TypeOK
    <3>2. \A f \in Frames : Maps(f)
      BY Zenon, <1>1 DEF PoolInv, Frame
    <3> QED
      BY Zenon, <2>3, <3>1, <3>2 DEF Maps
  <2>4. IsInjective(free_list \o lru)
    BY Zenon, <1>1, ListsApart
  <2> QED
    BY Zenon, <2>2, <2>3, <2>4 DEF FramesAccounted
<1> QED
  BY <1>1, PoolInvariance, PTL

\* While a thread has a Page*, the frame behind it keeps its page, page_table_
\* leads to it, and pin_count_ is the number of threads that have it.
THEOREM PinsHold ==
  ASSUME ClosesAlone
  PROVE  Spec => []PinnedStays
<1>1. ASSUME PoolInv
      PROVE  PinnedStays
  <2> SUFFICES ASSUME NEW t \in Threads, NEW p \in Pages, pins[t][p] # NONE
               PROVE  /\ frames[pins[t][p]].id = p /\ page_table[p] = pins[t][p]
                      /\ frames[pins[t][p]].pin = Cardinality({u \in Threads : pins[u][p] # NONE})
    BY Zenon DEF PinnedStays
  <2>0. TypeOK
    BY Zenon, <1>1 DEF PoolInv
  <2>1. PICK f \in Frames : pins[t][p] = f
    BY <2>0 DEF TypeOK
  <2>2. Shows(f) /\ Setting
    BY Zenon, <1>1, Counting DEF PoolInv, Frame, Setting
  <2>3. page_table[p] = f /\ ~Unpinned(p)
    BY Zenon, <2>1, <2>2 DEF Shows, Unpinned
  <2>4. frames[f].id = p /\ frames[f].pin = Cardinality(Pinners(p))
    BY Zenon, <1>1, <2>2, <2>3, FrameOfPage
  <2> QED
    BY Zenon, <2>1, <2>3, <2>4 DEF Pinners
<1> QED
  BY <1>1, PoolInvariance, PTL

-----------------------------------------------------------------------------
(* What pages contain, with a single thread *)

\* In a new pool every page in use is on disk.
LEMMA InitData ==
  ASSUME Init
  PROVE  DataInv
<1>1. /\ frames = [f \in Frames |-> [id |-> NONE, data |-> 0, dirty |-> FALSE, pin |-> 0]]
      /\ pc = [t \in Threads |-> "idle"] /\ wrote = [t \in Threads |-> {}]
  BY Zenon DEF Init
<1>2. /\ disk = [p \in Pages |-> IF p \in OnDisk THEN 0 ELSE NONE]
      /\ status = [p \in Pages |-> IF p \in OnDisk THEN "used" ELSE "new"]
      /\ content = [p \in Pages |-> IF p \in OnDisk THEN 0 ELSE NONE]
  BY Zenon DEF Init
<1>3. /\ \A f \in Frames : frames[f].id = NONE
      /\ \A t \in Threads : pc[t] = "idle" /\ wrote[t] = {}
  BY <1>1
<1>4. \A f \in Frames, p \in Pages : frames[f].id # p
  BY Zenon, <1>3, NoneIsNew
<1>5. ASSUME NEW p \in Pages
      PROVE  Current(p)
  <2>1. disk[p] = content[p] /\ (status[p] # "used" => content[p] = NONE)
    BY <1>2
  <2> QED
    BY Zenon, <1>4, <2>1 DEF Current
<1>6. OneCopy
  BY Zenon, <1>4 DEF OneCopy
<1>7. \A t \in Threads : Loading(t) /\ Written(t) /\ Flushed(t)
  BY Zenon, <1>3 DEF Loading, Written, Flushed
<1> QED
  BY Zenon, <1>5, <1>6, <1>7 DEF DataInv

\* Every step keeps what the pages contain.
LEMMA StepData ==
  ASSUME Solo, PoolInv, DataInv, [Next]_vars
  PROVE  DataInv'
<1>1. Setting
  BY Zenon, Counting DEF Setting, ClosesAlone, Solo
<1>2. CASE UNCHANGED vars
  <2>1. /\ frames' = frames /\ disk' = disk /\ status' = status /\ pc' = pc /\ arg' = arg
        /\ pins' = pins /\ wrote' = wrote /\ content' = content
    BY Zenon, <1>2 DEF vars, pool, callers
  <2>2. OneCopy' /\ \A p \in Pages : Current(p)'
    BY Zenon, <2>1, NothingShown
  <2>3. ASSUME NEW t \in Threads
        PROVE  Loading(t)' /\ Written(t)' /\ Flushed(t)'
    <3>1. Loading(t) /\ Written(t) /\ Flushed(t)
      BY Zenon DEF DataInv
    <3> QED
      BY Zenon, <2>1, <3>1 DEF Loading, Written, Flushed, Of
  <2> QED
    BY Zenon, <2>2, <2>3 DEF DataInv
<1>3. CASE Next
  <2>1. PICK t \in Threads :
          \/ \E p \in Pages : \/ FetchHit(t, p) \/ FetchMiss(t, p)
                              \/ Write(t, p) \/ unpin_page(t, p) \/ flush_page(t, p)
                              \/ DeletePage(t, p) \/ free_page(t, p)
          \/ FetchWrite(t) \/ FetchRead(t)
          \/ NewVictim(t) \/ NewReset(t) \/ NewTable(t)
          \/ DeleteWrite(t)
          \/ \E file \in Closable : CloseFile(t, file)
          \/ flush_all_pages(t) \/ free_all_pages(t)
    BY Zenon, <1>3 DEF Next
  <2>2. ASSUME NEW p \in Pages,
               \/ FetchHit(t, p) \/ FetchMiss(t, p)
               \/ Write(t, p) \/ unpin_page(t, p) \/ flush_page(t, p)
               \/ DeletePage(t, p) \/ free_page(t, p)
        PROVE  DataInv'
    BY Zenon, <1>1, <2>2, FetchHitData, FetchMissData, WriteData, UnpinData, FlushPageData,
       DeletePageData, FreePageData
  <2>3. CASE \/ FetchWrite(t) \/ FetchRead(t)
             \/ NewVictim(t) \/ NewReset(t) \/ NewTable(t)
             \/ DeleteWrite(t)
    BY Zenon, <1>1, <2>3, FetchWriteData, FetchReadData, NewVictimData, NewResetData, NewTableData,
       DeleteWriteData
  <2>4. CASE \E file \in Closable : CloseFile(t, file)
    BY Zenon, <1>1, <2>4, CloseFileData
  <2>5. CASE flush_all_pages(t) \/ free_all_pages(t)
    BY Zenon, <1>1, <2>5, FlushAllData, FreeAllData
  <2> QED
    BY Zenon, <2>1, <2>2, <2>3, <2>4, <2>5
<1> QED
  BY Zenon, <1>2, <1>3

\* With a single thread, frames and disk hold what was written.
THEOREM DataInvariance ==
  ASSUME Solo
  PROVE  Spec => [](PoolInv /\ DataInv)
<1>1. Init => PoolInv /\ DataInv
  BY Zenon, InitPool, InitData
<1>2. PoolInv /\ DataInv /\ [Next]_vars => PoolInv' /\ DataInv'
  <2>1. ClosesAlone
    BY Zenon DEF ClosesAlone, Solo
  <2> QED
    BY Zenon, <2>1, StepPool, StepData
<1> QED
  BY <1>1, <1>2, PTL DEF Spec

\* A pinned page shows what was last written to it, whatever was evicted,
\* written back and read again in between.
THEOREM PinnedIsCurrent ==
  ASSUME Solo
  PROVE  Spec => []FetchedIsCurrent
<1>1. ASSUME PoolInv, DataInv
      PROVE  FetchedIsCurrent
  <2> SUFFICES ASSUME NEW t \in Threads, NEW p \in Pages, pins[t][p] # NONE
               PROVE  frames[pins[t][p]].data = content[p]
    BY Zenon DEF FetchedIsCurrent
  <2>0. TypeOK
    BY Zenon, <1>1 DEF PoolInv
  <2>1. PICK f \in Frames : pins[t][p] = f
    BY <2>0 DEF TypeOK
  <2>2. Shows(f) /\ Maps(f) /\ Current(p)
    BY Zenon, <1>1 DEF PoolInv, Frame, DataInv
  <2>3. frames[f].id = p /\ status[p] = "used"
    BY Zenon, <2>1, <2>2 DEF Shows, Maps
  <2> QED
    BY Zenon, <2>1, <2>2, <2>3 DEF Current
<1> QED
  BY <1>1, DataInvariance, PTL

\* A page in use that is in no frame has its last content on disk: eviction,
\* delete_page, free_page and close_file lose nothing.
THEOREM EvictedIsOnDisk ==
  ASSUME Solo
  PROVE  Spec => []UncachedIsOnDisk
<1>1. ASSUME PoolInv, DataInv
      PROVE  UncachedIsOnDisk
  BY Zenon, <1>1 DEF DataInv, Current, UncachedIsOnDisk
<1> QED
  BY <1>1, DataInvariance, PTL

-----------------------------------------------------------------------------
(* The pool implements the page store *)

\* What the pool stores of a page is the page's content.
LEMMA StoresContent == PoolInv /\ DataInv => [p \in Pages |-> Stored(p)] = content
<1> SUFFICES ASSUME PoolInv, DataInv
             PROVE  [p \in Pages |-> Stored(p)] = content
  BY Zenon
<1>1. ASSUME NEW p \in Pages
      PROVE  Stored(p) = content[p]
  <2>1. Current(p) /\ OneCopy
    BY Zenon DEF DataInv
  <2>2. CASE status[p] # "used"
    BY Zenon, <2>1, <2>2 DEF Stored, Current
  <2>3. CASE status[p] = "used" /\ \E f \in Frames : frames[f].id = p
    <3>1. PICK f \in Frames : f = (CHOOSE g \in Frames : frames[g].id = p) /\ frames[f].id = p
      BY Zenon, <2>3
    <3>2. Stored(p) = frames[f].data
      BY Zenon, <2>3, <3>1 DEF Stored
    <3> QED
      BY Zenon, <2>1, <2>3, <3>1, <3>2 DEF Current
  <2>4. CASE status[p] = "used" /\ ~\E f \in Frames : frames[f].id = p
    BY Zenon, <2>1, <2>4 DEF Stored, Current
  <2> QED
    BY Zenon, <2>2, <2>3, <2>4
<1>2. content \in [Pages -> Content \cup {NONE}]
  BY Zenon DEF PoolInv, TypeOK
<1> QED
  BY <1>1, <1>2

\* The content of one page is created, written or dropped, or all stay.
ContentMoves ==
  \/ content' = content
  \/ \E p \in Pages : \/ content[p] = NONE /\ content' = [content EXCEPT ![p] = 0]
                      \/ content[p] # NONE /\ content' = [content EXCEPT ![p] = @ + 1]
                      \/ content[p] # NONE /\ content' = [content EXCEPT ![p] = NONE]

\* A step of the pool creates, writes or drops a page, or changes no content.
LEMMA ContentStep ==
  ASSUME Solo, PoolInv, DataInv, [Next]_vars
  PROVE  ContentMoves
<1>1. TypeOK /\ \A p \in Pages : Age(p) /\ Current(p)
  BY Zenon DEF PoolInv, DataInv
<1>2. ASSUME NEW t \in Threads, NEW p \in Pages, Write(t, p)
      PROVE  ContentMoves
  <2>1. PICK f \in Frames : pins[t][p] = f
    BY <1>1, <1>2 DEF Write, TypeOK
  <2>2. Shows(f) /\ Maps(f)
    BY Zenon DEF PoolInv, Frame
  <2>3. status[p] = "used"
    BY Zenon, <2>1, <2>2 DEF Shows, Maps
  <2>4. content[p] # NONE
    BY Zenon, <1>1, <2>3 DEF Age
  <2>5. content' = [content EXCEPT ![p] = @ + 1]
    BY Zenon, <1>2 DEF Write
  <2> QED
    BY Zenon, <2>4, <2>5 DEF ContentMoves
<1>3. ASSUME NEW t \in Threads, NewTable(t)
      PROVE  ContentMoves
  <2>1. PICK p, f : arg[t].page = p /\ arg[t].frame = f
    OBVIOUS
  <2>2. pc[t] = "new_table" /\ content' = [content EXCEPT ![p] = 0]
    BY Zenon, <1>3, <2>1 DEF NewTable
  <2>3. Creates(t)
    BY Zenon DEF PoolInv, Thread
  <2>4. p \in Pages /\ status[p] = "allocated"
    BY Zenon, <2>1, <2>2, <2>3 DEF Creates
  <2>5. content[p] = NONE
    BY Zenon, <1>1, <2>4 DEF Current
  <2> QED
    BY Zenon, <2>2, <2>4, <2>5 DEF ContentMoves
<1>4. ASSUME NEW t \in Threads, NEW p \in Pages, DeletePage(t, p)
      PROVE  ContentMoves
  <2>1. status[p] = "used" /\ content' = [content EXCEPT ![p] = NONE]
    BY Zenon, <1>4 DEF DeletePage
  <2>2. content[p] # NONE
    BY Zenon, <1>1, <2>1 DEF Age
  <2> QED
    BY Zenon, <2>1, <2>2 DEF ContentMoves
<1>5. ASSUME NEW t \in Threads, NEW p \in Pages,
             FetchHit(t, p) \/ FetchMiss(t, p) \/ unpin_page(t, p) \/ flush_page(t, p) \/ free_page(t, p)
      PROVE  content' = content
  BY Zenon, <1>5 DEF FetchHit, FetchMiss, unpin_page, flush_page, free_page, callers
<1>6. ASSUME NEW t \in Threads,
             \/ FetchWrite(t) \/ FetchRead(t) \/ NewVictim(t) \/ NewReset(t) \/ DeleteWrite(t)
             \/ flush_all_pages(t) \/ free_all_pages(t) \/ \E file \in Closable : CloseFile(t, file)
      PROVE  content' = content
  BY Zenon, <1>6 DEF FetchWrite, FetchRead, NewVictim, NewReset, DeleteWrite, flush_all_pages,
                     free_all_pages, CloseFile, callers
<1>7. CASE UNCHANGED vars
  BY Zenon, <1>7 DEF ContentMoves, vars, callers
<1>8. content' = content => ContentMoves
  BY Zenon DEF ContentMoves
<1>9. CASE Next
  <2>1. PICK t \in Threads :
          \/ \E p \in Pages : \/ FetchHit(t, p) \/ FetchMiss(t, p)
                              \/ Write(t, p) \/ unpin_page(t, p) \/ flush_page(t, p)
                              \/ DeletePage(t, p) \/ free_page(t, p)
          \/ FetchWrite(t) \/ FetchRead(t)
          \/ NewVictim(t) \/ NewReset(t) \/ NewTable(t)
          \/ DeleteWrite(t)
          \/ \E file \in Closable : CloseFile(t, file)
          \/ flush_all_pages(t) \/ free_all_pages(t)
    BY Zenon, <1>9 DEF Next
  <2>2. ASSUME NEW p \in Pages,
               \/ FetchHit(t, p) \/ FetchMiss(t, p)
               \/ Write(t, p) \/ unpin_page(t, p) \/ flush_page(t, p)
               \/ DeletePage(t, p) \/ free_page(t, p)
        PROVE  ContentMoves
    <3>1. CASE Write(t, p)
      BY Zenon, <1>2, <3>1
    <3>2. CASE DeletePage(t, p)
      BY Zenon, <1>4, <3>2
    <3>3. CASE FetchHit(t, p) \/ FetchMiss(t, p) \/ unpin_page(t, p) \/ flush_page(t, p) \/ free_page(t, p)
      <4>1. content' = content
        BY ONLY <1>5, <3>3
      <4> QED
        BY Zenon, <1>8, <4>1
    <3> QED
      BY Zenon, <2>2, <3>1, <3>2, <3>3
  <2>3. CASE NewTable(t)
    BY Zenon, <1>3, <2>3
  <2>4. CASE \/ FetchWrite(t) \/ FetchRead(t) \/ NewVictim(t) \/ NewReset(t) \/ DeleteWrite(t)
             \/ flush_all_pages(t) \/ free_all_pages(t) \/ \E file \in Closable : CloseFile(t, file)
    <3>1. content' = content
      BY ONLY <1>6, <2>4
    <3> QED
      BY Zenon, <1>8, <3>1
  <2> QED
    BY Zenon, <2>1, <2>2, <2>3, <2>4
<1> QED
  BY Zenon, <1>7, <1>8, <1>9

\* With a single thread the pool is a page store: BufferPool implements
\* PageStore, the content of a page being that of its frame, else of the disk.
THEOREM PoolIsPageStore ==
  ASSUME Solo
  PROVE  Spec => ImplementsPageStore
<1> DEFINE store == [p \in Pages |-> Stored(p)]
<1>1. Init => Store!StoreInit
  <2> SUFFICES ASSUME Init
               PROVE  store \in [Pages -> {0, NONE}]
    BY Zenon DEF Store!StoreInit
  <2>1. content = [p \in Pages |-> IF p \in OnDisk THEN 0 ELSE NONE]
    BY Zenon DEF Init
  <2>2. content \in [Pages -> {0, NONE}]
    BY <2>1
  <2>3. store = content
    BY Zenon, InitPool, InitData, StoresContent
  <2> QED
    BY Zenon, <2>2, <2>3
<1>2. (PoolInv /\ DataInv => store = content)'
  BY StoresContent, PTL
<1>3. /\ PoolInv /\ DataInv /\ [Next]_vars
      /\ (PoolInv /\ DataInv)'
      => [Store!StoreNext]_store
  <2> SUFFICES ASSUME PoolInv, DataInv, [Next]_vars, PoolInv', DataInv'
               PROVE  [Store!StoreNext]_store
    BY Zenon
  <2>1. store = content /\ store' = content'
    BY Zenon, <1>2, StoresContent
  <2> HIDE DEF store
  <2>2. \/ store' = store
        \/ \E p \in Pages : \/ store[p] = NONE /\ store' = [store EXCEPT ![p] = 0]
                            \/ store[p] # NONE /\ store' = [store EXCEPT ![p] = @ + 1]
                            \/ store[p] # NONE /\ store' = [store EXCEPT ![p] = NONE]
    BY Zenon, <2>1, ContentStep DEF ContentMoves
  <2> QED
    BY Zenon, <2>2 DEF store, Store!StoreNext, Store!CreatePage, Store!WritePage, Store!DropPage
<1> QED
  BY <1>1, <1>3, DataInvariance, PTL DEF Spec, ImplementsPageStore, Store!StoreSpec
=============================================================================
