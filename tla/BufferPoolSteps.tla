-------------------------- MODULE BufferPoolSteps ---------------------------
(***************************************************************************)
(* PoolInv, the invariant of the buffer pool's bookkeeping, and the calls  *)
(* on pages that are in the pool: fetch_page when it finds its page, a     *)
(* write, unpin_page and flush_page.                                       *)
(*                                                                         *)
(* A step of a call changes one thread and one frame.  LocalStep says what *)
(* must be shown of these two for the invariant to hold of all the others; *)
(* PageStep is its form for the calls of this module.  The lemmas on lists *)
(* say what free_list_ and LRUlist_ contain after an operation.            *)
(*                                                                         *)
(* The second part is about a pool with one thread, where what the frames  *)
(* and the disk hold is what was written: DataInv is the invariant, and    *)
(* the lemmas show that every step keeps it.                               *)
(***************************************************************************)
EXTENDS BufferPool, TLAPS

(* The invariant *)

\* Closing a file goes through the frames without the page table, so that it
\* needs a pool that nobody else uses; the other calls do not.
ClosesAlone == Closable = {} \/ \A t, u \in Threads : t = u

\* How sets of threads are counted (a fact about finite sets; BufferPoolProofs
\* takes it from the library).
CountLaws ==
  \A S \in SUBSET Threads :
    /\ Cardinality(S) \in Nat /\ (Cardinality(S) = 0 <=> S = {})
    /\ \A t \in Threads : t \notin S => Cardinality(S \cup {t}) = Cardinality(S) + 1
    /\ \A t \in S : Cardinality(S \ {t}) = Cardinality(S) - 1
Setting == ClosesAlone /\ CountLaws

\* A thread is in a call that works on this frame; it has taken the frame off
\* its list; it turns the frame over to another page.
Engages(t, f) ==
  /\ pc[t] \in {"fetch_write", "fetch_read", "thrown", "new_reset", "new_table", "del_write"}
  /\ arg[t].frame = f
Takes(t, f) ==
  /\ pc[t] \in {"fetch_write", "fetch_read", "thrown", "new_reset", "new_table"}
  /\ arg[t].frame = f
Turns(t, f) ==
  /\ pc[t] \in {"fetch_write", "fetch_read", "new_reset", "new_table", "del_write"}
  /\ arg[t].frame = f
Loads(t, p, f) ==
  /\ pc[t] \in {"fetch_write", "fetch_read"}
  /\ arg[t].page = p /\ arg[t].frame = f

Pinners(p) == {u \in Threads : pins[u][p] # NONE}
Unmapped(f) == \A q \in Pages : page_table[q] # f
Unpinned(p) == \A u \in Threads : pins[u][p] = NONE

\* Where a thread is tells what it has done to its page and frame.
Fetches(t) ==
  \A p, f : pc[t] \in {"fetch_write", "fetch_read", "thrown"} /\ arg[t].page = p /\ arg[t].frame = f =>
    /\ p \in Pages /\ f \in Frames
    /\ page_latch[f] = t /\ page_table[p] = f /\ Unpinned(p)
    /\ pc[t] = "thrown" => frames[f].id = p
    /\ pc[t] # "thrown" => frames[f].pin = 0

Creates(t) ==
  \A p, f : pc[t] \in {"new_reset", "new_table"} /\ arg[t].page = p /\ arg[t].frame = f =>
    /\ f \in Frames /\ Unmapped(f)
    /\ pc[t] = "new_reset" => frames[f].pin = 0
    /\ pc[t] = "new_table" =>
         /\ p \in Pages /\ status[p] = "allocated"
         /\ frames[f].id = p /\ frames[f].data = 0 /\ ~frames[f].dirty /\ frames[f].pin = 1

Deletes(t) ==
  \A p, f : pc[t] = "del_write" /\ arg[t].page = p /\ arg[t].frame = f =>
    /\ p \in Pages /\ f \in Frames
    /\ page_latch[f] = t /\ Unmapped(f)
    /\ frames[f].id = p /\ frames[f].pin = 0 /\ status[p] = "deleted"

Closes(t) ==
  pc[t] \in {"flush_all", "free_all"} =>
    /\ Closable # {}
    /\ \A p \in Pages : FileOf[p] = arg[t].page => Unpinned(p)

Thread(t) == Fetches(t) /\ Creates(t) /\ Deletes(t) /\ Closes(t)

\* A page number is allocated for one thread.
NumbersOnce ==
  \A t, u \in Threads :
    pc[t] = "new_table" /\ pc[u] = "new_table" /\ arg[t].page = arg[u].page => t = u

\* Whoever has a frame's mutex is in a call on that frame, and one thread at
\* most has taken it.
Held(f) ==
  /\ \A t \in Threads : page_latch[f] = t => Engages(t, f) /\ pc[t] \notin {"new_reset", "new_table"}
  /\ \A t, u \in Threads : Takes(t, f) /\ Takes(u, f) => t = u

\* The table leads from one page to a frame, a page in use; the frame shows the
\* page, unless it is being loaded, and counts its pins.
Maps(f) ==
  /\ \A p, q \in Pages : page_table[p] = f /\ page_table[q] = f => p = q
  /\ \A p \in Pages : page_table[p] = f =>
       /\ status[p] = "used"
       /\ frames[f].id = p \/ \E t \in Threads : Loads(t, p, f)
       /\ \/ frames[f].pin = Cardinality(Pinners(p))
          \/ \E t \in Threads : pc[t] = "thrown" /\ arg[t].frame = f

\* A frame shows a page that the table does not lead to only while a thread
\* turns it over.  Pins are on the frame that the table leads to.
Shows(f) ==
  /\ \A p \in Pages : frames[f].id = p => page_table[p] = f \/ \E t \in Threads : Turns(t, f)
  /\ \A t \in Threads, p \in Pages : pins[t][p] = f => page_table[p] = f /\ frames[f].id = p

\* A frame is on one list, or it is pinned or taken.
Listed(f) ==
  /\ (f \in Range(free_list) \/ f \in Range(lru)) <=> frames[f].pin = 0 /\ \A t \in Threads : ~Takes(t, f)
  /\ ~(f \in Range(free_list) /\ f \in Range(lru))
  /\ f \in Range(free_list) => Unmapped(f)

Frame(f) == Held(f) /\ Maps(f) /\ Shows(f) /\ Listed(f)

\* No list has a frame twice.
ListsOnce == IsInjective(free_list) /\ IsInjective(lru)

\* A copy of a page is never newer than the page.
Age(p) ==
  /\ status[p] = "used" =>
       /\ content[p] # NONE
       /\ disk[p] # NONE => disk[p] <= content[p]
       /\ \A f \in Frames : frames[f].id = p => frames[f].data <= content[p]
  /\ status[p] \in {"new", "allocated"} =>
       /\ disk[p] = NONE
       /\ \A f \in Frames : frames[f].id = p => frames[f].data = 0 /\ ~frames[f].dirty

PoolInv ==
  /\ TypeOK /\ NumbersOnce /\ ListsOnce
  /\ \A t \in Threads : Thread(t)
  /\ \A f \in Frames : Frame(f)
  /\ \A p \in Pages : Age(p)

-----------------------------------------------------------------------------
(* Lists *)

\* Elements of a sequence, by their places.
LEMMA Places ==
  ASSUME NEW s \in Seq(Frames)
  PROVE  /\ Len(s) \in Nat /\ \A i \in 1 .. Len(s) : s[i] \in Frames
         /\ IsInjective(s) <=> \A i, j \in 1 .. Len(s) : s[i] = s[j] => i = j
         /\ \A g : g \in Range(s) <=> \E i \in 1 .. Len(s) : s[i] = g
<1>1. DOMAIN s = 1 .. Len(s)
  OBVIOUS
<1> QED
  BY <1>1 DEF IsInjective, Range

\* r is s without its i-th element f.
Lacks(r, s, i, f) ==
  /\ Len(r) = Len(s) - 1 /\ i \in 1 .. Len(s) /\ s[i] = f
  /\ \A j \in 1 .. Len(r) : r[j] = IF j < i THEN s[j] ELSE s[j + 1]

\* A sequence that lacks an element has the others.
LEMMA WithoutPlace ==
  ASSUME NEW s \in Seq(Frames), IsInjective(s), NEW r \in Seq(Frames), NEW i, NEW f, Lacks(r, s, i, f)
  PROVE  /\ IsInjective(r) /\ f \in Frames /\ f \in Range(s)
         /\ \A g : g \in Range(r) <=> g \in Range(s) /\ g # f
<1>0. /\ Len(r) = Len(s) - 1 /\ i \in 1 .. Len(s) /\ s[i] = f
      /\ \A j \in 1 .. Len(r) : r[j] = IF j < i THEN s[j] ELSE s[j + 1]
  BY Zenon DEF Lacks
<1>1. Len(s) \in Nat /\ \A j, k \in 1 .. Len(s) : s[j] = s[k] => j = k
  BY Zenon, Places
<1>2. \A j, k \in 1 .. Len(r) : r[j] = r[k] => j = k
  BY <1>0, <1>1
<1>3. ASSUME NEW g, NEW j \in 1 .. Len(r), r[j] = g
      PROVE  g # f /\ \E k \in 1 .. Len(s) : s[k] = g
  BY <1>0, <1>1, <1>3
<1>4. ASSUME NEW g, NEW j \in 1 .. Len(s), s[j] = g, g # f
      PROVE  \E k \in 1 .. Len(r) : r[k] = g
  <2>1. CASE j < i
    BY <1>0, <1>1, <1>4, <2>1
  <2>2. CASE j > i
    <3>1. j - 1 \in 1 .. Len(r) /\ r[j - 1] = s[j]
      BY <1>0, <1>1, <2>2
    <3> QED
      BY Zenon, <1>4, <3>1
  <2> QED
    BY <1>0, <1>4, <2>1, <2>2
<1>5. IsInjective(r)
  BY Zenon, <1>2, Places
<1>6. f \in Frames /\ \A g : g \in Range(s) <=> \E k \in 1 .. Len(s) : s[k] = g
  BY Zenon, <1>0, Places
<1>7. \A g : g \in Range(r) <=> \E k \in 1 .. Len(r) : r[k] = g
  BY Zenon, Places
<1> QED
  BY Zenon, <1>0, <1>3, <1>4, <1>5, <1>6, <1>7

\* Two sequences one after the other.
LEMMA Joined ==
  ASSUME NEW a \in Seq(Frames), NEW b \in Seq(Frames)
  PROVE  /\ a \o b \in Seq(Frames) /\ Len(a \o b) = Len(a) + Len(b)
         /\ \A j \in 1 .. Len(a) + Len(b) : (a \o b)[j] = IF j <= Len(a) THEN a[j] ELSE b[j - Len(a)]
  OBVIOUS

\* The first n elements.
LEMMA Prefix ==
  ASSUME NEW s \in Seq(Frames), NEW n \in Nat, n <= Len(s)
  PROVE  /\ SubSeq(s, 1, n) \in Seq(Frames) /\ Len(SubSeq(s, 1, n)) = n
         /\ \A i \in 1 .. n : SubSeq(s, 1, n)[i] = s[i]
  OBVIOUS

\* An element cut out of a sequence.
LEMMA CutOut ==
  ASSUME NEW s \in Seq(Frames), NEW i \in 1 .. Len(s)
  PROVE  LET r == SubSeq(s, 1, i - 1) \o SubSeq(s, i + 1, Len(s))
         IN r \in Seq(Frames) /\ Lacks(r, s, i, s[i])
<1> DEFINE a == SubSeq(s, 1, i - 1)
           b == SubSeq(s, i + 1, Len(s))
           r == a \o b
<1>1. a \in Seq(Frames) /\ Len(a) = i - 1 /\ \A j \in 1 .. i - 1 : a[j] = s[j]
  OBVIOUS
<1>2. b \in Seq(Frames) /\ Len(b) = Len(s) - i /\ \A j \in 1 .. Len(s) - i : b[j] = s[i + j]
  OBVIOUS
<1> HIDE DEF a, b
<1>3. /\ r \in Seq(Frames) /\ Len(r) = Len(a) + Len(b)
      /\ \A j \in 1 .. Len(a) + Len(b) : r[j] = IF j <= Len(a) THEN a[j] ELSE b[j - Len(a)]
  BY Zenon, <1>1, <1>2, Joined
<1> HIDE DEF r
<1>4. Len(r) = Len(s) - 1 /\ Len(s) \in Nat
  BY <1>1, <1>2, <1>3
<1>5. \A j \in 1 .. Len(r) : r[j] = IF j < i THEN s[j] ELSE s[j + 1]
  <2> SUFFICES ASSUME NEW j \in 1 .. Len(r)
               PROVE  r[j] = IF j < i THEN s[j] ELSE s[j + 1]
    BY Zenon
  <2>1. CASE j < i
    BY <1>1, <1>2, <1>3, <1>4, <2>1
  <2>2. CASE j >= i
    <3>1. j - (i - 1) \in 1 .. Len(s) - i /\ i + (j - (i - 1)) = j + 1 /\ ~(j <= i - 1)
      BY <1>4, <2>2
    <3> QED
      BY <1>1, <1>2, <1>3, <1>4, <2>2, <3>1
  <2> QED
    BY <1>4, <2>1, <2>2
<1>6. Lacks(r, s, i, s[i])
  BY Zenon, <1>4, <1>5 DEF Lacks
<1> QED
  BY Zenon, <1>3, <1>6 DEF r, a, b

\* A sequence with a new element at the place i.
LEMMA WithPlace ==
  ASSUME NEW s \in Seq(Frames), IsInjective(s), NEW r \in Seq(Frames), NEW i, NEW f, f \notin Range(s),
         Lacks(s, r, i, f)
  PROVE  IsInjective(r) /\ \A g : g \in Range(r) <=> g \in Range(s) \/ g = f
<1>1. /\ Len(s) = Len(r) - 1 /\ i \in 1 .. Len(r) /\ r[i] = f
      /\ \A j \in 1 .. Len(s) : s[j] = IF j < i THEN r[j] ELSE r[j + 1]
  BY Zenon DEF Lacks
<1>2. Len(r) \in Nat /\ (\A j, k \in 1 .. Len(s) : s[j] = s[k] => j = k) /\ \A k \in 1 .. Len(s) : s[k] # f
  BY Zenon, Places
<1>3. ASSUME NEW j \in 1 .. Len(r), j # i
      PROVE  LET k == IF j < i THEN j ELSE j - 1 IN k \in 1 .. Len(s) /\ r[j] = s[k]
  BY <1>1, <1>2, <1>3
<1>4. IsInjective(r)
  <2>1. ASSUME NEW j \in 1 .. Len(r), NEW k \in 1 .. Len(r), r[j] = r[k], j # i, k # i
        PROVE  j = k
    <3>1. (IF j < i THEN j ELSE j - 1) = (IF k < i THEN k ELSE k - 1)
      BY <1>2, <1>3, <2>1
    <3> QED
      BY <1>1, <1>2, <2>1, <3>1
  <2>2. \A j \in 1 .. Len(r) : j # i => r[j] # f
    BY Zenon, <1>2, <1>3
  <2> QED
    BY Zenon, <1>1, <2>1, <2>2, Places
<1>5. \A g : g \in Range(s) <=> \E k \in 1 .. Len(s) : s[k] = g
  BY Zenon, Places
<1>6. \A g : g \in Range(r) <=> \E k \in 1 .. Len(r) : r[k] = g
  BY Zenon, Places
<1>7. \A k \in 1 .. Len(s) : \E j \in 1 .. Len(r) : r[j] = s[k]
  BY <1>1, <1>2
<1>8. \A j \in 1 .. Len(r) : r[j] = f \/ \E k \in 1 .. Len(s) : r[j] = s[k]
  BY Zenon, <1>1, <1>3
<1> QED
  BY Zenon, <1>1, <1>4, <1>5, <1>6, <1>7, <1>8

\* An element put in front of a sequence, or at its end.
LEMMA PutIn ==
  ASSUME NEW s \in Seq(Frames), NEW f \in Frames
  PROVE  /\ <<f>> \o s \in Seq(Frames) /\ Lacks(s, <<f>> \o s, 1, f)
         /\ Append(s, f) \in Seq(Frames) /\ Lacks(s, Append(s, f), Len(s) + 1, f)
<1>1. <<f>> \o s \in Seq(Frames) /\ Lacks(s, <<f>> \o s, 1, f)
  <2> DEFINE a == <<f>>
             r == a \o s
  <2>1. a \in Seq(Frames) /\ Len(a) = 1 /\ a[1] = f
    OBVIOUS
  <2> HIDE DEF a
  <2>2. /\ r \in Seq(Frames) /\ Len(r) = Len(a) + Len(s)
        /\ \A j \in 1 .. Len(a) + Len(s) : r[j] = IF j <= Len(a) THEN a[j] ELSE s[j - Len(a)]
    BY Zenon, <2>1, Joined
  <2> HIDE DEF r
  <2>3. \A j \in 1 .. Len(s) : s[j] = r[j + 1]
    <3>1. \A j \in 1 .. Len(s) : j + 1 \in 1 .. 1 + Len(s) /\ ~(j + 1 <= 1) /\ (j + 1) - 1 = j
      OBVIOUS
    <3> QED
      BY Zenon, <2>1, <2>2, <3>1
  <2>4. Lacks(s, r, 1, f)
    BY <2>1, <2>2, <2>3 DEF Lacks
  <2> QED
    BY Zenon, <2>2, <2>4 DEF r, a
<1>2. Append(s, f) \in Seq(Frames) /\ Lacks(s, Append(s, f), Len(s) + 1, f)
  BY DEF Lacks
<1> QED
  BY Zenon, <1>1, <1>2

\* A frame put at the end of the free list.
LEMMA FreeList ==
  ASSUME NEW s \in Seq(Frames), IsInjective(s), NEW f \in Frames, f \notin Range(s)
  PROVE  /\ Append(s, f) \in Seq(Frames) /\ IsInjective(Append(s, f))
         /\ \A g : g \in Range(Append(s, f)) <=> g \in Range(s) \/ g = f
<1> DEFINE r == Append(s, f)
<1>1. r \in Seq(Frames) /\ Lacks(s, r, Len(s) + 1, f)
  BY Zenon, PutIn
<1> HIDE DEF r
<1>2. IsInjective(r) /\ \A g : g \in Range(r) <=> g \in Range(s) \/ g = f
  BY <1>1, WithPlace
<1> QED
  BY Zenon, <1>1, <1>2 DEF r

\* LRUReplacer::pin takes the frame off the list and leaves the others.
LEMMA PinList ==
  ASSUME lru \in Seq(Frames), IsInjective(lru), NEW f, ReplacerPin(f)
  PROVE  /\ lru' \in Seq(Frames) /\ IsInjective(lru')
         /\ \A g : g \in Range(lru') <=> g \in Range(lru) /\ g # f
<1>1. CASE f \notin Range(lru) /\ lru' = lru
  BY Zenon, <1>1
<1>2. ASSUME NEW i \in 1 .. Len(lru), lru[i] = f,
             lru' = SubSeq(lru, 1, i - 1) \o SubSeq(lru, i + 1, Len(lru))
      PROVE  /\ lru' \in Seq(Frames) /\ IsInjective(lru')
             /\ \A g : g \in Range(lru') <=> g \in Range(lru) /\ g # f
  <2>1. lru' \in Seq(Frames) /\ Lacks(lru', lru, i, f)
    BY Zenon, <1>2, CutOut
  <2> QED
    BY <2>1, WithoutPlace
<1> QED
  BY Zenon, <1>1, <1>2 DEF ReplacerPin

\* LRUReplacer::unpin adds a frame that was not in the list.
LEMMA UnpinList ==
  ASSUME lru \in Seq(Frames), IsInjective(lru), NEW f \in Frames, f \notin Range(lru), ReplacerUnpin(f)
  PROVE  /\ lru' \in Seq(Frames) /\ IsInjective(lru')
         /\ \A g : g \in Range(lru') <=> g \in Range(lru) \/ g = f
<1>1. lru' \in Seq(Frames) /\ Lacks(lru, lru', 1, f)
  BY Zenon, PutIn DEF ReplacerUnpin
<1> QED
  BY Zenon, <1>1, WithPlace

\* find_victim_page takes a frame off one of the lists.
LEMMA VictimList ==
  ASSUME free_list \in Seq(Frames), lru \in Seq(Frames), ListsOnce, NEW f, FindVictim(f),
         ~(f \in Range(free_list) /\ f \in Range(lru))
  PROVE  /\ f \in Frames /\ (f \in Range(free_list) \/ f \in Range(lru))
         /\ free_list' \in Seq(Frames) /\ lru' \in Seq(Frames) /\ ListsOnce'
         /\ \A g : g \in Range(free_list') <=> g \in Range(free_list) /\ g # f
         /\ \A g : g \in Range(lru') <=> g \in Range(lru) /\ g # f
<1>1. ASSUME free_list # <<>>, f = Head(free_list), free_list' = Tail(free_list)
      PROVE  /\ f \in Frames /\ f \in Range(free_list)
             /\ free_list' \in Seq(Frames) /\ IsInjective(free_list')
             /\ \A g : g \in Range(free_list') <=> g \in Range(free_list) /\ g # f
  <2>1. free_list' \in Seq(Frames) /\ Lacks(free_list', free_list, 1, f)
    BY <1>1 DEF Lacks
  <2> QED
    BY Zenon, <2>1, WithoutPlace DEF ListsOnce
<1>2. ASSUME lru # <<>>, f = lru[Len(lru)], lru' = SubSeq(lru, 1, Len(lru) - 1)
      PROVE  /\ f \in Frames /\ f \in Range(lru)
             /\ lru' \in Seq(Frames) /\ IsInjective(lru')
             /\ \A g : g \in Range(lru') <=> g \in Range(lru) /\ g # f
  <2>1. lru' \in Seq(Frames) /\ Lacks(lru', lru, Len(lru), f)
    <3>1. Len(lru) \in Nat \ {0} /\ Len(lru) - 1 \in Nat /\ Len(lru) - 1 <= Len(lru)
      BY <1>2
    <3>2. /\ lru' \in Seq(Frames) /\ Len(lru') = Len(lru) - 1
          /\ \A k \in 1 .. Len(lru) - 1 : lru'[k] = lru[k]
      BY Zenon, <1>2, <3>1, Prefix
    <3>3. \A k \in 1 .. Len(lru') : k < Len(lru) /\ lru'[k] = lru[k]
      BY <3>1, <3>2
    <3> QED
      BY <1>2, <3>1, <3>2, <3>3 DEF Lacks
  <2> QED
    BY Zenon, <2>1, WithoutPlace DEF ListsOnce
<1> QED
  BY Zenon, <1>1, <1>2 DEF FindVictim, ListsOnce


-----------------------------------------------------------------------------
(* A step of one thread on one frame *)

\* What a step of t leaves alone if f is the frame it works on.
Local(t, f) ==
  /\ \A u \in Threads : u # t => pc'[u] = pc[u] /\ arg'[u] = arg[u]
  /\ \A g \in Frames : g # f =>
       /\ frames'[g] = frames[g] /\ page_latch'[g] = page_latch[g]
       /\ g \in Range(free_list') <=> g \in Range(free_list)
       /\ g \in Range(lru') <=> g \in Range(lru)
       /\ \A q \in Pages : page_table'[q] = g <=> page_table[q] = g
       /\ ~Engages(t, g) /\ ~Engages(t, g)'
  /\ \A u \in Threads, q \in Pages :
       \/ pins'[u][q] = pins[u][q]
       \/ f \in Frames /\ page_table'[q] = f /\ pins'[u][q] \in {f, NONE}
  /\ \A q \in Pages :
       \/ status'[q] = status[q] \/ status[q] = "new"
       \/ status[q] = "used" /\ page_table[q] \in {f, NONE}
       \/ pc[t] = "new_table" /\ arg[t].page = q

\* Such a step keeps what is said of the other frames.
LEMMA OtherFrames ==
  ASSUME PoolInv, TypeOK', NEW t \in Threads, NEW f, Local(t, f), NEW g \in Frames, g # f
  PROVE  Frame(g)'
<1>1. /\ frames'[g] = frames[g] /\ page_latch'[g] = page_latch[g]
      /\ g \in Range(free_list') <=> g \in Range(free_list)
      /\ g \in Range(lru') <=> g \in Range(lru)
      /\ \A q \in Pages : page_table'[q] = g <=> page_table[q] = g
  BY Zenon DEF Local
<1>2. \A u \in Threads : u # t => pc'[u] = pc[u] /\ arg'[u] = arg[u]
  BY Zenon DEF Local
<1>3. ~Engages(t, g) /\ ~Engages(t, g)'
  BY Zenon DEF Local
<1>4. Frame(g) /\ g # NONE
  BY Zenon, NoneIsNew DEF PoolInv
<1>5. Held(g)'
  <2>1. \A u \in Threads : Engages(u, g)' <=> Engages(u, g)
    BY Zenon, <1>2, <1>3 DEF Engages
  <2>2. \A u \in Threads : Takes(u, g)' <=> Takes(u, g)
    BY Zenon, <1>2, <1>3 DEF Engages, Takes
  <2>3. \A u \in Threads : Engages(u, g) => pc'[u] = pc[u]
    BY Zenon, <1>2, <1>3
  <2> QED
    BY Zenon, <1>1, <1>4, <2>1, <2>2, <2>3 DEF Frame, Held
<1>6. ASSUME NEW p \in Pages, page_table'[p] = g
      PROVE  /\ page_table[p] = g /\ status'[p] = "used" /\ Pinners(p)' = Pinners(p)
             /\ frames'[g].id = p \/ \E u \in Threads : Loads(u, p, g)'
             /\ \/ frames'[g].pin = Cardinality(Pinners(p)')
                \/ \E u \in Threads : (pc[u] = "thrown" /\ arg[u].frame = g)'
  <2>1. page_table[p] = g
    BY Zenon, <1>1, <1>6
  <2>2. status[p] = "used" /\ (\A u \in Threads : pins'[u][p] = pins[u][p])
    BY <1>4, <1>6, <2>1 DEF Frame, Maps, Local
  <2>3. status'[p] = "used"
    <3>1. pc[t] = "new_table" => arg[t].page # p
      BY Zenon, <2>2 DEF PoolInv, Thread, Creates
    <3> QED
      BY Zenon, <1>4, <2>1, <2>2, <3>1 DEF Local
  <2>4. Pinners(p)' = Pinners(p)
    BY Zenon, <2>2 DEF Pinners
  <2>5. \A u \in Threads : Loads(u, p, g) => Loads(u, p, g)'
    BY Zenon, <1>2, <1>3 DEF Loads, Engages
  <2>6. \A u \in Threads : pc[u] = "thrown" /\ arg[u].frame = g => pc'[u] = "thrown" /\ arg'[u].frame = g
    BY Zenon, <1>2, <1>3 DEF Engages
  <2> QED
    BY Zenon, <1>1, <1>4, <2>1, <2>3, <2>4, <2>5, <2>6 DEF Frame, Maps
<1>7. Maps(g)'
  BY Zenon, <1>4, <1>6 DEF Frame, Maps
<1>8. Shows(g)'
  <2>1. \A u \in Threads : Turns(u, g) => Turns(u, g)'
    BY Zenon, <1>2, <1>3 DEF Turns, Engages
  <2>2. ASSUME NEW u \in Threads, NEW p \in Pages, pins'[u][p] = g
        PROVE  pins[u][p] = g
    BY <1>4, <2>2 DEF Local
  <2> QED
    BY <1>1, <1>4, <2>1, <2>2 DEF Frame, Shows
<1>9. Listed(g)'
  <2>1. \A u \in Threads : Takes(u, g)' <=> Takes(u, g)
    BY Zenon, <1>2, <1>3 DEF Engages, Takes
  <2>2. Unmapped(g)' <=> Unmapped(g)
    BY Zenon, <1>1 DEF Unmapped
  <2> QED
    BY Zenon, <1>1, <1>4, <2>1, <2>2 DEF Frame, Listed
<1> QED
  BY Zenon, <1>5, <1>7, <1>8, <1>9 DEF Frame

\* It keeps what is said of the other threads unless they work on f as well.
LEMMA OtherThreads ==
  ASSUME Setting, PoolInv, NEW t \in Threads, NEW f, Local(t, f),
         NEW u \in Threads, u # t, ~Engages(u, f)
  PROVE  Thread(u)'
<1>1. pc'[u] = pc[u] /\ arg'[u] = arg[u] /\ Thread(u)
  BY Zenon DEF Local, PoolInv
<1>2. ASSUME NEW g \in Frames, Engages(u, g)
      PROVE  /\ frames'[g] = frames[g] /\ page_latch'[g] = page_latch[g]
             /\ \A q \in Pages : page_table'[q] = g <=> page_table[q] = g
             /\ g # f
  BY Zenon, <1>2 DEF Local
<1>3. ASSUME NEW g \in Frames, Engages(u, g), NEW p \in Pages, page_table[p] = g, Unpinned(p)
      PROVE  Unpinned(p)'
  BY <1>2, <1>3 DEF Local, Unpinned
<1>4. ASSUME NEW g \in Frames, Engages(u, g), Unmapped(g)
      PROVE  Unmapped(g)'
  BY <1>2, <1>4 DEF Unmapped
<1>5. Fetches(u)'
  BY <1>1, <1>2, <1>3 DEF Thread, Fetches, Engages
<1>6. Creates(u)'
  <2>1. \A p \in Pages : pc[u] = "new_table" /\ arg[u].page = p => status'[p] = status[p]
    BY <1>1 DEF Thread, Creates, Local, PoolInv, NumbersOnce
  <2> QED
    BY <1>1, <1>2, <1>4, <2>1 DEF Thread, Creates, Engages
<1>7. Deletes(u)'
  <2>1. \A p \in Pages : status[p] = "deleted" => status'[p] = status[p]
    BY DEF Thread, Creates, Local, PoolInv
  <2> QED
    BY <1>1, <1>2, <1>4, <2>1 DEF Thread, Deletes, Engages
<1>8. Closes(u)'
  BY Zenon, <1>1 DEF Thread, Closes, Setting, ClosesAlone
<1> QED
  BY Zenon, <1>5, <1>6, <1>7, <1>8 DEF Thread

\* A step of t on f keeps the invariant if nobody else works on f and if what it
\* leaves fits.
LEMMA LocalStep ==
  ASSUME Setting, PoolInv, NEW t \in Threads, NEW f, Local(t, f),
         \A u \in Threads : u # t => ~Engages(u, f) \/ Thread(u)',
         TypeOK', ListsOnce', Thread(t)', f \in Frames => Frame(f)',
         pc'[t] = "new_table" => \A u \in Threads : u # t /\ pc[u] = "new_table" => arg[u].page # arg'[t].page,
         \A p \in Pages : Age(p)'
  PROVE  PoolInv'
<1>1. \A u \in Threads : Thread(u)'
  BY Zenon, OtherThreads
<1>2. \A g \in Frames : Frame(g)'
  BY Zenon, OtherFrames
<1>3. NumbersOnce'
  <2>1. \A u \in Threads : u # t => pc'[u] = pc[u] /\ arg'[u] = arg[u]
    BY Zenon DEF Local
  <2> QED
    BY <2>1 DEF PoolInv, NumbersOnce
<1> QED
  BY Zenon, <1>1, <1>2, <1>3 DEF PoolInv

\* The pins of a page are counted; there are none if nobody has pinned it.
LEMMA CountPins ==
  ASSUME Setting, NEW p \in Pages
  PROVE  /\ Cardinality(Pinners(p)) \in Nat /\ (Cardinality(Pinners(p)) = 0 <=> Unpinned(p))
         /\ Cardinality(Pinners(p)') = 0 <=> Unpinned(p)'
<1>1. Pinners(p) \in SUBSET Threads /\ (Pinners(p) = {} <=> Unpinned(p))
  BY Zenon DEF Pinners, Unpinned
<1>2. Pinners(p)' \in SUBSET Threads /\ (Pinners(p)' = {} <=> Unpinned(p)')
  BY Zenon DEF Pinners, Unpinned
<1> QED
  BY Zenon, <1>1, <1>2 DEF Setting, CountLaws

\* One pin is set or removed.
LEMMA SetPin ==
  ASSUME pins \in [Threads -> [Pages -> Frames \cup {NONE}]], NEW t \in Threads, NEW p \in Pages,
         NEW v \in Frames \cup {NONE}, pins' = [pins EXCEPT ![t][p] = v]
  PROVE  /\ pins' \in [Threads -> [Pages -> Frames \cup {NONE}]] /\ pins'[t][p] = v
         /\ \A u \in Threads, q \in Pages : ~(u = t /\ q = p) => pins'[u][q] = pins[u][q]
<1> DEFINE s == [pins[t] EXCEPT ![p] = v]
<1>1. s \in [Pages -> Frames \cup {NONE}] /\ s[p] = v /\ \A q \in Pages : q # p => s[q] = pins[t][q]
  BY Zenon
<1>2. pins' = [pins EXCEPT ![t] = s]
  BY Zenon
<1> HIDE DEF s
<1>3. pins'[t] = s /\ \A u \in Threads : u # t => pins'[u] = pins[u]
  BY Zenon, <1>2
<1>4. pins' \in [Threads -> [Pages -> Frames \cup {NONE}]]
  BY Zenon, <1>1, <1>2
<1> QED
  BY Zenon, <1>1, <1>3, <1>4

\* One frame is changed.
FrameRecord == [id : Pages \cup {NONE}, data : Content, dirty : BOOLEAN, pin : Nat]
LEMMA SetFrame ==
  ASSUME TypeOK, NEW f \in Frames, NEW r \in FrameRecord, frames' = [frames EXCEPT ![f] = r]
  PROVE  /\ frames' \in [Frames -> FrameRecord] /\ frames'[f] = r
         /\ \A g \in Frames : g # f => frames'[g] = frames[g]
  BY Zenon DEF TypeOK, FrameRecord

\* What is known of the frame of a page when its mutex is free or it is pinned.
LEMMA FrameOfPage ==
  ASSUME Setting, PoolInv, NEW p \in Pages, NEW f \in Frames, page_table[p] = f,
         page_latch[f] = NONE \/ ~Unpinned(p)
  PROVE  /\ \A u \in Threads : ~Engages(u, f)
         /\ frames[f].id = p /\ frames[f].pin = Cardinality(Pinners(p)) /\ status[p] = "used"
         /\ f \notin Range(free_list) /\ (f \in Range(lru) <=> Unpinned(p))
         /\ \A q \in Pages : page_table[q] = f => q = p
         /\ \A u \in Threads, q \in Pages : pins[u][q] = f => q = p
<1>1. Frame(f)
  BY Zenon DEF PoolInv
<1>2. \A u \in Threads : ~Engages(u, f)
  <2> SUFFICES ASSUME NEW u \in Threads, Engages(u, f)
               PROVE  FALSE
    BY Zenon
  <2>1. Thread(u) /\ u # NONE /\ \A q \in Pages : page_table[q] = f => q = p
    BY Zenon, <1>1, NoneIsNew DEF PoolInv, Frame, Maps
  <2>2. CASE pc[u] \in {"fetch_write", "fetch_read", "thrown"}
    BY <2>1, <2>2 DEF Thread, Fetches, Engages
  <2>3. CASE pc[u] \in {"new_reset", "new_table"}
    BY <2>1, <2>3 DEF Thread, Creates, Engages, Unmapped
  <2>4. CASE pc[u] = "del_write"
    BY <2>1, <2>4 DEF Thread, Deletes, Engages, Unmapped
  <2> QED
    BY Zenon, <2>2, <2>3, <2>4 DEF Engages
<1>3. \A u \in Threads : ~Takes(u, f) /\ ~Loads(u, p, f) /\ ~(pc[u] = "thrown" /\ arg[u].frame = f)
  BY Zenon, <1>2 DEF Engages, Takes, Loads
<1>4. frames[f].id = p /\ frames[f].pin = Cardinality(Pinners(p)) /\ status[p] = "used"
  BY Zenon, <1>1, <1>3 DEF Frame, Maps
<1>5. f \notin Range(free_list) /\ (f \in Range(lru) <=> Unpinned(p))
  BY Zenon, <1>1, <1>3, <1>4, CountPins DEF Frame, Listed, Unmapped
<1> QED
  BY Zenon, <1>1, <1>2, <1>4, <1>5 DEF Frame, Maps, Shows

\* What is left of the frame of page p by a call that neither moves a page nor
\* goes on later.
OnPage(t, p, f) ==
  /\ pc[t] = "idle" /\ page_table[p] = f
  /\ page_latch[f] = NONE \/ ~Unpinned(p)
  /\ UNCHANGED <<page_latch, page_table, free_list, status, pc, arg>>
  /\ \A g \in Frames : g # f => frames'[g] = frames[g] /\ (g \in Range(lru') <=> g \in Range(lru))
  /\ \A u \in Threads, q \in Pages : ~(u = t /\ q = p) => pins'[u][q] = pins[u][q]
  /\ pins'[t][p] \in {f, NONE}
  /\ frames'[f].id = frames[f].id
  /\ frames'[f].pin = Cardinality(Pinners(p)')
  /\ f \in Range(lru') <=> Unpinned(p)'

\* Such a call keeps the invariant.
LEMMA PageStep ==
  ASSUME Setting, PoolInv, NEW t \in Threads, NEW p \in Pages, NEW f \in Frames, OnPage(t, p, f),
         TypeOK', IsInjective(lru'), \A q \in Pages : Age(q)'
  PROVE  PoolInv'
<1>1. /\ pc[t] = "idle" /\ page_table[p] = f
      /\ page_latch[f] = NONE \/ ~Unpinned(p)
      /\ UNCHANGED <<page_latch, page_table, free_list, status, pc, arg>>
  BY Zenon DEF OnPage
<1>2. /\ \A g \in Frames : g # f => frames'[g] = frames[g] /\ (g \in Range(lru') <=> g \in Range(lru))
      /\ frames'[f].id = frames[f].id
      /\ frames'[f].pin = Cardinality(Pinners(p)')
      /\ f \in Range(lru') <=> Unpinned(p)'
  BY Zenon DEF OnPage
<1>3. /\ \A u \in Threads, q \in Pages : ~(u = t /\ q = p) => pins'[u][q] = pins[u][q]
      /\ pins'[t][p] \in {f, NONE}
  BY Zenon DEF OnPage
<1>4. /\ \A u \in Threads : ~Engages(u, f)
      /\ frames[f].id = p /\ status[p] = "used"
      /\ f \notin Range(free_list)
      /\ \A q \in Pages : page_table[q] = f => q = p
      /\ \A u \in Threads, q \in Pages : pins[u][q] = f => q = p
  BY <1>1, FrameOfPage
<1>5. Local(t, f)
  <2>1. \A g : ~Engages(t, g) /\ ~Engages(t, g)'
    BY Zenon, <1>1 DEF Engages
  <2>2. \A u \in Threads, q \in Pages :
          \/ pins'[u][q] = pins[u][q]
          \/ f \in Frames /\ page_table'[q] = f /\ pins'[u][q] \in {f, NONE}
    BY Zenon, <1>1, <1>3
  <2> QED
    BY Zenon, <1>1, <1>2, <2>1, <2>2 DEF Local
<1>6. Frame(f)'
  <2>1. f # NONE /\ Frame(f) /\ \A u \in Threads : ~Engages(u, f)' /\ ~Takes(u, f)'
    BY Zenon, <1>1, <1>4, NoneIsNew DEF PoolInv, Engages, Takes
  <2>2. Held(f)'
    BY Zenon, <1>1, <1>4, <2>1 DEF Frame, Held
  <2>3. Maps(f)'
    BY Zenon, <1>1, <1>2, <1>4 DEF Maps
  <2>4. Shows(f)'
    BY <1>1, <1>2, <1>3, <1>4, <2>1 DEF Shows
  <2>5. frames'[f].pin = 0 <=> Unpinned(p)'
    BY Zenon, <1>2, CountPins
  <2>6. Listed(f)'
    BY Zenon, <1>1, <1>2, <1>4, <2>1, <2>5 DEF Listed
  <2> QED
    BY Zenon, <2>2, <2>3, <2>4, <2>6 DEF Frame
<1>7. Thread(t)' /\ pc'[t] # "new_table"
  BY Zenon, <1>1 DEF Thread, Fetches, Creates, Deletes, Closes
<1>8. ListsOnce'
  BY Zenon, <1>1 DEF PoolInv, ListsOnce
<1> QED
  BY Zenon, <1>4, <1>5, <1>6, <1>7, <1>8, LocalStep

-----------------------------------------------------------------------------
(* Calls on a page in the pool *)

\* fetch_page of a page that is in the pool keeps the invariant.
LEMMA FetchHitKeeps ==
  ASSUME Setting, PoolInv, NEW t \in Threads, NEW p \in Pages, FetchHit(t, p)
  PROVE  PoolInv'
<1>1. TypeOK /\ ListsOnce
  BY Zenon DEF PoolInv
<1>2. PICK f \in Frames : page_table[p] = f /\ page_latch[f] = NONE /\ f # NONE
  BY Zenon, <1>1, NoneIsNew DEF FetchHit, Free, TypeOK
<1>3. /\ pc[t] = "idle" /\ pins[t][p] = NONE /\ ReplacerPin(f)
      /\ frames' = [frames EXCEPT ![f].pin = @ + 1] /\ pins' = [pins EXCEPT ![t][p] = f]
      /\ UNCHANGED <<page_latch, page_table, free_list, disk, status, pc, arg, wrote, content>>
  BY Zenon, <1>2 DEF FetchHit
<1>4. frames[f].id = p /\ frames[f].pin = Cardinality(Pinners(p))
  BY Zenon, <1>2, FrameOfPage
<1>5. /\ lru' \in Seq(Frames) /\ IsInjective(lru')
      /\ \A g : g \in Range(lru') <=> g \in Range(lru) /\ g # f
  BY Zenon, <1>1, <1>3, PinList DEF TypeOK, ListsOnce
<1>6. /\ frames'[f].pin = frames[f].pin + 1
      /\ \A g \in Frames : g # f => frames'[g] = frames[g]
      /\ \A g \in Frames : /\ frames'[g].id = frames[g].id /\ frames'[g].data = frames[g].data
                           /\ frames'[g].dirty = frames[g].dirty
      /\ frames' \in [Frames -> FrameRecord]
  <2> DEFINE r == [frames[f] EXCEPT !.pin = @ + 1]
  <2>1. /\ r \in FrameRecord /\ r.pin = frames[f].pin + 1 /\ r.id = frames[f].id
        /\ r.data = frames[f].data /\ r.dirty = frames[f].dirty
    <3>1. frames[f] \in FrameRecord
      BY Zenon, <1>1 DEF TypeOK, FrameRecord
    <3> QED
      BY <3>1 DEF FrameRecord
  <2>2. frames' = [frames EXCEPT ![f] = r]
    BY Zenon, <1>3
  <2> HIDE DEF r
  <2> QED
    BY Zenon, <1>1, <2>1, <2>2, SetFrame
<1>7. /\ pins' \in [Threads -> [Pages -> Frames \cup {NONE}]] /\ pins'[t][p] = f
      /\ \A u \in Threads, q \in Pages : ~(u = t /\ q = p) => pins'[u][q] = pins[u][q]
  BY <1>1, <1>3, SetPin DEF TypeOK
<1>8. TypeOK'
  BY Zenon, <1>1, <1>3, <1>5, <1>6, <1>7 DEF TypeOK, FrameRecord
<1>9. Cardinality(Pinners(p)') = frames'[f].pin
  <2>1. /\ Pinners(p)' = Pinners(p) \cup {t} /\ t \notin Pinners(p)
        /\ Pinners(p) \in SUBSET Threads
    BY <1>2, <1>3, <1>7 DEF Pinners
  <2> QED
    BY <1>4, <1>6, <2>1 DEF Setting, CountLaws
<1>10. f \in Range(lru') <=> Unpinned(p)'
  BY Zenon, <1>2, <1>5, <1>7 DEF Unpinned
<1>11. OnPage(t, p, f)
  BY Zenon, <1>2, <1>3, <1>5, <1>6, <1>7, <1>9, <1>10 DEF OnPage
<1>12. \A q \in Pages : Age(q)'
  BY <1>3, <1>6 DEF PoolInv, Age
<1> QED
  BY Zenon, <1>5, <1>8, <1>11, <1>12, PageStep

\* A caller that writes to a pinned page keeps the invariant.
LEMMA WriteKeeps ==
  ASSUME Setting, PoolInv, NEW t \in Threads, NEW p \in Pages, Write(t, p)
  PROVE  PoolInv'
<1>1. TypeOK /\ ListsOnce
  BY Zenon DEF PoolInv
<1>2. PICK f \in Frames : pins[t][p] = f /\ f # NONE
  BY <1>1 DEF Write, TypeOK
<1>3. page_table[p] = f /\ ~Unpinned(p)
  BY <1>2 DEF PoolInv, Frame, Shows, Unpinned
<1>4. /\ pc[t] = "idle" /\ content[p] < MaxWrites
      /\ frames' = [frames EXCEPT ![f].data = @ + 1]
      /\ content' = [content EXCEPT ![p] = @ + 1]
      /\ wrote' = [wrote EXCEPT ![t] = @ \cup {p}]
      /\ UNCHANGED <<page_latch, page_table, free_list, lru, disk, status, pc, arg, pins>>
  BY Zenon, <1>2 DEF Write
<1>5. /\ frames[f].id = p /\ frames[f].pin = Cardinality(Pinners(p)) /\ status[p] = "used"
      /\ (f \in Range(lru) <=> Unpinned(p))
  BY Zenon, <1>3, FrameOfPage
<1>6. /\ content[p] \in Nat /\ content[p] + 1 \in Content
      /\ frames[f].data \in Nat /\ frames[f].data <= content[p] /\ frames[f].data + 1 \in Content
  <2>1. Age(p) /\ content[p] \in Content \cup {NONE} /\ frames[f].data \in Content
    BY Zenon, <1>1 DEF PoolInv, TypeOK
  <2>2. content[p] \in Content /\ frames[f].data <= content[p]
    BY Zenon, <1>5, <2>1 DEF Age
  <2> QED
    BY <1>4, <2>1, <2>2, MaxWritesIsNat DEF Content
<1>7. /\ frames'[f].data = frames[f].data + 1
      /\ \A g \in Frames : g # f => frames'[g] = frames[g]
      /\ \A g \in Frames : /\ frames'[g].id = frames[g].id /\ frames'[g].pin = frames[g].pin
                           /\ frames'[g].dirty = frames[g].dirty
      /\ frames' \in [Frames -> FrameRecord]
  <2> DEFINE r == [frames[f] EXCEPT !.data = @ + 1]
  <2>1. /\ r \in FrameRecord /\ r.data = frames[f].data + 1 /\ r.id = frames[f].id
        /\ r.pin = frames[f].pin /\ r.dirty = frames[f].dirty
    <3>1. frames[f] \in FrameRecord
      BY Zenon, <1>1 DEF TypeOK, FrameRecord
    <3> QED
      BY Zenon, <1>6, <3>1 DEF FrameRecord
  <2>2. frames' = [frames EXCEPT ![f] = r]
    BY Zenon, <1>4
  <2> HIDE DEF r
  <2> QED
    BY Zenon, <1>1, <2>1, <2>2, SetFrame
<1>8. /\ content'[p] = content[p] + 1 /\ \A q \in Pages : q # p => content'[q] = content[q]
      /\ content' \in [Pages -> Content \cup {NONE}]
  BY Zenon, <1>1, <1>4, <1>6 DEF TypeOK
<1>9. TypeOK'
  BY <1>1, <1>4, <1>7, <1>8 DEF TypeOK, FrameRecord
<1>10. Pinners(p)' = Pinners(p) /\ (Unpinned(p)' <=> Unpinned(p))
  BY Zenon, <1>4 DEF Pinners, Unpinned
<1>11. OnPage(t, p, f)
  BY Zenon, <1>2, <1>3, <1>4, <1>5, <1>7, <1>10 DEF OnPage
<1>12. ASSUME NEW q \in Pages
       PROVE  Age(q)'
  <2>1. Age(q) /\ disk[q] \in Nat \cup {NONE} /\ \A g \in Frames : frames[g].data \in Nat
    BY <1>1 DEF PoolInv, TypeOK, Content
  <2>2. CASE q = p
    <3>1. content'[p] # NONE
      BY Zenon, <1>6, <1>8, NoneIsNew DEF Content
    <3>2. disk[p] # NONE => disk[p] <= content'[p]
      BY <1>5, <1>6, <1>8, <2>1, <2>2 DEF Age
    <3>3. \A g \in Frames : frames'[g].id = p => frames'[g].data <= content'[p]
      BY <1>5, <1>6, <1>7, <1>8, <2>1, <2>2 DEF Age
    <3> QED
      BY Zenon, <1>4, <1>5, <2>2, <3>1, <3>2, <3>3 DEF Age
  <2>3. CASE q # p
    BY Zenon, <1>4, <1>5, <1>7, <1>8, <2>1, <2>3 DEF Age
  <2> QED
    BY Zenon, <2>2, <2>3
<1> QED
  BY Zenon, <1>1, <1>4, <1>9, <1>11, <1>12, PageStep DEF ListsOnce

\* A frame is marked clean.
FrameCleaned(f) ==
  /\ \A g \in Frames : g # f => frames'[g] = frames[g]
  /\ \A g \in Frames : /\ frames'[g].id = frames[g].id /\ frames'[g].data = frames[g].data
                       /\ frames'[g].pin = frames[g].pin /\ frames'[g].dirty \in {frames[g].dirty, FALSE}
  /\ frames' \in [Frames -> FrameRecord]
LEMMA CleanFrame ==
  ASSUME TypeOK, NEW f \in Frames, frames' = [frames EXCEPT ![f].dirty = FALSE]
  PROVE  FrameCleaned(f)
<1> DEFINE r == [frames[f] EXCEPT !.dirty = FALSE]
<1>1. frames[f] \in FrameRecord
  BY Zenon DEF TypeOK, FrameRecord
<1>2. /\ r \in FrameRecord /\ r.pin = frames[f].pin /\ r.id = frames[f].id
      /\ r.data = frames[f].data /\ r.dirty = FALSE
  BY Zenon, <1>1 DEF FrameRecord
<1>3. frames' = [frames EXCEPT ![f] = r]
  BY Zenon
<1> HIDE DEF r
<1> QED
  BY Zenon, <1>2, <1>3, SetFrame DEF FrameCleaned

\* The data of a frame is written to its page: the copy on disk is no newer than
\* the page either.
LEMMA WrittenBack ==
  ASSUME PoolInv, NEW f \in Frames, NEW p \in Pages, frames[f].id = p,
         status[p] \in {"new", "allocated"} => ~frames[f].dirty /\ disk' = disk,
         disk' \in {disk, [disk EXCEPT ![p] = frames[f].data]},
         FrameCleaned(f), UNCHANGED <<status, content>>
  PROVE  \A q \in Pages : Age(q)'
<1> SUFFICES ASSUME NEW q \in Pages
             PROVE  Age(q)'
  BY Zenon
<1>1. Age(q) /\ TypeOK
  BY Zenon DEF PoolInv
<1>2. disk'[q] = disk[q] \/ (q = p /\ disk'[q] = frames[f].data)
  BY Zenon, <1>1 DEF TypeOK
<1>3. CASE status[q] = "used"
  <2>1. \A g \in Frames : frames'[g].id = q => frames'[g].data <= content'[q]
    BY Zenon, <1>1, <1>3 DEF Age, FrameCleaned
  <2>2. disk'[q] # NONE => disk'[q] <= content'[q]
    BY Zenon, <1>1, <1>2, <1>3 DEF Age
  <2> QED
    BY Zenon, <1>1, <1>3, <2>1, <2>2 DEF Age
<1>4. CASE status[q] \in {"new", "allocated"}
  <2>1. disk'[q] = disk[q]
    BY Zenon, <1>2, <1>4
  <2>2. \A g \in Frames : frames'[g].id = q => frames'[g].data = 0 /\ ~frames'[g].dirty
    BY Zenon, <1>1, <1>4 DEF Age, FrameCleaned
  <2> QED
    BY Zenon, <1>1, <1>4, <2>1, <2>2 DEF Age
<1> QED
  BY Zenon, <1>3, <1>4 DEF Age

\* unpin_page keeps the invariant.
LEMMA UnpinKeeps ==
  ASSUME Setting, PoolInv, NEW t \in Threads, NEW p \in Pages, unpin_page(t, p)
  PROVE  PoolInv'
<1>1. TypeOK /\ ListsOnce
  BY Zenon DEF PoolInv
<1>2. PICK f \in Frames : pins[t][p] = f /\ f # NONE
  BY <1>1 DEF unpin_page, TypeOK
<1>3. page_table[p] = f /\ ~Unpinned(p)
  BY <1>2 DEF PoolInv, Frame, Shows, Unpinned
<1>4. /\ frames[f].id = p /\ frames[f].pin = Cardinality(Pinners(p)) /\ status[p] = "used"
      /\ (f \in Range(lru) <=> Unpinned(p))
  BY Zenon, <1>3, FrameOfPage
<1>5. frames[f].pin \in Nat \ {0}
  BY Zenon, <1>3, <1>4, CountPins
<1>6. /\ pc[t] = "idle" /\ page_latch[f] = NONE
      /\ frames' = [frames EXCEPT ![f].pin = @ - 1, ![f].dirty = @ \/ p \in wrote[t]]
      /\ IF frames[f].pin = 1 THEN ReplacerUnpin(f) ELSE UNCHANGED lru
      /\ pins' = [pins EXCEPT ![t][p] = NONE] /\ wrote' = [wrote EXCEPT ![t] = @ \ {p}]
      /\ UNCHANGED <<page_latch, page_table, free_list, disk, status, pc, arg, content>>
  BY Zenon, <1>2, <1>3, <1>5 DEF unpin_page, Free
<1>7. /\ frames'[f].pin = frames[f].pin - 1
      /\ \A g \in Frames : g # f => frames'[g] = frames[g]
      /\ \A g \in Frames : frames'[g].id = frames[g].id /\ frames'[g].data = frames[g].data
      /\ frames' \in [Frames -> FrameRecord]
  <2> DEFINE r == [frames[f] EXCEPT !.pin = @ - 1, !.dirty = @ \/ p \in wrote[t]]
  <2>1. /\ r \in FrameRecord /\ r.pin = frames[f].pin - 1 /\ r.id = frames[f].id
        /\ r.data = frames[f].data
    <3>1. frames[f] \in FrameRecord
      BY Zenon, <1>1 DEF TypeOK, FrameRecord
    <3> DEFINE d == frames[f].dirty \/ p \in wrote[t]
               n == frames[f].pin - 1
               c == frames[f]
    <3>2. d \in BOOLEAN /\ n \in Nat
      BY <1>5
    <3>3. r = [c EXCEPT !.pin = n, !.dirty = d]
      BY Zenon
    <3> HIDE DEF c, d, n, r
    <3>4. r \in FrameRecord /\ r.pin = n /\ r.id = c.id /\ r.data = c.data
      BY Zenon, <3>1, <3>2, <3>3 DEF FrameRecord, c
    <3> QED
      BY Zenon, <3>4 DEF c, n
  <2>2. frames' = [frames EXCEPT ![f] = r]
    BY Zenon, <1>6
  <2> HIDE DEF r
  <2> QED
    BY Zenon, <1>1, <2>1, <2>2, SetFrame
<1>8. /\ pins' \in [Threads -> [Pages -> Frames \cup {NONE}]] /\ pins'[t][p] = NONE
      /\ \A u \in Threads, q \in Pages : ~(u = t /\ q = p) => pins'[u][q] = pins[u][q]
  BY <1>1, <1>6, SetPin DEF TypeOK
<1>9. /\ Pinners(p)' = Pinners(p) \ {t} /\ t \in Pinners(p)
      /\ Pinners(p) \in SUBSET Threads
  BY Zenon, <1>2, <1>8 DEF Pinners
<1>10. frames'[f].pin = Cardinality(Pinners(p)')
  BY <1>4, <1>7, <1>9 DEF Setting, CountLaws
<1>11. frames[f].pin = 1 <=> Unpinned(p)'
  BY <1>5, <1>7, <1>10, CountPins
<1>12. /\ lru' \in Seq(Frames) /\ IsInjective(lru') /\ (f \in Range(lru') <=> Unpinned(p)')
       /\ \A g \in Frames : g # f => (g \in Range(lru') <=> g \in Range(lru))
  <2>1. CASE frames[f].pin = 1
    BY Zenon, <1>1, <1>3, <1>4, <1>6, <1>11, <2>1, UnpinList DEF TypeOK, ListsOnce
  <2>2. CASE frames[f].pin # 1
    BY Zenon, <1>1, <1>3, <1>4, <1>6, <1>11, <2>2 DEF TypeOK, ListsOnce
  <2> QED
    BY Zenon, <2>1, <2>2
<1>13. TypeOK'
  <2>1. wrote' \in [Threads -> SUBSET Pages]
    BY Zenon, <1>1, <1>6 DEF TypeOK
  <2> QED
    BY Zenon, <1>1, <1>6, <1>7, <1>8, <1>12, <2>1 DEF TypeOK, FrameRecord
<1>14. OnPage(t, p, f)
  BY Zenon, <1>3, <1>6, <1>7, <1>8, <1>10, <1>12 DEF OnPage
<1>15. \A q \in Pages : Age(q)'
  <2>1. \A g \in Frames, q \in Pages : frames[g].id = q /\ status[q] \in {"new", "allocated"} => g # f
    BY Zenon, <1>4
  <2> QED
    BY <1>6, <1>7, <2>1 DEF PoolInv, Age
<1> QED
  BY Zenon, <1>12, <1>13, <1>14, <1>15, PageStep

\* flush_page keeps the invariant, whether the page is pinned or not.
LEMMA FlushPageKeeps ==
  ASSUME Setting, PoolInv, NEW t \in Threads, NEW p \in Pages, flush_page(t, p)
  PROVE  PoolInv'
<1>1. TypeOK /\ ListsOnce
  BY Zenon DEF PoolInv
<1>2. PICK f \in Frames : page_table[p] = f /\ page_latch[f] = NONE
  BY Zenon, <1>1 DEF flush_page, Free, TypeOK
<1>3. /\ frames[f].id = p /\ frames[f].pin = Cardinality(Pinners(p)) /\ status[p] = "used"
      /\ (f \in Range(lru) <=> Unpinned(p))
  BY Zenon, <1>2, FrameOfPage
<1>4. /\ pc[t] = "idle" /\ frames' = [frames EXCEPT ![f].dirty = FALSE]
      /\ disk' = [disk EXCEPT ![p] = frames[f].data]
      /\ UNCHANGED <<page_latch, page_table, free_list, lru, status, pc, arg, callers>>
  BY Zenon, <1>2, <1>3 DEF flush_page
<1>5. FrameCleaned(f)
  BY Zenon, <1>1, <1>4, CleanFrame
<1>6. UNCHANGED <<pins, wrote, content>>
  BY Zenon, <1>4 DEF callers
<1>7. frames[f].data \in Content
  BY Zenon, <1>1 DEF TypeOK
<1>8. TypeOK'
  BY Zenon, <1>1, <1>4, <1>5, <1>6, <1>7 DEF TypeOK, FrameRecord, FrameCleaned
<1>9. Pinners(p)' = Pinners(p) /\ (Unpinned(p)' <=> Unpinned(p))
  BY Zenon, <1>6 DEF Pinners, Unpinned
<1>10. pins[t][p] \in {f, NONE}
  BY <1>1, <1>2 DEF PoolInv, Frame, Shows, TypeOK
<1>11. OnPage(t, p, f)
  BY <1>2, <1>3, <1>4, <1>5, <1>6, <1>9, <1>10 DEF OnPage, FrameCleaned
<1>12. \A q \in Pages : Age(q)'
  BY Zenon, <1>1, <1>3, <1>4, <1>5, <1>6, WrittenBack
<1> QED
  BY Zenon, <1>1, <1>4, <1>8, <1>11, <1>12, PageStep DEF ListsOnce

\* A thread goes on to another point of its call, or returns.
Points == {"idle", "fetch_write", "fetch_read", "thrown", "new_reset", "new_table",
           "del_write", "flush_all", "free_all"}
Went(t, point, p, f, todo) ==
  /\ pc'[t] = point /\ arg'[t].page = p /\ arg'[t].frame = f /\ arg'[t].todo = todo
  /\ \A u \in Threads : u # t => pc'[u] = pc[u] /\ arg'[u] = arg[u]
  /\ pc' \in [Threads -> Points]
  /\ arg' \in [Threads -> [page : Pages \cup Files \cup {NONE}, frame : Frames \cup {NONE},
                           todo : SUBSET Frames]]
  /\ \A g : Engages(t, g)' => g = f

\* What Goto does.
LEMMA GoesTo ==
  ASSUME TypeOK, NEW t \in Threads, NEW point \in Points, NEW p, NEW f, NEW todo,
         Goto(t, point, p, f, todo),
         p \in Pages \/ p \in Files \/ p = NONE, f \in Frames \/ f = NONE, todo \subseteq Frames
  PROVE  Went(t, point, p, f, todo)
  BY Zenon DEF Goto, TypeOK, Engages, Went, Points

\* A thread that returns must not keep a mutex.
LEMMA MutexesHeld ==
  ASSUME TypeOK, NEW t \in Threads, NEW point, NEW p, NEW f, NEW todo, Went(t, point, p, f, todo),
         page_latch' \in [Frames -> Threads \cup {NONE}],
         \A g \in Frames : \/ page_latch'[g] = NONE
                           \/ page_latch'[g] = t /\ point # "idle"
                           \/ page_latch'[g] = page_latch[g] /\ page_latch[g] # t
  PROVE  \A g \in Frames : page_latch'[g] # NONE => pc'[page_latch'[g]] # "idle"
<1> SUFFICES ASSUME NEW g \in Frames, NEW u \in Threads, page_latch'[g] = u
             PROVE  pc'[u] # "idle"
  BY Zenon
<1>1. CASE u = t
  BY Zenon, <1>1, NoneIsNew DEF Went
<1>2. CASE u # t
  <2>1. page_latch[g] = u /\ u # NONE
    BY Zenon, <1>2, NoneIsNew
  <2>2. pc[u] # "idle"
    BY Zenon, <2>1 DEF TypeOK
  <2> QED
    BY Zenon, <1>2, <2>2 DEF Went
<1> QED
  BY Zenon, <1>1, <1>2

\* A thread that closes a file is alone, and the frames that show pages of the
\* file are theirs in the table.
LEMMA ClosingAlone ==
  ASSUME Setting, PoolInv, NEW t \in Threads, pc[t] \in {"flush_all", "free_all"}
  PROVE  /\ \A u \in Threads : u = t
         /\ \A g : ~Engages(t, g)
         /\ arg[t].page \in Pages \/ arg[t].page \in Files \/ arg[t].page = NONE
         /\ arg[t].todo \subseteq Frames
         /\ \A f \in Frames : Of(f, arg[t].page) =>
              /\ frames[f].id \in Pages /\ page_table[frames[f].id] = f
              /\ status[frames[f].id] = "used" /\ Unpinned(frames[f].id)
<1>1. TypeOK
  BY Zenon DEF PoolInv
<1>2. Closable # {} /\ \A p \in Pages : FileOf[p] = arg[t].page => Unpinned(p)
  BY Zenon DEF PoolInv, Thread, Closes
<1>3. \A u \in Threads : u = t
  BY Zenon, <1>2 DEF Setting, ClosesAlone
<1>4. \A g, u : u \in Threads => ~Engages(u, g) /\ ~Turns(u, g)
  BY Zenon, <1>3 DEF Engages, Turns
<1>5. ASSUME NEW f \in Frames, Of(f, arg[t].page)
      PROVE  /\ frames[f].id \in Pages /\ page_table[frames[f].id] = f
             /\ status[frames[f].id] = "used" /\ Unpinned(frames[f].id)
  <2>1. PICK p \in Pages : frames[f].id = p /\ FileOf[p] = arg[t].page
    BY Zenon, <1>1, <1>5 DEF Of, TypeOK
  <2>2. Shows(f) /\ Maps(f)
    BY Zenon DEF PoolInv, Frame
  <2>3. page_table[p] = f /\ status[p] = "used"
    BY Zenon, <1>4, <2>1, <2>2 DEF Shows, Maps
  <2> QED
    BY Zenon, <1>2, <2>1, <2>3
<1>6. arg[t].page \in Pages \cup Files \cup {NONE} /\ arg[t].todo \subseteq Frames
  BY Zenon, <1>1 DEF TypeOK
<1> QED
  BY Zenon, <1>3, <1>4, <1>5, <1>6


-----------------------------------------------------------------------------
(* What the pages contain, with one thread *)

\* One thread alone uses the pool.
Solo == \A t, u \in Threads : t = u

\* No page is in two frames, and a page without a number is in none.
OneCopy ==
  /\ \A f, g \in Frames : \A p \in Pages : frames[f].id = p /\ frames[g].id = p => f = g
  /\ \A f \in Frames, p \in Pages : frames[f].id = p => status[p] # "new"

\* The frame of a page has its content; the disk has it too, unless the frame
\* is dirty or its thread has still to say that it wrote.
Current(p) ==
  /\ status[p] # "used" => content[p] = NONE
  /\ status[p] = "used" =>
       /\ \A f \in Frames : frames[f].id = p =>
            /\ frames[f].data = content[p]
            /\ frames[f].dirty \/ disk[p] = content[p] \/ \E t \in Threads : p \in wrote[t]
       /\ (\A f \in Frames : frames[f].id # p) => disk[p] = content[p]

\* A page that is being fetched is in no frame yet, and is read into a clean one.
Loading(t) ==
  pc[t] \in {"fetch_write", "fetch_read"} =>
    /\ \A f \in Frames : frames[f].id # arg[t].page
    /\ pc[t] = "fetch_read" => ~frames[arg[t].frame].dirty

\* A page that is written is pinned.
Written(t) == \A p \in Pages : p \in wrote[t] => pins[t][p] # NONE

\* close_file frees clean frames.
Flushed(t) ==
  \A f \in Frames : Of(f, arg[t].page) =>
    /\ pc[t] = "flush_all" => f \in arg[t].todo \/ ~frames[f].dirty
    /\ pc[t] = "free_all" => ~frames[f].dirty

DataInv ==
  /\ OneCopy
  /\ \A p \in Pages : Current(p)
  /\ \A t \in Threads : Loading(t) /\ Written(t) /\ Flushed(t)

-----------------------------------------------------------------------------
\* The parts of the invariant, for the one thread.
LEMMA Together ==
  ASSUME Solo, NEW t \in Threads, OneCopy', \A p \in Pages : Current(p)', Loading(t)', Written(t)', Flushed(t)'
  PROVE  DataInv'
<1>1. ASSUME NEW u \in Threads
      PROVE  Loading(u)' /\ Written(u)' /\ Flushed(u)'
  <2>1. u = t
    BY Zenon DEF Solo
  <2> QED
    BY Zenon, <2>1
<1> QED
  BY Zenon, <1>1 DEF DataInv

\* A thread that neither loads nor closes.
LEMMA Elsewhere ==
  ASSUME NEW t \in Threads, pc'[t] \in {"idle", "thrown", "new_reset", "new_table", "del_write"}
  PROVE  Loading(t)' /\ Flushed(t)'
  BY Zenon DEF Loading, Flushed

\* A step that changes neither what frames show nor the pages.
LEMMA NothingShown ==
  ASSUME DataInv, \A f \in Frames : /\ frames'[f].id = frames[f].id /\ frames'[f].data = frames[f].data
                                    /\ frames'[f].dirty = frames[f].dirty,
         UNCHANGED <<disk, status, wrote, content>>
  PROVE  OneCopy' /\ \A p \in Pages : Current(p)'
<1>1. OneCopy'
  BY Zenon DEF DataInv, OneCopy
<1>2. ASSUME NEW p \in Pages
      PROVE  Current(p)'
  <2>1. Current(p)
    BY Zenon DEF DataInv
  <2> QED
    BY Zenon, <2>1 DEF Current
<1> QED
  BY Zenon, <1>1, <1>2

\* The frame's page is saved: the disk has its content.
Saved(f) ==
  \A q \in Pages : /\ frames[f].id # q => disk'[q] = disk[q]
                   /\ frames[f].id = q /\ status[q] = "used" => disk'[q] = content[q]

\* A frame that nobody has pinned is saved when it is written back.
LEMMA WriteBackSaves ==
  ASSUME PoolInv, DataInv, NEW f \in Frames, WriteBack(f), \A u \in Threads, q \in Pages : pins[u][q] # f
  PROVE  Saved(f)
<1>1. TypeOK
  BY Zenon DEF PoolInv
<1> SUFFICES ASSUME NEW q \in Pages
             PROVE  /\ frames[f].id # q => disk'[q] = disk[q]
                    /\ frames[f].id = q /\ status[q] = "used" => disk'[q] = content[q]
  BY Zenon DEF Saved
<1>2. /\ frames[f].dirty => disk' = [disk EXCEPT ![frames[f].id] = frames[f].data]
      /\ ~frames[f].dirty => disk' = disk
  BY Zenon DEF WriteBack
<1>3. DOMAIN disk = Pages
  BY <1>1 DEF TypeOK
<1>4. frames[f].id # q => disk'[q] = disk[q]
  BY <1>2, <1>3
<1>5. ASSUME frames[f].id = q, status[q] = "used"
      PROVE  disk'[q] = content[q]
  <2>1. \A u \in Threads : q \notin wrote[u]
    <3> SUFFICES ASSUME NEW u \in Threads, q \in wrote[u]
                 PROVE  FALSE
      OBVIOUS
    <3>0. pins[u][q] # NONE
      BY Zenon DEF DataInv, Written
    <3>1. PICK g \in Frames : pins[u][q] = g
      BY <1>1, <3>0 DEF TypeOK
    <3>2. Shows(g)
      BY Zenon DEF PoolInv, Frame
    <3>3. frames[g].id = q
      BY Zenon, <3>1, <3>2 DEF Shows
    <3>4. g = f
      BY Zenon, <1>5, <3>3 DEF DataInv, OneCopy
    <3> QED
      BY Zenon, <3>1, <3>4
  <2>2. frames[f].data = content[q] /\ (frames[f].dirty \/ disk[q] = content[q])
    BY Zenon, <1>5, <2>1 DEF DataInv, Current
  <2>3. CASE frames[f].dirty
    BY <1>2, <1>3, <1>5, <2>2, <2>3
  <2>4. CASE ~frames[f].dirty
    BY Zenon, <1>2, <2>2, <2>4
  <2> QED
    BY Zenon, <2>3, <2>4
<1> QED
  BY Zenon, <1>4, <1>5

\* The frame is cleaned and its page saved: pages stay current.
LEMMA CleanedCurrent ==
  ASSUME DataInv, NEW f \in Frames, FrameCleaned(f), Saved(f), UNCHANGED <<status, wrote, content>>
  PROVE  OneCopy' /\ \A p \in Pages : Current(p)'
<1>1. OneCopy'
  <2>1. OneCopy /\ \A g \in Frames : frames'[g].id = frames[g].id
    BY Zenon DEF DataInv, FrameCleaned
  <2> QED
    BY Zenon, <2>1 DEF OneCopy
<1>2. ASSUME NEW p \in Pages
      PROVE  Current(p)'
  <2>1. Current(p) /\ OneCopy
    BY Zenon DEF DataInv
  <2>2. CASE frames[f].id = p
    <3>1. status[p] = "used" => disk'[p] = content[p]
      BY Zenon, <2>2 DEF Saved
    <3> QED
      BY Zenon, <2>1, <3>1 DEF Current, FrameCleaned
  <2>3. CASE frames[f].id # p
    <3>1. disk'[p] = disk[p] /\ \A g \in Frames : frames'[g].id = p => frames'[g] = frames[g]
      BY Zenon, <2>3 DEF Saved, FrameCleaned
    <3> QED
      BY Zenon, <2>1, <3>1 DEF Current, FrameCleaned
  <2> QED
    BY Zenon, <2>2, <2>3
<1> QED
  BY Zenon, <1>1, <1>2

\* The frame gets another page, or none: the page that it had is on disk.
LEMMA ReplacedCurrent ==
  ASSUME DataInv, NEW f \in Frames, Saved(f), \A g \in Frames : g # f => frames'[g] = frames[g],
         NEW q \in Pages, frames'[f].id # q, status'[q] = status[q], UNCHANGED <<wrote, content>>
  PROVE  Current(q)'
<1>1. Current(q) /\ OneCopy
  BY Zenon DEF DataInv
<1>2. CASE frames[f].id = q
  <2>1. status[q] = "used" => disk'[q] = content[q]
    BY Zenon, <1>2 DEF Saved
  <2>2. \A g \in Frames : frames'[g].id # q
    BY Zenon, <1>1, <1>2 DEF OneCopy
  <2> QED
    BY Zenon, <1>1, <2>1, <2>2 DEF Current
<1>3. CASE frames[f].id # q
  <2>1. /\ disk'[q] = disk[q]
        /\ \A g \in Frames : frames'[g].id = q => g # f /\ frames'[g] = frames[g] /\ frames[g].id = q
    BY Zenon, <1>3 DEF Saved
  <2>2. \A g \in Frames : frames[g].id = q => frames'[g].id = q
    BY Zenon, <1>3
  <2> QED
    BY Zenon, <1>1, <2>1, <2>2 DEF Current
<1> QED
  BY Zenon, <1>2, <1>3

-----------------------------------------------------------------------------
(* fetch_page *)

\* A fetch that finds its page changes only pins.
LEMMA FetchHitData ==
  ASSUME Solo, PoolInv, DataInv, NEW t \in Threads, NEW p \in Pages, FetchHit(t, p)
  PROVE  DataInv'
<1>1. TypeOK
  BY Zenon DEF PoolInv
<1>2. PICK f \in Frames : page_table[p] = f /\ f # NONE
  BY <1>1, NoneIsNew DEF FetchHit, TypeOK
<1>3. /\ pc[t] = "idle" /\ frames' = [frames EXCEPT ![f].pin = @ + 1] /\ pins' = [pins EXCEPT ![t][p] = f]
      /\ UNCHANGED <<disk, status, pc, arg, wrote, content>>
  BY Zenon, <1>2 DEF FetchHit
<1>4. \A g \in Frames : /\ frames'[g].id = frames[g].id /\ frames'[g].data = frames[g].data
                        /\ frames'[g].dirty = frames[g].dirty
  <2> DEFINE r == [frames[f] EXCEPT !.pin = @ + 1]
  <2>1. frames[f] \in FrameRecord
    BY <1>1 DEF TypeOK, FrameRecord
  <2>2. r \in FrameRecord /\ r.id = frames[f].id /\ r.data = frames[f].data /\ r.dirty = frames[f].dirty
    BY <2>1 DEF FrameRecord
  <2>3. frames' = [frames EXCEPT ![f] = r]
    BY <1>3
  <2> HIDE DEF r
  <2> QED
    BY Zenon, <1>1, <2>2, <2>3, SetFrame
<1>5. pins'[t][p] = f /\ \A q \in Pages : q # p => pins'[t][q] = pins[t][q]
  BY <1>1, <1>3, SetPin DEF TypeOK
<1>6. OneCopy' /\ \A q \in Pages : Current(q)'
  BY Zenon, <1>3, <1>4, NothingShown
<1>7. Loading(t)' /\ Flushed(t)'
  BY Zenon, <1>3, Elsewhere
<1>8. Written(t)'
  BY Zenon, <1>2, <1>3, <1>5 DEF DataInv, Written
<1> QED
  BY Zenon, <1>6, <1>7, <1>8, Together

\* A page that is fetched is in no frame: the only thread turns no frame over.
LEMMA FetchMissData ==
  ASSUME Solo, PoolInv, DataInv, NEW t \in Threads, NEW p \in Pages, FetchMiss(t, p)
  PROVE  DataInv'
<1>1. TypeOK
  BY Zenon DEF PoolInv
<1>2. PICK f \in Frames : Goto(t, "fetch_write", p, f, {})
  BY Zenon DEF FetchMiss
<1>3. /\ pc[t] = "idle" /\ page_table[p] = NONE
      /\ UNCHANGED <<frames, disk, status, pins, wrote, content>>
  BY Zenon DEF FetchMiss, callers
<1>4. Went(t, "fetch_write", p, f, {})
  BY Zenon, <1>1, <1>2, GoesTo DEF Points
<1>5. ASSUME NEW g \in Frames, frames[g].id = p
      PROVE  FALSE
  <2>1. \A u \in Threads : ~Turns(u, g)
    BY Zenon, <1>3 DEF Solo, Turns
  <2>2. Shows(g) /\ g # NONE
    BY Zenon, NoneIsNew DEF PoolInv, Frame
  <2> QED
    BY Zenon, <1>3, <1>5, <2>1, <2>2 DEF Shows
<1>6. OneCopy' /\ \A q \in Pages : Current(q)'
  BY Zenon, <1>3, NothingShown
<1>7. pc'[t] = "fetch_write" /\ arg'[t].page = p
  BY Zenon, <1>4 DEF Went
<1>8. Loading(t)' /\ Flushed(t)'
  BY Zenon, <1>3, <1>5, <1>7 DEF Loading, Flushed
<1>9. Written(t)'
  BY Zenon, <1>3 DEF DataInv, Written
<1> QED
  BY Zenon, <1>6, <1>8, <1>9, Together

\* The fetch writes the old page of its frame back.
LEMMA FetchWriteData ==
  ASSUME Solo, PoolInv, DataInv, NEW t \in Threads, FetchWrite(t)
  PROVE  DataInv'
<1>1. TypeOK
  BY Zenon DEF PoolInv
<1>2. PICK p, f : arg[t].page = p /\ arg[t].frame = f
  OBVIOUS
<1>3. /\ pc[t] = "fetch_write" /\ WriteBack(f) /\ frames' = [frames EXCEPT ![f].dirty = FALSE]
      /\ Goto(t, "fetch_read", p, f, {}) /\ UNCHANGED <<status, pins, wrote, content>>
  BY Zenon, <1>2 DEF FetchWrite, callers
<1>4. p \in Pages /\ f \in Frames /\ page_table[p] = f /\ \A g \in Frames : frames[g].id # p
  <2>1. Fetches(t) /\ Loading(t)
    BY Zenon DEF PoolInv, Thread, DataInv
  <2> QED
    BY Zenon, <1>2, <1>3, <2>1 DEF Fetches, Loading
<1>5. Went(t, "fetch_read", p, f, {})
  BY Zenon, <1>1, <1>3, <1>4, GoesTo DEF Points
<1>6. FrameCleaned(f)
  BY Zenon, <1>1, <1>3, <1>4, CleanFrame
<1>7. \A u \in Threads, q \in Pages : pins[u][q] # f
  <2>1. Shows(f) /\ Maps(f)
    BY Zenon, <1>4 DEF PoolInv, Frame
  <2> QED
    BY Zenon, <1>4, <2>1 DEF Shows, Maps
<1>8. OneCopy' /\ \A q \in Pages : Current(q)'
  <2>1. Saved(f)
    BY Zenon, <1>3, <1>4, <1>7, WriteBackSaves
  <2> QED
    BY Zenon, <1>3, <1>4, <1>6, <2>1, CleanedCurrent
<1>9. pc'[t] = "fetch_read" /\ arg'[t].page = p /\ arg'[t].frame = f
  BY Zenon, <1>5 DEF Went
<1>10. ~frames'[f].dirty
  BY <1>1, <1>3, <1>4 DEF TypeOK
<1>11. Loading(t)' /\ Flushed(t)'
  BY Zenon, <1>4, <1>6, <1>9, <1>10 DEF Loading, Flushed, FrameCleaned
<1>12. Written(t)'
  BY Zenon, <1>3 DEF DataInv, Written
<1> QED
  BY Zenon, <1>8, <1>11, <1>12, Together

\* The fetch reads its page, which is on disk because it was in no frame.
LEMMA FetchReadData ==
  ASSUME Solo, PoolInv, DataInv, NEW t \in Threads, FetchRead(t)
  PROVE  DataInv'
<1>1. TypeOK
  BY Zenon DEF PoolInv
<1>2. PICK p, f : arg[t].page = p /\ arg[t].frame = f
  OBVIOUS
<1>3. pc[t] = "fetch_read" /\ UNCHANGED <<disk, status, wrote, content>>
  BY Zenon DEF FetchRead
<1>4. /\ p \in Pages /\ f \in Frames /\ page_table[p] = f
      /\ (\A g \in Frames : frames[g].id # p) /\ ~frames[f].dirty
  <2>1. Fetches(t) /\ Loading(t)
    BY Zenon DEF PoolInv, Thread, DataInv
  <2> QED
    BY Zenon, <1>2, <1>3, <2>1 DEF Fetches, Loading
<1>5. Shows(f) /\ Maps(f) /\ Age(p)
  BY Zenon, <1>4 DEF PoolInv, Frame
<1>6. status[p] = "used" /\ \A u \in Threads, q \in Pages : pins[u][q] # f
  BY Zenon, <1>4, <1>5 DEF Shows, Maps
<1>7. disk[p] = content[p] /\ disk[p] # NONE
  BY Zenon, <1>4, <1>5, <1>6 DEF Age, DataInv, Current
<1>8. /\ frames' = [frames EXCEPT ![f].pin = 1, ![f].id = p, ![f].data = disk[p]]
      /\ Goto(t, "idle", NONE, NONE, {}) /\ pins' = [pins EXCEPT ![t][p] = f]
  BY <1>2, <1>7 DEF FetchRead, Return
<1>9. /\ frames'[f].id = p /\ frames'[f].data = disk[p]
      /\ \A g \in Frames : g # f => frames'[g] = frames[g]
  <2>1. frames[f] \in FrameRecord /\ disk[p] \in Content
    BY <1>1, <1>4, <1>7 DEF TypeOK, FrameRecord
  <2> DEFINE r == [[[frames[f] EXCEPT !.pin = 1] EXCEPT !.id = p] EXCEPT !.data = disk[p]]
  <2>2. r \in FrameRecord /\ r.id = p /\ r.data = disk[p]
    BY <1>4, <2>1 DEF FrameRecord
  <2>3. frames' = [frames EXCEPT ![f] = r]
    BY <1>1, <1>4, <1>8 DEF TypeOK
  <2> HIDE DEF r
  <2> QED
    BY Zenon, <1>1, <1>4, <2>2, <2>3, SetFrame
<1>10. Saved(f)
  <2>1. WriteBack(f)
    BY Zenon, <1>3, <1>4 DEF WriteBack
  <2> QED
    BY Zenon, <1>4, <1>6, <2>1, WriteBackSaves
<1>11. OneCopy'
  <2>1. OneCopy
    BY Zenon DEF DataInv
  <2>2. ASSUME NEW g \in Frames, NEW q \in Pages, frames'[g].id = q
        PROVE  status'[q] # "new" /\ \A h \in Frames : frames'[h].id = q => g = h
    BY <1>3, <1>4, <1>6, <1>9, <2>1, <2>2 DEF OneCopy
  <2> QED
    BY Zenon, <2>2 DEF OneCopy
<1>12. ASSUME NEW q \in Pages
       PROVE  Current(q)'
  <2>1. CASE q = p
    <3>1. \A g \in Frames : frames'[g].id = p => g = f
      BY Zenon, <1>4, <1>9
    <3> QED
      BY Zenon, <1>3, <1>4, <1>6, <1>7, <1>9, <2>1, <3>1 DEF Current
  <2>2. CASE q # p
    BY Zenon, <1>3, <1>4, <1>9, <1>10, <2>2, ReplacedCurrent
  <2> QED
    BY Zenon, <2>1, <2>2
<1>13. Went(t, "idle", NONE, NONE, {})
  BY Zenon, <1>1, <1>8, GoesTo DEF Points
<1>14. Loading(t)' /\ Flushed(t)'
  BY Zenon, <1>13, Elsewhere DEF Went
<1>15. pins'[t][p] = f /\ f # NONE /\ \A q \in Pages : q # p => pins'[t][q] = pins[t][q]
  BY <1>1, <1>4, <1>8, NoneIsNew, SetPin DEF TypeOK
<1>16. Written(t)'
  BY Zenon, <1>3, <1>15 DEF DataInv, Written
<1> QED
  BY Zenon, <1>11, <1>12, <1>14, <1>16, Together

-----------------------------------------------------------------------------
(* Pinned pages *)

\* A write changes the frame and the page alike, and is still to be reported.
LEMMA WriteData ==
  ASSUME Solo, PoolInv, DataInv, NEW t \in Threads, NEW p \in Pages, Write(t, p)
  PROVE  DataInv'
<1>1. TypeOK
  BY Zenon DEF PoolInv
<1>2. PICK f \in Frames : pins[t][p] = f /\ f # NONE
  BY <1>1, NoneIsNew DEF Write, TypeOK
<1>3. /\ pc[t] = "idle" /\ frames' = [frames EXCEPT ![f].data = @ + 1]
      /\ content' = [content EXCEPT ![p] = @ + 1] /\ wrote' = [wrote EXCEPT ![t] = @ \cup {p}]
      /\ UNCHANGED <<disk, status, pc, arg, pins>>
  BY Zenon, <1>2 DEF Write
<1>4. Shows(f) /\ Maps(f) /\ OneCopy /\ Current(p)
  BY Zenon DEF PoolInv, Frame, DataInv
<1>5. frames[f].id = p /\ status[p] = "used"
  BY Zenon, <1>2, <1>4 DEF Shows, Maps
<1>6. PICK r : /\ frames' = [frames EXCEPT ![f] = r]
               /\ r.id = p /\ r.data = frames[f].data + 1
  <2> DEFINE s == [frames[f] EXCEPT !.data = @ + 1]
  <2>1. frames[f] \in FrameRecord
    BY <1>1 DEF TypeOK, FrameRecord
  <2>2. s.id = p /\ s.data = frames[f].data + 1
    BY <1>5, <2>1 DEF FrameRecord
  <2>3. frames' = [frames EXCEPT ![f] = s]
    BY <1>3
  <2> QED
    BY Zenon, <2>2, <2>3
<1>7. frames'[f] = r /\ \A g \in Frames : g # f => frames'[g] = frames[g]
  BY <1>1, <1>6 DEF TypeOK
<1>8. /\ content'[p] = content[p] + 1 /\ \A q \in Pages : q # p => content'[q] = content[q]
      /\ p \in wrote'[t] /\ \A q \in Pages : q # p => (q \in wrote'[t] <=> q \in wrote[t])
  BY <1>1, <1>3 DEF TypeOK
<1>9. \A g \in Frames : frames'[g].id = frames[g].id
  BY Zenon, <1>5, <1>6, <1>7
<1>10. OneCopy'
  BY Zenon, <1>3, <1>4, <1>9 DEF OneCopy
<1>11. ASSUME NEW q \in Pages
       PROVE  Current(q)'
  <2>1. CASE q = p
    <3>1. \A g \in Frames : frames'[g].id = p => g = f
      BY Zenon, <1>4, <1>5, <1>9 DEF OneCopy
    <3>2. frames[f].data = content[p]
      BY Zenon, <1>4, <1>5 DEF Current
    <3>3. frames'[f].data = content'[p] /\ frames'[f].id = p
      BY Zenon, <1>6, <1>7, <1>8, <3>2
    <3> QED
      BY Zenon, <1>3, <1>5, <1>8, <2>1, <3>1, <3>3 DEF Current
  <2>2. CASE q # p
    <3>1. \A g \in Frames : frames'[g].id = q => frames'[g] = frames[g]
      BY Zenon, <1>6, <1>7, <2>2
    <3>2. (\E u \in Threads : q \in wrote[u]) => \E u \in Threads : q \in wrote'[u]
      BY Zenon, <1>8, <2>2 DEF Solo
    <3>3. Current(q) /\ content'[q] = content[q]
      BY Zenon, <1>8, <2>2 DEF DataInv
    <3> QED
      BY Zenon, <1>3, <1>9, <3>1, <3>2, <3>3 DEF Current
  <2> QED
    BY Zenon, <2>1, <2>2
<1>12. Loading(t)' /\ Flushed(t)'
  BY Zenon, <1>3, Elsewhere
<1>13. Written(t)'
  BY Zenon, <1>2, <1>3, <1>8 DEF DataInv, Written
<1> QED
  BY Zenon, <1>10, <1>11, <1>12, <1>13, Together

\* A thread that gives a page back says whether it wrote.
LEMMA UnpinData ==
  ASSUME Solo, Setting, PoolInv, DataInv, NEW t \in Threads, NEW p \in Pages, unpin_page(t, p)
  PROVE  DataInv'
<1>1. TypeOK
  BY Zenon DEF PoolInv
<1>2. PICK f \in Frames : pins[t][p] = f /\ f # NONE
  BY <1>1, NoneIsNew DEF unpin_page, TypeOK
<1>3. Shows(f) /\ Maps(f) /\ OneCopy /\ Current(p)
  BY Zenon DEF PoolInv, Frame, DataInv
<1>4. frames[f].id = p /\ page_table[p] = f /\ ~Unpinned(p)
  BY Zenon, <1>2, <1>3 DEF Shows, Unpinned
<1>5. frames[f].pin # 0
  <2>0. page_table[p] = f /\ ~Unpinned(p)
    BY Zenon, <1>4
  <2>1. frames[f].pin = Cardinality(Pinners(p))
    BY Zenon, <2>0, FrameOfPage
  <2>2. Cardinality(Pinners(p)) # 0
    BY Zenon, <1>4, CountPins
  <2> QED
    BY Zenon, <2>1, <2>2
<1>6. /\ pc[t] = "idle"
      /\ frames' = [frames EXCEPT ![f].pin = @ - 1, ![f].dirty = @ \/ p \in wrote[t]]
      /\ pins' = [pins EXCEPT ![t][p] = NONE] /\ wrote' = [wrote EXCEPT ![t] = @ \ {p}]
      /\ UNCHANGED <<disk, status, pc, arg, content>>
  BY <1>2, <1>4, <1>5 DEF unpin_page
<1>7. PICK r : /\ frames' = [frames EXCEPT ![f] = r]
               /\ r.id = p /\ r.data = frames[f].data /\ (r.dirty <=> frames[f].dirty \/ p \in wrote[t])
  <2>1. PICK d \in BOOLEAN : d = (frames[f].dirty \/ p \in wrote[t])
    BY Zenon
  <2> DEFINE s == [[frames[f] EXCEPT !.pin = @ - 1] EXCEPT !.dirty = d]
  <2>2. frames[f] \in FrameRecord
    BY <1>1 DEF TypeOK, FrameRecord
  <2>3. s.id = p /\ s.data = frames[f].data /\ s.dirty = d
    BY <1>4, <2>2 DEF FrameRecord
  <2>4. frames' = [frames EXCEPT ![f] = s]
    BY <1>1, <1>6, <2>1, <2>2 DEF TypeOK, FrameRecord
  <2> HIDE DEF s
  <2> QED
    BY Zenon, <2>1, <2>3, <2>4
<1>8. frames'[f] = r /\ \A g \in Frames : g # f => frames'[g] = frames[g]
  BY <1>1, <1>7 DEF TypeOK
<1>9. \A q \in Pages : q # p => (q \in wrote'[t] <=> q \in wrote[t])
  BY <1>1, <1>6 DEF TypeOK
<1>10. \A q \in Pages : q # p => pins'[t][q] = pins[t][q]
  BY <1>1, <1>6, SetPin DEF TypeOK
<1>11. /\ \A g \in Frames : frames'[g].id = frames[g].id
       /\ \A g \in Frames : frames'[g].data = frames[g].data
  BY Zenon, <1>4, <1>7, <1>8
<1>12. OneCopy'
  <2>1. OneCopy /\ status' = status
    BY Zenon, <1>3, <1>6
  <2> QED
    BY Zenon, <1>11, <2>1 DEF OneCopy
<1>13. ASSUME NEW q \in Pages
       PROVE  Current(q)'
  <2>1. CASE q = p
    <3>1. \A g \in Frames : frames'[g].id = p => g = f
      BY <1>3, <1>4, <1>11 DEF OneCopy
    <3>2. \A u \in Threads : p \in wrote[u] => p \in wrote[t]
      BY Zenon DEF Solo
    <3>3. status[p] = "used" => frames'[f].dirty \/ disk'[p] = content'[p]
      BY Zenon, <1>3, <1>4, <1>6, <1>7, <1>8, <3>2 DEF Current
    <3> QED
      BY Zenon, <1>3, <1>4, <1>6, <1>11, <2>1, <3>1, <3>3 DEF Current
  <2>2. CASE q # p
    <3>1. \A g \in Frames : frames'[g].id = q => frames'[g] = frames[g]
      BY Zenon, <1>7, <1>8, <2>2
    <3>2. (\E u \in Threads : q \in wrote[u]) => \E u \in Threads : q \in wrote'[u]
      BY Zenon, <1>9, <2>2 DEF Solo
    <3>3. Current(q)
      BY Zenon DEF DataInv
    <3> QED
      BY Zenon, <1>6, <1>11, <3>1, <3>2, <3>3 DEF Current
  <2> QED
    BY Zenon, <2>1, <2>2
<1>14. Loading(t)' /\ Flushed(t)'
  BY Zenon, <1>6, Elsewhere
<1>15. Written(t)'
  <2>1. p \notin wrote'[t]
    BY <1>1, <1>6 DEF TypeOK
  <2> QED
    BY Zenon, <1>9, <1>10, <2>1 DEF DataInv, Written
<1> QED
  BY Zenon, <1>12, <1>13, <1>14, <1>15, Together

\* A frame is written to its page, with the page's content.
LEMMA FlushSaves ==
  ASSUME TypeOK, DataInv, NEW f \in Frames, NEW p \in Pages, frames[f].id = p,
         disk' = [disk EXCEPT ![p] = frames[f].data]
  PROVE  Saved(f)
<1>1. disk'[p] = frames[f].data /\ \A q \in Pages : q # p => disk'[q] = disk[q]
  BY DEF TypeOK
<1>2. status[p] = "used" => frames[f].data = content[p]
  BY Zenon DEF DataInv, Current
<1> QED
  BY Zenon, <1>1, <1>2 DEF Saved

\* flush_page keeps the data.
LEMMA FlushPageData ==
  ASSUME Solo, Setting, PoolInv, DataInv, NEW t \in Threads, NEW p \in Pages, flush_page(t, p)
  PROVE  DataInv'
<1>1. TypeOK
  BY Zenon DEF PoolInv
<1>2. PICK f \in Frames : page_table[p] = f /\ page_latch[f] = NONE
  BY <1>1 DEF flush_page, Free, TypeOK
<1>3. frames[f].id = p
  BY Zenon, <1>2, FrameOfPage
<1>4. /\ pc[t] = "idle" /\ frames' = [frames EXCEPT ![f].dirty = FALSE]
      /\ disk' = [disk EXCEPT ![p] = frames[f].data]
      /\ UNCHANGED <<status, pc, arg, pins, wrote, content>>
  BY Zenon, <1>2, <1>3 DEF flush_page, callers
<1>5. FrameCleaned(f) /\ Saved(f)
  BY Zenon, <1>1, <1>3, <1>4, CleanFrame, FlushSaves
<1>6. OneCopy' /\ \A q \in Pages : Current(q)'
  BY Zenon, <1>4, <1>5, CleanedCurrent
<1>7. Loading(t)' /\ Flushed(t)'
  BY Zenon, <1>4, Elsewhere
<1>8. Written(t)'
  BY Zenon, <1>4 DEF DataInv, Written
<1> QED
  BY Zenon, <1>6, <1>7, <1>8, Together

-----------------------------------------------------------------------------
(* new_page *)

\* new_page takes a frame and leaves what it shows.
LEMMA NewVictimData ==
  ASSUME Solo, PoolInv, DataInv, NEW t \in Threads, NewVictim(t)
  PROVE  DataInv'
<1>1. TypeOK
  BY Zenon DEF PoolInv
<1>2. PICK f \in Frames : Goto(t, "new_reset", NONE, f, {})
  BY Zenon DEF NewVictim
<1>3. UNCHANGED <<frames, disk, status, pins, wrote, content>>
  BY Zenon DEF NewVictim, callers
<1>4. Went(t, "new_reset", NONE, f, {})
  BY Zenon, <1>1, <1>2, GoesTo DEF Points
<1>5. OneCopy' /\ \A q \in Pages : Current(q)'
  BY Zenon, <1>3, NothingShown
<1>6. Loading(t)' /\ Flushed(t)'
  BY Zenon, <1>4, Elsewhere DEF Went
<1>7. Written(t)'
  BY Zenon, <1>3 DEF DataInv, Written
<1> QED
  BY Zenon, <1>5, <1>6, <1>7, Together

\* new_page saves the old page of its frame before it resets it.
LEMMA NewResetData ==
  ASSUME Solo, PoolInv, DataInv, NEW t \in Threads, NewReset(t)
  PROVE  DataInv'
<1>1. TypeOK
  BY Zenon DEF PoolInv
<1>2. PICK f : arg[t].frame = f
  OBVIOUS
<1>3. PICK p \in Pages :
        /\ status[p] = "new" /\ status' = [status EXCEPT ![p] = "allocated"] /\ WriteBack(f)
        /\ frames' = [frames EXCEPT ![f] = [id |-> p, data |-> 0, dirty |-> FALSE, pin |-> 1]]
        /\ Goto(t, "new_table", p, f, {})
  BY Zenon, <1>2 DEF NewReset
<1>4. pc[t] = "new_reset" /\ UNCHANGED <<pins, wrote, content>>
  BY Zenon DEF NewReset, callers
<1>5. f \in Frames /\ Unmapped(f)
  <2>1. Creates(t)
    BY Zenon DEF PoolInv, Thread
  <2> QED
    BY Zenon, <1>2, <1>4, <2>1 DEF Creates
<1>6. Went(t, "new_table", p, f, {})
  BY Zenon, <1>1, <1>3, <1>5, GoesTo DEF Points
<1>7. Saved(f)
  <2>1. Shows(f)
    BY Zenon, <1>5 DEF PoolInv, Frame
  <2>2. \A u \in Threads, q \in Pages : pins[u][q] # f
    BY Zenon, <1>5, <2>1 DEF Shows, Unmapped
  <2>3. WriteBack(f)
    BY Zenon, <1>3
  <2> QED
    BY Zenon, <1>5, <2>2, <2>3, WriteBackSaves
<1>8. frames'[f].id = p /\ \A g \in Frames : g # f => frames'[g] = frames[g]
  BY <1>1, <1>3, <1>5 DEF TypeOK
<1>9. status'[p] = "allocated" /\ \A q \in Pages : q # p => status'[q] = status[q]
  BY Zenon, <1>1, <1>3 DEF TypeOK
<1>10. OneCopy /\ Current(p) /\ status[p] = "new"
  BY Zenon, <1>3 DEF DataInv
<1>11. \A g \in Frames : frames[g].id # p
  BY Zenon, <1>10 DEF OneCopy
<1>12. OneCopy'
  <2>1. ASSUME NEW g \in Frames, NEW q \in Pages, frames'[g].id = q
        PROVE  status'[q] # "new" /\ \A h \in Frames : frames'[h].id = q => g = h
    <3>1. CASE q = p
      <4>1. \A h \in Frames : frames'[h].id = p => h = f
        BY Zenon, <1>8, <1>11
      <4> QED
        BY Zenon, <1>9, <2>1, <3>1, <4>1
    <3>2. CASE q # p
      <4>1. \A h \in Frames : frames'[h].id = q => frames[h].id = q
        BY Zenon, <1>8, <3>2
      <4>2. frames[g].id = q /\ status'[q] = status[q] /\ OneCopy
        BY Zenon, <1>9, <1>10, <2>1, <3>2, <4>1
      <4> QED
        BY Zenon, <4>1, <4>2 DEF OneCopy
    <3> QED
      BY Zenon, <3>1, <3>2
  <2> QED
    BY Zenon, <2>1 DEF OneCopy
<1>13. ASSUME NEW q \in Pages
       PROVE  Current(q)'
  <2>1. CASE q = p
    BY Zenon, <1>4, <1>9, <1>10, <2>1 DEF Current
  <2>2. CASE q # p
    BY Zenon, <1>4, <1>5, <1>7, <1>8, <1>9, <2>2, ReplacedCurrent
  <2> QED
    BY Zenon, <2>1, <2>2
<1>14. Loading(t)' /\ Flushed(t)'
  BY Zenon, <1>6, Elsewhere DEF Went
<1>15. Written(t)'
  BY Zenon, <1>4 DEF DataInv, Written
<1> QED
  BY Zenon, <1>12, <1>13, <1>14, <1>15, Together

\* A new page is empty, and its thread will say that it wrote.
LEMMA NewTableData ==
  ASSUME Solo, PoolInv, DataInv, NEW t \in Threads, NewTable(t)
  PROVE  DataInv'
<1>1. TypeOK
  BY Zenon DEF PoolInv
<1>2. PICK p, f : arg[t].page = p /\ arg[t].frame = f
  OBVIOUS
<1>3. /\ pc[t] = "new_table" /\ status' = [status EXCEPT ![p] = "used"]
      /\ pins' = [pins EXCEPT ![t][p] = f] /\ wrote' = [wrote EXCEPT ![t] = @ \cup {p}]
      /\ content' = [content EXCEPT ![p] = 0] /\ Goto(t, "idle", NONE, NONE, {})
      /\ UNCHANGED <<frames, disk>>
  BY Zenon, <1>2 DEF NewTable, Return
<1>4. p \in Pages /\ f \in Frames /\ frames[f].id = p /\ frames[f].data = 0
  <2>1. Creates(t)
    BY Zenon DEF PoolInv, Thread
  <2> QED
    BY Zenon, <1>2, <1>3, <2>1 DEF Creates
<1>5. Went(t, "idle", NONE, NONE, {})
  BY Zenon, <1>1, <1>3, GoesTo DEF Points
<1>6. /\ status'[p] = "used" /\ \A q \in Pages : q # p => status'[q] = status[q]
      /\ content'[p] = 0 /\ \A q \in Pages : q # p => content'[q] = content[q]
  BY Zenon, <1>1, <1>3, <1>4 DEF TypeOK
<1>7. p \in wrote'[t] /\ \A q \in Pages : q # p => (q \in wrote'[t] <=> q \in wrote[t])
  BY <1>1, <1>3, <1>4 DEF TypeOK
<1>8. pins'[t][p] # NONE /\ \A q \in Pages : q # p => pins'[t][q] = pins[t][q]
  BY <1>1, <1>3, <1>4, NoneIsNew, SetPin DEF TypeOK
<1>9. OneCopy
  BY Zenon DEF DataInv
<1>10. OneCopy'
  <2>1. \A q \in Pages : status'[q] = "new" => status[q] = "new"
    BY Zenon, <1>6
  <2>2. frames' = frames
    BY Zenon, <1>3
  <2> QED
    BY Zenon, <1>9, <2>1, <2>2 DEF OneCopy
<1>11. ASSUME NEW q \in Pages
       PROVE  Current(q)'
  <2>1. CASE q = p
    <3>1. \A g \in Frames : frames[g].id = p => g = f
      BY Zenon, <1>4, <1>9 DEF OneCopy
    <3> QED
      BY Zenon, <1>3, <1>4, <1>6, <1>7, <2>1, <3>1 DEF Current
  <2>2. CASE q # p
    <3>1. (\E u \in Threads : q \in wrote[u]) => \E u \in Threads : q \in wrote'[u]
      BY Zenon, <1>7, <2>2 DEF Solo
    <3>2. Current(q) /\ content'[q] = content[q] /\ status'[q] = status[q]
      BY Zenon, <1>6, <2>2 DEF DataInv
    <3>3. frames' = frames /\ disk' = disk
      BY Zenon, <1>3
    <3> QED
      BY Zenon, <3>1, <3>2, <3>3 DEF Current
  <2> QED
    BY Zenon, <2>1, <2>2
<1>12. Loading(t)' /\ Flushed(t)'
  BY Zenon, <1>5, Elsewhere DEF Went
<1>13. Written(t)'
  BY Zenon, <1>7, <1>8 DEF DataInv, Written
<1> QED
  BY Zenon, <1>10, <1>11, <1>12, <1>13, Together

-----------------------------------------------------------------------------
(* delete_page, free_page, close_file *)

\* A saved frame is emptied: pages stay current.
LEMMA EmptiedCurrent ==
  ASSUME DataInv, NEW f \in Frames, Saved(f), frames'[f].id = NONE,
         \A g \in Frames : g # f => frames'[g] = frames[g], UNCHANGED <<status, wrote, content>>
  PROVE  OneCopy' /\ \A p \in Pages : Current(p)'
<1>1. OneCopy'
  <2>1. OneCopy /\ \A g \in Frames, p \in Pages : frames'[g].id = p => frames[g].id = p
    BY Zenon, NoneIsNew DEF DataInv
  <2> QED
    BY Zenon, <2>1 DEF OneCopy
<1>2. ASSUME NEW p \in Pages
      PROVE  Current(p)'
  <2>1. frames'[f].id # p /\ status'[p] = status[p]
    BY Zenon, NoneIsNew
  <2> QED
    BY Zenon, <2>1, ReplacedCurrent
<1> QED
  BY Zenon, <1>1, <1>2

\* A page that is deleted contains nothing.
LEMMA DeletePageData ==
  ASSUME Solo, PoolInv, DataInv, NEW t \in Threads, NEW p \in Pages, DeletePage(t, p)
  PROVE  DataInv'
<1>1. TypeOK
  BY Zenon DEF PoolInv
<1>2. /\ pc[t] = "idle" /\ status' = [status EXCEPT ![p] = "deleted"]
      /\ content' = [content EXCEPT ![p] = NONE] /\ UNCHANGED <<frames, disk, pins, wrote>>
  BY Zenon DEF DeletePage
<1>3. pc'[t] \in {"idle", "del_write"}
  <2>1. pc' = pc \/ pc' = [pc EXCEPT ![t] = "del_write"]
    BY Zenon DEF DeletePage, Goto
  <2> QED
    BY <1>1, <1>2, <2>1 DEF TypeOK
<1>4. /\ status'[p] = "deleted" /\ \A q \in Pages : q # p => status'[q] = status[q]
      /\ content'[p] = NONE /\ \A q \in Pages : q # p => content'[q] = content[q]
  BY Zenon, <1>1, <1>2 DEF TypeOK
<1>5. OneCopy'
  <2>1. OneCopy /\ frames' = frames /\ \A q \in Pages : status'[q] = "new" => status[q] = "new"
    BY Zenon, <1>2, <1>4 DEF DataInv
  <2> QED
    BY Zenon, <2>1 DEF OneCopy
<1>6. ASSUME NEW q \in Pages
      PROVE  Current(q)'
  <2>1. CASE q = p
    BY Zenon, <1>4, <2>1 DEF Current
  <2>2. CASE q # p
    <3>1. Current(q) /\ content'[q] = content[q] /\ status'[q] = status[q]
      BY Zenon, <1>4, <2>2 DEF DataInv
    <3> QED
      BY Zenon, <1>2, <3>1 DEF Current
  <2> QED
    BY Zenon, <2>1, <2>2
<1>7. Loading(t)' /\ Flushed(t)'
  BY Zenon, <1>3, Elsewhere
<1>8. Written(t)'
  BY Zenon, <1>2 DEF DataInv, Written
<1> QED
  BY Zenon, <1>5, <1>6, <1>7, <1>8, Together

\* delete_page writes a page back that is no longer in use.
LEMMA DeleteWriteData ==
  ASSUME Solo, PoolInv, DataInv, NEW t \in Threads, DeleteWrite(t)
  PROVE  DataInv'
<1>1. TypeOK
  BY Zenon DEF PoolInv
<1>2. PICK p, f : arg[t].page = p /\ arg[t].frame = f
  OBVIOUS
<1>3. /\ pc[t] = "del_write" /\ WriteBack(f) /\ Goto(t, "idle", NONE, NONE, {})
      /\ frames' = [frames EXCEPT ![f].id = NONE, ![f].data = 0, ![f].dirty = FALSE]
      /\ UNCHANGED <<status, pins, wrote, content>>
  BY Zenon, <1>2 DEF DeleteWrite, Return, callers
<1>4. p \in Pages /\ f \in Frames /\ frames[f].id = p /\ status[p] = "deleted"
  <2>1. Deletes(t)
    BY Zenon DEF PoolInv, Thread
  <2> QED
    BY Zenon, <1>2, <1>3, <2>1 DEF Deletes
<1>5. Saved(f)
  <2>1. disk' = disk \/ disk' = [disk EXCEPT ![p] = frames[f].data]
    BY Zenon, <1>3, <1>4 DEF WriteBack
  <2>2. \A q \in Pages : q # p => disk'[q] = disk[q]
    BY Zenon, <1>1, <2>1 DEF TypeOK
  <2> QED
    BY Zenon, <1>4, <2>2 DEF Saved
<1>6. frames'[f].id = NONE /\ \A g \in Frames : g # f => frames'[g] = frames[g]
  BY <1>1, <1>3, <1>4 DEF TypeOK
<1>7. OneCopy' /\ \A q \in Pages : Current(q)'
  BY Zenon, <1>3, <1>4, <1>5, <1>6, EmptiedCurrent
<1>8. Went(t, "idle", NONE, NONE, {})
  BY Zenon, <1>1, <1>3, GoesTo DEF Points
<1>9. Loading(t)' /\ Flushed(t)'
  BY Zenon, <1>8, Elsewhere DEF Went
<1>10. Written(t)'
  BY Zenon, <1>3 DEF DataInv, Written
<1> QED
  BY Zenon, <1>7, <1>9, <1>10, Together

\* A clean frame that nobody has pinned can be given away without writing it.
LEMMA FreesSaved ==
  ASSUME PoolInv, DataInv, NEW f \in Frames, NEW p \in Pages, frames[f].id = p, Unpinned(p),
         ~frames[f].dirty, FreeFrame(f, p), UNCHANGED <<disk, status, wrote, content>>
  PROVE  /\ OneCopy' /\ \A q \in Pages : Current(q)'
         /\ frames'[f].id = NONE /\ \A g \in Frames : g # f => frames'[g] = frames[g]
<1>1. TypeOK /\ Shows(f) /\ f # NONE
  BY Zenon, NoneIsNew DEF PoolInv, Frame
<1>2. \A u \in Threads, q \in Pages : pins[u][q] # f
  <2> SUFFICES ASSUME NEW u \in Threads, NEW q \in Pages, pins[u][q] = f
               PROVE  FALSE
    BY Zenon
  <2>1. frames[f].id = q
    BY Zenon, <1>1 DEF Shows
  <2>2. pins[u][p] = f
    BY Zenon, <2>1
  <2> QED
    BY Zenon, <1>1, <2>2 DEF Unpinned
<1>3. WriteBack(f)
  BY Zenon DEF WriteBack
<1>4. Saved(f)
  BY Zenon, <1>2, <1>3, WriteBackSaves
<1>5. frames' = [frames EXCEPT ![f].id = NONE]
  BY Zenon DEF FreeFrame
<1>6. frames'[f].id = NONE /\ \A g \in Frames : g # f => frames'[g] = frames[g]
  BY <1>1, <1>5 DEF TypeOK
<1> QED
  BY Zenon, <1>4, <1>6, EmptiedCurrent

\* free_page gives a clean frame away.
LEMMA FreePageData ==
  ASSUME Solo, Setting, PoolInv, DataInv, NEW t \in Threads, NEW p \in Pages, free_page(t, p)
  PROVE  DataInv'
<1>1. TypeOK
  BY Zenon DEF PoolInv
<1>2. PICK f \in Frames : page_table[p] = f /\ page_latch[f] = NONE
  BY <1>1 DEF free_page, Free, TypeOK
<1>3. frames[f].id = p
  BY Zenon, <1>2, FrameOfPage
<1>4. /\ pc[t] = "idle" /\ ~frames[f].dirty /\ FreeFrame(f, p)
      /\ UNCHANGED <<disk, status, pc, arg, pins, wrote, content>>
  BY Zenon, <1>2 DEF free_page, callers
<1>5. Unpinned(p)
  BY Zenon DEF free_page, Unused, Unpinned
<1>6. OneCopy' /\ \A q \in Pages : Current(q)'
  BY Zenon, <1>3, <1>4, <1>5, FreesSaved
<1>7. Loading(t)' /\ Flushed(t)'
  BY Zenon, <1>4, Elsewhere
<1>8. Written(t)'
  BY Zenon, <1>4 DEF DataInv, Written
<1> QED
  BY Zenon, <1>6, <1>7, <1>8, Together

\* close_file starts with every frame still to be flushed.
LEMMA CloseFileData ==
  ASSUME Solo, PoolInv, DataInv, NEW t \in Threads, NEW file \in Closable, CloseFile(t, file)
  PROVE  DataInv'
<1>1. TypeOK /\ file \in Files
  BY Zenon, ClosableFiles DEF PoolInv
<1>2. Goto(t, "flush_all", file, NONE, Frames) /\ UNCHANGED <<frames, disk, status, pins, wrote, content>>
  BY Zenon DEF CloseFile, pool, callers
<1>3. Went(t, "flush_all", file, NONE, Frames)
  BY Zenon, <1>1, <1>2, GoesTo DEF Points
<1>4. OneCopy' /\ \A q \in Pages : Current(q)'
  BY Zenon, <1>2, NothingShown
<1>5. pc'[t] = "flush_all" /\ arg'[t].todo = Frames
  BY Zenon, <1>3 DEF Went
<1>6. Loading(t)' /\ Flushed(t)'
  BY Zenon, <1>5 DEF Loading, Flushed
<1>7. Written(t)'
  BY Zenon, <1>2 DEF DataInv, Written
<1> QED
  BY Zenon, <1>4, <1>6, <1>7, Together

\* flush_all_pages leaves the frames that it has been through clean.
LEMMA FlushAllData ==
  ASSUME Solo, Setting, PoolInv, DataInv, NEW t \in Threads, flush_all_pages(t)
  PROVE  DataInv'
<1>1. TypeOK
  BY Zenon DEF PoolInv
<1>2. PICK c, todo : arg[t].page = c /\ arg[t].todo = todo
  OBVIOUS
<1>3. pc[t] = "flush_all" /\ UNCHANGED <<status, pins, wrote, content>>
  BY Zenon DEF flush_all_pages, callers
<1>4. /\ c \in Pages \/ c \in Files \/ c = NONE
      /\ todo \subseteq Frames
      /\ \A g \in Frames : Of(g, c) => frames[g].id \in Pages
  BY Zenon, <1>2, <1>3, ClosingAlone
<1>5. PICK f \in todo :
        /\ IF Of(f, c) THEN /\ frames' = [frames EXCEPT ![f].dirty = FALSE]
                            /\ disk' = [disk EXCEPT ![frames[f].id] = frames[f].data]
                       ELSE UNCHANGED <<frames, disk>>
        /\ IF todo = {f} THEN Goto(t, "free_all", c, NONE, Frames)
                         ELSE Goto(t, "flush_all", c, NONE, todo \ {f})
  BY Zenon, <1>2 DEF flush_all_pages
<1>6. f \in Frames
  BY Zenon, <1>4, <1>5
<1>7. \/ Went(t, "free_all", c, NONE, Frames) /\ todo = {f}
      \/ Went(t, "flush_all", c, NONE, todo \ {f})
  <2>1. todo \ {f} \subseteq Frames
    BY Zenon, <1>4
  <2>2. CASE todo = {f}
    <3>1. Goto(t, "free_all", c, NONE, Frames)
      BY Zenon, <1>5, <2>2
    <3> QED
      BY Zenon, <1>1, <1>4, <2>2, <3>1, GoesTo DEF Points
  <2>3. CASE todo # {f}
    <3>1. Goto(t, "flush_all", c, NONE, todo \ {f})
      BY Zenon, <1>5, <2>3
    <3> QED
      BY Zenon, <1>1, <1>4, <2>1, <3>1, GoesTo DEF Points
  <2> QED
    BY Zenon, <2>2, <2>3
<1>8. /\ OneCopy' /\ \A q \in Pages : Current(q)'
      /\ \A g \in Frames : frames'[g].id = frames[g].id /\ (frames'[g].dirty => frames[g].dirty)
      /\ Of(f, c) => ~frames'[f].dirty
  <2>1. CASE Of(f, c)
    <3>1. PICK p \in Pages : frames[f].id = p
      BY Zenon, <1>4, <1>6, <2>1
    <3>2. frames' = [frames EXCEPT ![f].dirty = FALSE] /\ disk' = [disk EXCEPT ![p] = frames[f].data]
      BY Zenon, <1>5, <2>1, <3>1
    <3>3. FrameCleaned(f) /\ Saved(f)
      BY Zenon, <1>1, <1>6, <3>1, <3>2, CleanFrame, FlushSaves
    <3>4. OneCopy' /\ \A q \in Pages : Current(q)'
      BY Zenon, <1>3, <1>6, <3>3, CleanedCurrent
    <3>5. ~frames'[f].dirty
      BY <1>1, <1>6, <3>2 DEF TypeOK
    <3> QED
      BY Zenon, <3>3, <3>4, <3>5 DEF FrameCleaned
  <2>2. CASE ~Of(f, c)
    <3>1. UNCHANGED <<frames, disk>>
      BY Zenon, <1>5, <2>2
    <3> QED
      BY Zenon, <1>3, <2>2, <3>1, NothingShown
  <2> QED
    BY Zenon, <2>1, <2>2
<1>9. pc'[t] \in {"flush_all", "free_all"} /\ arg'[t].page = c
  BY Zenon, <1>7 DEF Went
<1>10. \A g \in Frames : Of(g, c)' => g \in todo \ {f} \/ ~frames'[g].dirty
  <2> SUFFICES ASSUME NEW g \in Frames, Of(g, c)'
               PROVE  g \in todo \ {f} \/ ~frames'[g].dirty
    OBVIOUS
  <2>1. Of(g, c)
    BY Zenon, <1>8 DEF Of
  <2>2. Flushed(t)
    BY Zenon DEF DataInv
  <2>3. g \in todo \/ ~frames[g].dirty
    BY Zenon, <1>2, <1>3, <2>1, <2>2 DEF Flushed
  <2> QED
    BY Zenon, <1>8, <2>1, <2>3
<1>11. Flushed(t)'
  <2>1. CASE pc'[t] = "free_all"
    <3>1. todo = {f}
      BY Zenon, <1>7, <2>1 DEF Went
    <3>2. \A g \in Frames : Of(g, c)' => ~frames'[g].dirty
      BY Zenon, <1>10, <3>1
    <3> QED
      BY Zenon, <1>9, <2>1, <3>2 DEF Flushed, Of
  <2>2. CASE pc'[t] = "flush_all"
    <3>1. arg'[t].todo = todo \ {f}
      BY Zenon, <1>7, <2>2 DEF Went
    <3> QED
      BY Zenon, <1>9, <1>10, <2>2, <3>1 DEF Flushed, Of
  <2> QED
    BY Zenon, <1>9, <2>1, <2>2
<1>12. Loading(t)'
  BY Zenon, <1>9 DEF Loading
<1>13. Written(t)'
  BY Zenon, <1>3 DEF DataInv, Written
<1> QED
  BY Zenon, <1>8, <1>11, <1>12, <1>13, Together

\* free_all_pages gives away clean frames.
LEMMA FreeAllData ==
  ASSUME Solo, Setting, PoolInv, DataInv, NEW t \in Threads, free_all_pages(t)
  PROVE  DataInv'
<1>1. TypeOK
  BY Zenon DEF PoolInv
<1>2. PICK c, todo : arg[t].page = c /\ arg[t].todo = todo
  OBVIOUS
<1>3. pc[t] = "free_all" /\ UNCHANGED <<disk, status, pins, wrote, content>>
  BY Zenon DEF free_all_pages, callers
<1>4. /\ c \in Pages \/ c \in Files \/ c = NONE
      /\ todo \subseteq Frames
      /\ \A g \in Frames : Of(g, c) => frames[g].id \in Pages /\ Unpinned(frames[g].id)
  BY Zenon, <1>2, <1>3, ClosingAlone
<1>5. PICK f \in todo :
        /\ IF Of(f, c) THEN FreeFrame(f, frames[f].id) ELSE UNCHANGED <<frames, page_table, free_list, lru>>
        /\ IF todo = {f} THEN Goto(t, "idle", NONE, NONE, {})
                         ELSE Goto(t, "free_all", c, NONE, todo \ {f})
  BY Zenon, <1>2 DEF free_all_pages, Return
<1>6. f \in Frames
  BY Zenon, <1>4, <1>5
<1>7. pc'[t] = "idle" \/ (pc'[t] = "free_all" /\ arg'[t].page = c)
  <2>1. todo \ {f} \subseteq Frames
    BY Zenon, <1>4
  <2>2. CASE Goto(t, "idle", NONE, NONE, {})
    <3>1. Went(t, "idle", NONE, NONE, {})
      BY Zenon, <1>1, <2>2, GoesTo DEF Points
    <3> QED
      BY Zenon, <3>1 DEF Went
  <2>3. CASE Goto(t, "free_all", c, NONE, todo \ {f})
    <3>1. Went(t, "free_all", c, NONE, todo \ {f})
      BY Zenon, <1>1, <1>4, <2>1, <2>3, GoesTo DEF Points
    <3> QED
      BY Zenon, <3>1 DEF Went
  <2> QED
    BY Zenon, <1>5, <2>2, <2>3
<1>8. \A g \in Frames : Of(g, c) => ~frames[g].dirty
  <2>1. Flushed(t)
    BY Zenon DEF DataInv
  <2> QED
    BY Zenon, <1>2, <1>3, <2>1 DEF Flushed
<1>9. /\ OneCopy' /\ \A q \in Pages : Current(q)'
      /\ \A g \in Frames : frames'[g] = frames[g] \/ frames'[g].id = NONE
  <2>1. CASE Of(f, c)
    <3>1. PICK p \in Pages : frames[f].id = p
      BY Zenon, <1>4, <1>6, <2>1
    <3>2. Unpinned(p) /\ FreeFrame(f, p) /\ ~frames[f].dirty
      BY Zenon, <1>4, <1>5, <1>6, <1>8, <2>1, <3>1
    <3> QED
      BY Zenon, <1>3, <1>6, <3>1, <3>2, FreesSaved
  <2>2. CASE ~Of(f, c)
    <3>1. frames' = frames
      BY Zenon, <1>5, <2>2
    <3> QED
      BY Zenon, <1>3, <3>1, NothingShown
  <2> QED
    BY Zenon, <2>1, <2>2
<1>10. Flushed(t)'
  <2>1. CASE pc'[t] = "idle"
    BY Zenon, <2>1 DEF Flushed
  <2>2. CASE pc'[t] = "free_all" /\ arg'[t].page = c
    <3>1. ASSUME NEW g \in Frames, Of(g, c)'
          PROVE  ~frames'[g].dirty
      <4>1. frames'[g].id # NONE /\ frames'[g] = frames[g]
        BY Zenon, <1>9, <3>1 DEF Of
      <4>2. Of(g, c)
        BY Zenon, <3>1, <4>1 DEF Of
      <4> QED
        BY Zenon, <1>8, <4>1, <4>2
    <3> QED
      BY Zenon, <2>2, <3>1 DEF Flushed, Of
  <2> QED
    BY Zenon, <1>7, <2>1, <2>2
<1>11. Loading(t)'
  BY Zenon, <1>7 DEF Loading
<1>12. Written(t)'
  BY Zenon, <1>3 DEF DataInv, Written
<1> QED
  BY Zenon, <1>9, <1>10, <1>11, <1>12, Together

=============================================================================
