-------------------------- MODULE BufferPoolFrames --------------------------
(***************************************************************************)
(* The calls that put another page into a frame (fetch_page, new_page) or  *)
(* take a page out of its frame (delete_page, free_page, close_file) keep  *)
(* the invariant of BufferPoolSteps.                                       *)
(***************************************************************************)
EXTENDS BufferPoolSteps

(* Frames that change hands *)

\* What find_victim_page gives: a frame that nobody has pinned or taken, though
\* delete_page may still write it back; without its old page, the table leads
\* to it no more.
VictimTaken(f, tab) ==
  /\ frames[f].pin = 0 /\ (\A u \in Threads : ~Takes(u, f))
  /\ free_list' \in Seq(Frames) /\ lru' \in Seq(Frames) /\ ListsOnce'
  /\ f \notin Range(free_list') /\ f \notin Range(lru')
  /\ \A g \in Frames : g # f => /\ g \in Range(free_list') <=> g \in Range(free_list)
                                /\ g \in Range(lru') <=> g \in Range(lru)
  /\ tab \in [Pages -> Frames \cup {NONE}] /\ (\A q \in Pages : tab[q] # f)
  /\ \A q \in Pages, g \in Frames : g # f => (tab[q] = g <=> page_table[q] = g)
  /\ \A u \in Threads, q \in Pages : pins[u][q] # f
  /\ \A u \in Threads : Engages(u, f) => pc[u] = "del_write" /\ page_latch[f] = u

\* find_victim_page keeps its promise.
LEMMA VictimIsFree ==
  ASSUME Setting, PoolInv, NEW f, FindVictim(f)
  PROVE  f \in Frames /\ VictimTaken(f, Erase(frames[f].id))
<1>1. TypeOK /\ ListsOnce /\ \A g \in Frames : Frame(g)
  BY Zenon DEF PoolInv
<1>2. f \in Frames
  BY <1>1, SMT DEF FindVictim, TypeOK
<1>3. Frame(f) /\ f # NONE
  BY Zenon, <1>1, <1>2, NoneIsNew
<1>4. /\ f \in Range(free_list) \/ f \in Range(lru)
      /\ free_list' \in Seq(Frames) /\ lru' \in Seq(Frames) /\ ListsOnce'
      /\ \A g : g \in Range(free_list') <=> g \in Range(free_list) /\ g # f
      /\ \A g : g \in Range(lru') <=> g \in Range(lru) /\ g # f
  BY Zenon, <1>1, <1>3, VictimList DEF TypeOK, Frame, Listed
<1>5. frames[f].pin = 0 /\ \A u \in Threads : ~Takes(u, f)
  BY Zenon, <1>3, <1>4 DEF Frame, Listed
<1>6. \A u \in Threads : Engages(u, f) => pc[u] = "del_write" /\ page_latch[f] = u
  BY <1>5 DEF Engages, Takes, PoolInv, Thread, Deletes
<1>7. ASSUME NEW q \in Pages, page_table[q] = f
      PROVE  frames[f].id = q /\ Unpinned(q)
  <2>1. \A u \in Threads : ~Loads(u, q, f) /\ ~(pc[u] = "thrown" /\ arg[u].frame = f)
    BY Zenon, <1>5 DEF Loads, Takes
  <2> QED
    BY Zenon, <1>3, <1>5, <1>7, <2>1, CountPins DEF Frame, Maps
<1>8. \A u \in Threads, q \in Pages : pins[u][q] # f
  BY Zenon, <1>3, <1>7 DEF Frame, Shows, Unpinned
<1>9. ASSUME NEW p \in Pages, frames[f].id = p, page_table[p] # f
      PROVE  page_table[p] = NONE
  <2>1. PICK u \in Threads : Turns(u, f)
    BY Zenon, <1>3, <1>9 DEF Frame, Shows
  <2>2. pc[u] = "del_write"
    BY Zenon, <1>6, <2>1 DEF Turns, Engages
  <2>3. status[p] = "deleted"
    BY <1>2, <1>9, <2>1, <2>2 DEF PoolInv, Thread, Deletes, Turns
  <2> QED
    BY <1>1, <2>3 DEF Frame, Maps, TypeOK
<1> DEFINE tab == Erase(frames[f].id)
<1>10. frames[f].id \in Pages \cup {NONE} /\ page_table \in [Pages -> Frames \cup {NONE}] /\ NONE \notin Pages
  BY Zenon, <1>1, <1>2, NoneIsNew DEF TypeOK
<1>11. CASE frames[f].id = NONE
  <2>1. tab = page_table
    BY Zenon, <1>11 DEF Erase
  <2>2. \A q \in Pages : page_table[q] # f
    BY Zenon, <1>7, <1>10, <1>11
  <2> HIDE DEF tab
  <2> QED
    BY Zenon, <1>2, <1>4, <1>5, <1>6, <1>8, <1>10, <2>1, <2>2 DEF VictimTaken, tab
<1>12. CASE frames[f].id # NONE
  <2>1. PICK p \in Pages : frames[f].id = p
    BY Zenon, <1>10, <1>12
  <2>2. tab = [page_table EXCEPT ![p] = NONE]
    BY Zenon, <1>12, <2>1 DEF Erase
  <2>3. tab \in [Pages -> Frames \cup {NONE}] /\ tab[p] = NONE /\ \A q \in Pages : q # p => tab[q] = page_table[q]
    BY Zenon, <1>10, <2>2
  <2>4. page_table[p] \in {f, NONE} /\ \A q \in Pages : page_table[q] = f => q = p
    BY Zenon, <1>7, <1>9, <2>1
  <2>5. (\A q \in Pages : tab[q] # f) /\ \A q \in Pages, g \in Frames : g # f => (tab[q] = g <=> page_table[q] = g)
    BY Zenon, <1>3, <2>3, <2>4, NoneIsNew
  <2> HIDE DEF tab
  <2> QED
    BY Zenon, <1>2, <1>4, <1>5, <1>6, <1>8, <2>3, <2>5 DEF VictimTaken, tab
<1> QED
  BY Zenon, <1>11, <1>12

\* Nobody else works on a frame that a fetch has locked.
LEMMA FetchAlone ==
  ASSUME PoolInv, NEW t \in Threads, pc[t] \in {"fetch_write", "fetch_read", "thrown"},
         NEW u \in Threads, u # t
  PROVE  ~Engages(u, arg[t].frame)
<1>1. PICK p, f : arg[t].page = p /\ arg[t].frame = f
  BY Zenon
<1>2. /\ p \in Pages /\ f \in Frames
      /\ page_latch[f] = t /\ page_table[p] = f
  BY <1>1 DEF PoolInv, Thread, Fetches
<1> SUFFICES ASSUME Engages(u, f)
             PROVE  FALSE
  BY Zenon, <1>1
<1>3. Thread(u)
  BY Zenon DEF PoolInv
<1>4. CASE pc[u] \in {"fetch_write", "fetch_read", "thrown"}
  BY <1>2, <1>3, <1>4 DEF Thread, Fetches, Engages
<1>5. CASE pc[u] \in {"new_reset", "new_table"}
  BY <1>2, <1>3, <1>5 DEF Thread, Creates, Engages, Unmapped
<1>6. CASE pc[u] = "del_write"
  BY <1>2, <1>3, <1>6 DEF Thread, Deletes, Engages
<1> QED
  BY Zenon, <1>4, <1>5, <1>6 DEF Engages

\* The write-back of a frame changes the copy on disk of the page it shows.
LEMMA WriteBackAge ==
  ASSUME PoolInv, NEW f \in Frames, WriteBack(f), FrameCleaned(f), UNCHANGED <<status, content>>
  PROVE  disk' \in [Pages -> Content \cup {NONE}] /\ \A q \in Pages : Age(q)'
<1>1. TypeOK
  BY Zenon DEF PoolInv
<1>2. /\ frames[f].id \in Pages \cup {NONE} /\ frames[f].data \in Content /\ NONE \notin Pages
      /\ disk \in [Pages -> Content \cup {NONE}]
  BY Zenon, <1>1, NoneIsNew DEF TypeOK
<1>3. disk' \in {disk, [disk EXCEPT ![frames[f].id] = frames[f].data]} /\ (~frames[f].dirty => disk' = disk)
  BY Zenon DEF WriteBack
<1>4. disk' \in [Pages -> Content \cup {NONE}]
  BY Zenon, <1>2, <1>3
<1>5. CASE frames[f].id = NONE
  <2>1. disk' = disk
    BY Zenon, <1>2, <1>3, <1>5
  <2>2. ASSUME NEW q \in Pages
        PROVE  Age(q)'
    <3>1. \A g \in Frames : /\ frames'[g].id = frames[g].id /\ frames'[g].data = frames[g].data
                            /\ ~frames[g].dirty => ~frames'[g].dirty
      BY Zenon DEF FrameCleaned
    <3> QED
      BY Zenon, <2>1, <3>1 DEF PoolInv, Age
  <2> QED
    BY Zenon, <1>4, <2>2
<1>6. CASE frames[f].id # NONE
  <2>1. PICK p \in Pages : frames[f].id = p
    BY Zenon, <1>2, <1>6
  <2>2. status[p] \in {"new", "allocated"} => ~frames[f].dirty
    BY Zenon, <2>1 DEF PoolInv, Age
  <2> QED
    BY Zenon, <1>3, <1>4, <2>1, <2>2, WrittenBack
<1> QED
  BY Zenon, <1>5, <1>6

-----------------------------------------------------------------------------
(* fetch_page *)

\* A fetch that takes a victim for its page keeps the invariant.
LEMMA FetchMissKeeps ==
  ASSUME Setting, PoolInv, NEW t \in Threads, NEW p \in Pages, FetchMiss(t, p)
  PROVE  PoolInv'
<1>1. TypeOK /\ ListsOnce
  BY Zenon DEF PoolInv
<1>2. PICK f \in Frames : /\ FindVictim(f) /\ page_latch[f] = NONE
                          /\ page_table' = [Erase(frames[f].id) EXCEPT ![p] = f]
                          /\ Latch(f, t) /\ Goto(t, "fetch_write", p, f, {})
  BY Zenon DEF FetchMiss, Free
<1>3. /\ pc[t] = "idle" /\ status[p] = "used" /\ page_table[p] = NONE
      /\ UNCHANGED <<frames, disk, status, pins, wrote, content>>
  BY Zenon DEF FetchMiss, callers
<1>4. PICK tab : tab = Erase(frames[f].id) /\ VictimTaken(f, tab) /\ page_table' = [tab EXCEPT ![p] = f]
  BY Zenon, <1>2, VictimIsFree
<1>5. Went(t, "fetch_write", p, f, {})
  BY Zenon, <1>1, <1>2, GoesTo DEF Points
<1>6. /\ page_table' \in [Pages -> Frames \cup {NONE}] /\ page_table'[p] = f
      /\ \A q \in Pages : page_table'[q] = f => q = p
      /\ \A q \in Pages, g \in Frames : g # f => (page_table'[q] = g <=> page_table[q] = g)
  BY <1>3, <1>4, NoneIsNew DEF VictimTaken
<1>7. \A u \in Threads : ~Engages(u, f)
  BY Zenon, <1>2, <1>4, NoneIsNew DEF VictimTaken
<1>8. page_latch' \in [Frames -> Threads \cup {NONE}] /\ page_latch'[f] = t /\ \A g \in Frames : g # f => page_latch'[g] = page_latch[g]
  BY Zenon, <1>1, <1>2 DEF TypeOK, Latch
<1>9. \A g \in Frames : page_latch'[g] # NONE => pc'[page_latch'[g]] # "idle"
  <2>1. \A g \in Frames : page_latch[g] # t
    BY Zenon, <1>1, <1>3, NoneIsNew DEF TypeOK
  <2> QED
    BY <1>1, <1>5, <1>8, <2>1, MutexesHeld, "fetch_write" # "idle"
<1>10. TypeOK'
  BY <1>1, <1>3, <1>4, <1>5, <1>6, <1>8, <1>9 DEF TypeOK, VictimTaken, Went, Points
<1>11. Unpinned(p) /\ Unpinned(p)'
  BY <1>1, <1>3, NoneIsNew DEF Unpinned, PoolInv, Frame, Shows, TypeOK
<1>12. Thread(t)'
  BY <1>3, <1>4, <1>5, <1>6, <1>8, <1>11 DEF Thread, Fetches, Creates, Deletes, Closes, VictimTaken, Went
<1>13. Frame(f)'
  <2>1. Held(f)'
    <3>1. \A u \in Threads : u # t => ~Takes(u, f)'
      BY <1>4, <1>5 DEF Takes, VictimTaken, Went
    <3>2. Engages(t, f)' /\ pc'[t] = "fetch_write"
      BY Zenon, <1>5 DEF Engages, Went
    <3> QED
      BY Zenon, <1>8, <3>1, <3>2 DEF Held
  <2>2. Loads(t, p, f)' /\ Turns(t, f)' /\ Takes(t, f)'
    BY Zenon, <1>5 DEF Loads, Turns, Takes, Went
  <2>3. Cardinality(Pinners(p)') = 0
    BY Zenon, <1>11, CountPins
  <2>4. Maps(f)'
    BY <1>3, <1>4, <1>6, <2>2, <2>3 DEF Maps, VictimTaken
  <2>5. Shows(f)'
    BY <1>3, <1>4, <2>2 DEF Shows, VictimTaken
  <2>6. Listed(f)'
    BY Zenon, <1>4, <2>2 DEF Listed, VictimTaken
  <2> QED
    BY Zenon, <2>1, <2>4, <2>5, <2>6 DEF Frame
<1>14. Local(t, f)
  BY <1>3, <1>4, <1>5, <1>6, <1>8 DEF Local, VictimTaken, Engages, Went
<1>15. \A q \in Pages : Age(q)'
  BY Zenon, <1>3 DEF PoolInv, Age
<1>16. ListsOnce'
  BY Zenon, <1>4 DEF VictimTaken
<1> QED
  BY Zenon, <1>5, <1>7, <1>10, <1>12, <1>13, <1>14, <1>15, <1>16, LocalStep DEF Went

\* The fetch writes the old page of its frame back: the invariant is kept.
LEMMA FetchWriteKeeps ==
  ASSUME Setting, PoolInv, NEW t \in Threads, FetchWrite(t)
  PROVE  PoolInv'
<1>1. TypeOK /\ ListsOnce
  BY Zenon DEF PoolInv
<1>2. PICK p, f : arg[t].page = p /\ arg[t].frame = f
  BY Zenon
<1>3. /\ pc[t] = "fetch_write" /\ WriteBack(f) /\ frames' = [frames EXCEPT ![f].dirty = FALSE]
      /\ Goto(t, "fetch_read", p, f, {})
      /\ UNCHANGED <<page_latch, page_table, free_list, lru, status, pins, wrote, content>>
  BY Zenon, <1>2 DEF FetchWrite, callers
<1>4. /\ p \in Pages /\ f \in Frames
      /\ page_latch[f] = t /\ page_table[p] = f /\ Unpinned(p) /\ frames[f].pin = 0
  BY <1>2, <1>3 DEF PoolInv, Thread, Fetches
<1>5. Went(t, "fetch_read", p, f, {})
  BY Zenon, <1>1, <1>3, <1>4, GoesTo DEF Points
<1>6. FrameCleaned(f)
  BY Zenon, <1>1, <1>3, <1>4, CleanFrame
<1>7. disk' \in [Pages -> Content \cup {NONE}] /\ \A q \in Pages : Age(q)'
  BY Zenon, <1>3, <1>4, <1>6, WriteBackAge
<1>8. \A g \in Frames : page_latch'[g] # NONE => pc'[page_latch'[g]] # "idle"
  <2>1. page_latch' \in [Frames -> Threads \cup {NONE}]
    BY Zenon, <1>1, <1>3 DEF TypeOK
  <2>2. \A g \in Frames : page_latch'[g] = t \/ (page_latch'[g] = page_latch[g] /\ page_latch[g] # t)
    BY Zenon, <1>3
  <2> QED
    BY <1>1, <1>5, <2>1, <2>2, MutexesHeld, "fetch_read" # "idle"
<1>9. TypeOK'
  BY Zenon, <1>1, <1>3, <1>5, <1>6, <1>7, <1>8 DEF TypeOK, FrameCleaned, FrameRecord, Went, Points
<1>10. \A u \in Threads : u # t => ~Engages(u, f)
  BY Zenon, <1>2, <1>3, FetchAlone
<1>11. Unpinned(p)' /\ Pinners(p)' = Pinners(p)
  BY Zenon, <1>3, <1>4 DEF Unpinned, Pinners
<1>12. Thread(t)'
  BY <1>3, <1>4, <1>5, <1>6, <1>11 DEF Thread, Fetches, Creates, Deletes, Closes, FrameCleaned, Went
<1>13. frames'[f].id = frames[f].id /\ frames'[f].pin = 0
  BY Zenon, <1>4, <1>6 DEF FrameCleaned
<1>14. Takes(t, f) /\ Takes(t, f)' /\ Turns(t, f)' /\ Loads(t, p, f)' /\ Engages(t, f)'
  BY Zenon, <1>2, <1>3, <1>5 DEF Takes, Turns, Loads, Engages, Went
<1>15. Frame(f)
  BY Zenon, <1>4 DEF PoolInv
<1>16. Frame(f)'
  <2>1. \A u \in Threads : u # t => ~Takes(u, f) /\ ~Takes(u, f)'
    BY <1>14, <1>5, <1>15 DEF Frame, Held, Takes, Went
  <2>2. Held(f)'
    BY Zenon, <1>3, <1>4, <1>5, <1>14, <2>1 DEF Held, Went
  <2>3. Cardinality(Pinners(p)') = 0
    BY Zenon, <1>4, <1>11, CountPins
  <2>4. Maps(f)'
    BY Zenon, <1>3, <1>4, <1>13, <1>14, <1>15, <2>3 DEF Frame, Maps
  <2>5. Shows(f)'
    BY Zenon, <1>3, <1>13, <1>14, <1>15 DEF Frame, Shows
  <2>6. Listed(f)'
    BY Zenon, <1>3, <1>13, <1>14, <1>15 DEF Frame, Listed, Unmapped
  <2> QED
    BY Zenon, <2>2, <2>4, <2>5, <2>6 DEF Frame
<1>17. Local(t, f)
  BY Zenon, <1>2, <1>3, <1>5, <1>6 DEF Local, FrameCleaned, Engages, Went
<1>18. ListsOnce'
  BY Zenon, <1>1, <1>3 DEF ListsOnce
<1> QED
  BY Zenon, <1>4, <1>5, <1>7, <1>9, <1>10, <1>12, <1>16, <1>17, <1>18, LocalStep DEF Went

\* A fetch has read its page into its frame, whatever it then does.
PageRead(t, p, f) ==
  /\ p \in Pages /\ f \in Frames /\ f # NONE /\ t # NONE
  /\ page_latch[f] = t /\ page_table[p] = f /\ Unpinned(p) /\ status[p] = "used"
  /\ frames' \in [Frames -> FrameRecord] /\ frames'[f].id = p /\ frames'[f].pin = 1
  /\ \A g \in Frames : g # f => frames'[g] = frames[g]
  /\ f \notin Range(free_list) /\ f \notin Range(lru)
  /\ \A u \in Threads : u # t => ~Takes(u, f) /\ ~Engages(u, f)
  /\ \A g : Engages(t, g) => g = f
  /\ \A u \in Threads, q \in Pages : pins[u][q] # f
  /\ \A q \in Pages : page_table[q] = f => q = p
  /\ UNCHANGED <<page_table, free_list, lru, disk, status, wrote, content>>

\* The content that a fetch reads is not newer than the page.
LEMMA ReadAge ==
  ASSUME PoolInv, NEW t, NEW p, NEW f, PageRead(t, p, f),
         frames'[f].data = IF disk[p] # NONE THEN disk[p] ELSE 0
  PROVE  \A q \in Pages : Age(q)'
<1> SUFFICES ASSUME NEW q \in Pages
             PROVE  Age(q)'
  BY Zenon
<1>1. Age(q) /\ TypeOK
  BY Zenon DEF PoolInv
<1>2. /\ status[p] = "used" /\ UNCHANGED <<disk, status, content>> /\ frames'[f].id = p
      /\ \A g \in Frames : g # f => frames'[g] = frames[g]
  BY Zenon DEF PageRead
<1>3. CASE q = p
  <2>1. content[p] \in Nat /\ content[p] # NONE
    BY <1>1, <1>2, <1>3, MaxWritesIsNat DEF Age, TypeOK, Content
  <2>2. frames'[f].data <= content[p]
    BY <1>1, <1>2, <1>3, <2>1 DEF Age
  <2>3. \A g \in Frames : frames'[g].id = p => frames'[g].data <= content[p]
    BY Zenon, <1>1, <1>2, <1>3, <2>2 DEF Age
  <2> QED
    BY Zenon, <1>1, <1>2, <1>3, <2>3 DEF Age
<1>4. CASE q # p
  <2>1. \A g \in Frames : frames'[g].id = q => frames'[g] = frames[g]
    BY Zenon, <1>2, <1>4
  <2> QED
    BY Zenon, <1>1, <1>2, <2>1 DEF Age
<1> QED
  BY Zenon, <1>3, <1>4

\* It returns the page, pinned.
LEMMA ReadReturns ==
  ASSUME Setting, PoolInv, NEW t \in Threads, NEW p, NEW f, PageRead(t, p, f), \A q \in Pages : Age(q)',
         Latch(f, NONE), Return(t), pins' = [pins EXCEPT ![t][p] = f]
  PROVE  PoolInv'
<1>1. TypeOK /\ ListsOnce
  BY Zenon DEF PoolInv
<1>2. p \in Pages /\ f \in Frames /\ f # NONE
  BY Zenon DEF PageRead
<1>3. Went(t, "idle", NONE, NONE, {})
  BY Zenon, <1>1, GoesTo DEF Points, Return
<1>4. /\ pins' \in [Threads -> [Pages -> Frames \cup {NONE}]] /\ pins'[t][p] = f
      /\ \A u \in Threads, q \in Pages : ~(u = t /\ q = p) => pins'[u][q] = pins[u][q]
  BY <1>1, <1>2, SetPin DEF TypeOK
<1>5. /\ page_latch' \in [Frames -> Threads \cup {NONE}] /\ page_latch'[f] = NONE
      /\ \A g \in Frames : g # f => page_latch'[g] = page_latch[g]
  BY Zenon, <1>1, <1>2 DEF TypeOK, Latch
<1>6. \A g \in Frames : page_latch'[g] # NONE => pc'[page_latch'[g]] # "idle"
  <2>1. \A g \in Frames : g # f => page_latch[g] # t
    BY Zenon DEF PoolInv, Frame, Held, PageRead
  <2> QED
    BY <1>1, <1>3, <1>5, <2>1, MutexesHeld
<1>7. TypeOK' /\ ListsOnce'
  BY Zenon, <1>1, <1>3, <1>4, <1>5, <1>6 DEF TypeOK, ListsOnce, FrameRecord, Went, Points, PageRead
<1>8. Thread(t)'
  BY Zenon, <1>3 DEF Thread, Fetches, Creates, Deletes, Closes, Went
<1>9. Cardinality(Pinners(p)') = 1
  <2>1. Pinners(p)' = {} \cup {t} /\ {} \in SUBSET Threads /\ t \notin {}
    BY <1>2, <1>4 DEF Pinners, Unpinned, PageRead
  <2>2. Cardinality({}) = 0
    BY Zenon, <2>1 DEF Setting, CountLaws
  <2> QED
    BY <2>1, <2>2 DEF Setting, CountLaws
<1>10. \A u \in Threads : ~Takes(u, f)'
  BY <1>3 DEF Takes, Went, PageRead
<1>11. Held(f)'
  BY Zenon, <1>5, <1>10, NoneIsNew DEF Held
<1>12. Maps(f)'
  BY Zenon, <1>9 DEF Maps, PageRead
<1>13. Shows(f)'
  BY <1>4 DEF Shows, PageRead
<1>14. Listed(f)'
  BY DEF Listed, PageRead
<1>15. Local(t, f)
  BY <1>2, <1>3, <1>4, <1>5, NoneIsNew DEF Local, Went, PageRead
<1>16. Frame(f)' /\ pc'[t] # "new_table" /\ \A u \in Threads : u # t => ~Engages(u, f)
  BY Zenon, <1>3, <1>11, <1>12, <1>13, <1>14 DEF Frame, Went, PageRead
<1> QED
  BY Zenon, <1>7, <1>8, <1>15, <1>16, LocalStep

\* It throws, and keeps the mutex.
LEMMA ReadThrows ==
  ASSUME Setting, PoolInv, NEW t \in Threads, NEW p, NEW f, PageRead(t, p, f), \A q \in Pages : Age(q)',
         Goto(t, "thrown", p, f, {}), UNCHANGED <<page_latch, pins>>
  PROVE  PoolInv'
<1>1. TypeOK /\ ListsOnce
  BY Zenon DEF PoolInv
<1>2. p \in Pages /\ f \in Frames /\ f # NONE
  BY Zenon DEF PageRead
<1>3. Went(t, "thrown", p, f, {})
  BY Zenon, <1>1, <1>2, GoesTo DEF Points
<1>4. \A g \in Frames : page_latch'[g] # NONE => pc'[page_latch'[g]] # "idle"
  <2>1. page_latch' \in [Frames -> Threads \cup {NONE}]
    BY Zenon, <1>1 DEF TypeOK
  <2>2. \A g \in Frames : page_latch'[g] = t \/ (page_latch'[g] = page_latch[g] /\ page_latch[g] # t)
    BY Zenon
  <2> QED
    BY Zenon, <1>1, <1>3, <2>1, <2>2, MutexesHeld, "thrown" # "idle"
<1>5. TypeOK' /\ ListsOnce'
  BY Zenon, <1>1, <1>3, <1>4 DEF TypeOK, ListsOnce, FrameRecord, Went, Points, PageRead
<1>6. Unpinned(p)'
  BY Zenon DEF Unpinned, PageRead
<1>7. Thread(t)'
  BY <1>3, <1>6 DEF Thread, Fetches, Creates, Deletes, Closes, Went, PageRead
<1>8. Takes(t, f)' /\ Engages(t, f)' /\ pc'[t] = "thrown" /\ arg'[t].frame = f
  BY Zenon, <1>3 DEF Takes, Engages, Went
<1>9. \A u \in Threads : u # t => ~Takes(u, f)'
  BY <1>3 DEF Takes, Went, PageRead
<1>10. Held(f)'
  BY Zenon, <1>8, <1>9 DEF Held, PageRead
<1>11. Maps(f)'
  BY Zenon, <1>8 DEF Maps, PageRead
<1>12. Shows(f)'
  BY Zenon DEF Shows, PageRead
<1>13. Listed(f)'
  BY DEF Listed, PageRead
<1>14. Local(t, f)
  BY Zenon, <1>3 DEF Local, Went, PageRead
<1>15. Frame(f)' /\ pc'[t] # "new_table" /\ \A u \in Threads : u # t => ~Engages(u, f)
  BY Zenon, <1>8, <1>10, <1>11, <1>12, <1>13 DEF Frame, PageRead
<1> QED
  BY Zenon, <1>5, <1>7, <1>14, <1>15, LocalStep

\* The fetch reads its page and pins it, or is left with the mutex locked when
\* the page is not in the file: the invariant is kept.
LEMMA FetchReadKeeps ==
  ASSUME Setting, PoolInv, NEW t \in Threads, FetchRead(t)
  PROVE  PoolInv'
<1>1. TypeOK /\ ListsOnce
  BY Zenon DEF PoolInv
<1>2. PICK p, f : arg[t].page = p /\ arg[t].frame = f
  BY Zenon
<1>3. pc[t] = "fetch_read" /\ UNCHANGED <<page_table, free_list, lru, disk, status, wrote, content>>
  BY Zenon DEF FetchRead
<1>4. /\ p \in Pages /\ f \in Frames
      /\ page_latch[f] = t /\ page_table[p] = f /\ Unpinned(p) /\ frames[f].pin = 0
  BY <1>2, <1>3 DEF PoolInv, Thread, Fetches
<1>5. PICK r : /\ frames' = [frames EXCEPT ![f] = r] /\ r \in FrameRecord
               /\ r.id = p /\ r.pin = 1 /\ r.data = (IF disk[p] # NONE THEN disk[p] ELSE 0)
  <2>1. PICK v \in Content : v = (IF disk[p] # NONE THEN disk[p] ELSE 0)
    BY <1>1, <1>4, MaxWritesIsNat DEF TypeOK, Content
  <2>2. frames' = [frames EXCEPT ![f].pin = 1, ![f].id = p, ![f].data = v]
    BY Zenon, <1>2, <2>1 DEF FetchRead
  <2>3. frames[f] \in FrameRecord
    BY Zenon, <1>1, <1>4 DEF TypeOK, FrameRecord
  <2> DEFINE s == [[[frames[f] EXCEPT !.pin = 1] EXCEPT !.id = p] EXCEPT !.data = v]
  <2>4. s \in FrameRecord /\ s.id = p /\ s.pin = 1 /\ s.data = v
    BY Zenon, <1>4, <2>3 DEF FrameRecord
  <2>5. frames' = [frames EXCEPT ![f] = s]
    BY Zenon, <1>1, <1>4, <2>2 DEF TypeOK
  <2> QED
    BY Zenon, <2>1, <2>4, <2>5
<1>6. frames' \in [Frames -> FrameRecord] /\ frames'[f] = r /\ \A g \in Frames : g # f => frames'[g] = frames[g]
  BY Zenon, <1>1, <1>4, <1>5, SetFrame
<1>7. \A u \in Threads : u # t => ~Engages(u, f)
  BY Zenon, <1>2, <1>3, FetchAlone
<1>8. Frame(f) /\ Takes(t, f) /\ f # NONE /\ t # NONE
  BY Zenon, <1>2, <1>3, <1>4, NoneIsNew DEF PoolInv, Takes
<1>9. \A u \in Threads, q \in Pages : pins[u][q] # f
  BY Zenon, <1>4, <1>8 DEF Frame, Maps, Shows, Unpinned
<1>10. /\ f \notin Range(free_list) /\ f \notin Range(lru) /\ status[p] = "used"
       /\ \A u \in Threads : u # t => ~Takes(u, f)
       /\ \A q \in Pages : page_table[q] = f => q = p
  BY Zenon, <1>4, <1>8 DEF Frame, Listed, Held, Maps
<1>11. \A g : Engages(t, g) => g = f
  BY Zenon, <1>2 DEF Engages
<1>12. PageRead(t, p, f)
  BY <1>3, <1>4, <1>5, <1>6, <1>7, <1>8, <1>9, <1>10, <1>11 DEF PageRead
<1>13. \A q \in Pages : Age(q)'
  BY Zenon, <1>5, <1>6, <1>12, ReadAge
<1>14. CASE disk[p] # NONE
  <2>1. Latch(f, NONE) /\ Return(t) /\ pins' = [pins EXCEPT ![t][p] = f]
    BY Zenon, <1>2, <1>14 DEF FetchRead
  <2> QED
    BY Zenon, <1>12, <1>13, <2>1, ReadReturns
<1>15. CASE disk[p] = NONE
  <2>1. Goto(t, "thrown", p, f, {}) /\ UNCHANGED <<page_latch, pins>>
    BY Zenon, <1>2, <1>15 DEF FetchRead
  <2> QED
    BY Zenon, <1>12, <1>13, <2>1, ReadThrows
<1> QED
  BY Zenon, <1>14, <1>15

-----------------------------------------------------------------------------
(* new_page *)

\* new_page takes a victim, whose mutex it does not have: the invariant is kept.
LEMMA NewVictimKeeps ==
  ASSUME Setting, PoolInv, NEW t \in Threads, NewVictim(t)
  PROVE  PoolInv'
<1>1. TypeOK /\ ListsOnce
  BY Zenon DEF PoolInv
<1>2. PICK f \in Frames : FindVictim(f) /\ page_table' = Erase(frames[f].id) /\ Goto(t, "new_reset", NONE, f, {})
  BY Zenon DEF NewVictim
<1>3. pc[t] = "idle" /\ UNCHANGED <<frames, page_latch, disk, status, pins, wrote, content>>
  BY Zenon DEF NewVictim, callers
<1>4. VictimTaken(f, page_table')
  BY Zenon, <1>2, VictimIsFree
<1>5. Went(t, "new_reset", NONE, f, {})
  BY Zenon, <1>1, <1>2, GoesTo DEF Points
<1>6. \A g \in Frames : page_latch'[g] # NONE => pc'[page_latch'[g]] # "idle"
  <2>1. page_latch' \in [Frames -> Threads \cup {NONE}] /\ \A g \in Frames : page_latch[g] # t /\ page_latch'[g] = page_latch[g]
    BY Zenon, <1>1, <1>3, NoneIsNew DEF TypeOK
  <2> QED
    BY Zenon, <1>1, <1>5, <2>1, MutexesHeld
<1>7. TypeOK' /\ ListsOnce'
  BY Zenon, <1>1, <1>3, <1>4, <1>5, <1>6 DEF TypeOK, VictimTaken, Went, Points
<1>8. Unmapped(f)' /\ frames'[f].pin = 0
  BY Zenon, <1>3, <1>4 DEF Unmapped, VictimTaken
<1>9. Thread(t)'
  BY Zenon, <1>5, <1>8 DEF Thread, Fetches, Creates, Deletes, Closes, Went
<1>10. Takes(t, f)' /\ Turns(t, f)' /\ \A u \in Threads : u # t => ~Takes(u, f)'
  BY <1>4, <1>5 DEF Takes, Turns, Went, VictimTaken
<1>11. ASSUME NEW u \in Threads, u # t, Engages(u, f)
       PROVE  Thread(u)'
  <2>1. pc[u] = "del_write" /\ pc'[u] = "del_write" /\ arg'[u] = arg[u] /\ arg[u].frame = f
    BY Zenon, <1>4, <1>5, <1>11 DEF VictimTaken, Went, Engages
  <2> QED
    BY <1>3, <1>8, <2>1 DEF PoolInv, Thread, Fetches, Creates, Deletes, Closes
<1>12. Frame(f)'
  <2>1. Held(f)'
    <3>1. ASSUME NEW u \in Threads, page_latch'[f] = u
          PROVE  Engages(u, f)' /\ pc'[u] \notin {"new_reset", "new_table"}
      <4>1. Engages(u, f) /\ u # t
        BY Zenon, <1>3, <3>1 DEF PoolInv, Frame, Held, Engages
      <4>2. pc[u] = "del_write" /\ pc'[u] = pc[u] /\ arg'[u] = arg[u]
        BY Zenon, <1>4, <1>5, <4>1 DEF VictimTaken, Went
      <4> QED
        BY Zenon, <4>1, <4>2 DEF Engages
    <3> QED
      BY Zenon, <1>10, <3>1 DEF Held
  <2>2. Maps(f)'
    BY Zenon, <1>8 DEF Maps, Unmapped
  <2>3. Shows(f)'
    BY Zenon, <1>3, <1>4, <1>10 DEF Shows, VictimTaken
  <2>4. Listed(f)'
    BY Zenon, <1>4, <1>10 DEF Listed, VictimTaken
  <2> QED
    BY Zenon, <2>1, <2>2, <2>3, <2>4 DEF Frame
<1>13. Local(t, f) /\ pc'[t] # "new_table"
  BY <1>3, <1>4, <1>5 DEF Local, VictimTaken, Engages, Went
<1>14. \A q \in Pages : Age(q)'
  BY Zenon, <1>3 DEF PoolInv, Age
<1> QED
  BY Zenon, <1>7, <1>9, <1>11, <1>12, <1>13, <1>14, LocalStep

\* Nobody else works on the frame of a new page once its mutex is free or the
\* page has its number.
LEMMA NewAlone ==
  ASSUME PoolInv, NEW t \in Threads, pc[t] \in {"new_reset", "new_table"},
         page_latch[arg[t].frame] = NONE \/ pc[t] = "new_table", NEW u \in Threads, u # t
  PROVE  ~Engages(u, arg[t].frame)
<1>1. PICK f : arg[t].frame = f
  BY Zenon
<1>2. f \in Frames /\ Unmapped(f) /\ (pc[t] = "new_table" => frames[f].pin = 1) /\ Frame(f)
  BY <1>1 DEF PoolInv, Thread, Creates
<1> SUFFICES ASSUME Engages(u, f)
             PROVE  FALSE
  BY Zenon, <1>1
<1>3. Thread(u)
  BY Zenon DEF PoolInv
<1>4. CASE pc[u] \in {"fetch_write", "fetch_read", "thrown"}
  BY <1>2, <1>3, <1>4 DEF Thread, Fetches, Engages, Unmapped
<1>5. CASE pc[u] \in {"new_reset", "new_table"}
  BY Zenon, <1>1, <1>2, <1>5 DEF Frame, Held, Takes, Engages
<1>6. CASE pc[u] = "del_write"
  BY <1>1, <1>2, <1>3, <1>6, NoneIsNew DEF Thread, Deletes, Engages
<1> QED
  BY Zenon, <1>4, <1>5, <1>6 DEF Engages

\* The new page has a number and its frame is reset: no copy is newer than its page.
LEMMA ResetAge ==
  ASSUME PoolInv, NEW f \in Frames, WriteBack(f), NEW p \in Pages, status[p] = "new",
         status' = [status EXCEPT ![p] = "allocated"], content' = content,
         frames'[f] = [id |-> p, data |-> 0, dirty |-> FALSE, pin |-> 1],
         \A g \in Frames : g # f => frames'[g] = frames[g]
  PROVE  disk' \in [Pages -> Content \cup {NONE}] /\ \A q \in Pages : Age(q)'
<1>1. TypeOK
  BY Zenon DEF PoolInv
<1>2. /\ frames[f].id \in Pages \cup {NONE} /\ frames[f].data \in Content /\ NONE \notin Pages
      /\ disk \in [Pages -> Content \cup {NONE}]
  BY Zenon, <1>1, NoneIsNew DEF TypeOK
<1>3. disk' \in {disk, [disk EXCEPT ![frames[f].id] = frames[f].data]} /\ (~frames[f].dirty => disk' = disk)
  BY Zenon DEF WriteBack
<1>4. disk' \in [Pages -> Content \cup {NONE}]
  BY Zenon, <1>2, <1>3
<1>5. ASSUME NEW q \in Pages
      PROVE  Age(q)'
  <2>1. Age(q)
    BY Zenon DEF PoolInv
  <2>2. disk'[q] = disk[q] \/ (q = frames[f].id /\ frames[f].dirty /\ disk'[q] = frames[f].data)
    BY Zenon, <1>2, <1>3
  <2>3. CASE q = p
    <3>1. status[q] = "new" /\ status'[q] = "allocated"
      BY Zenon, <1>1, <2>3 DEF TypeOK
    <3>2. disk'[q] = NONE
      BY Zenon, <2>1, <2>2, <3>1 DEF Age
    <3>3. \A g \in Frames : frames'[g].id = q => frames'[g].data = 0 /\ ~frames'[g].dirty
      BY <2>1, <2>3, <3>1 DEF Age
    <3> QED
      BY Zenon, <3>1, <3>2, <3>3 DEF Age
  <2>4. CASE q # p
    <3>1. \A g \in Frames : frames'[g].id = q => g # f /\ frames'[g] = frames[g]
      BY <2>4
    <3>2. status'[q] = status[q] /\ content'[q] = content[q]
      BY Zenon, <1>1, <2>4 DEF TypeOK
    <3> QED
      BY Zenon, <2>1, <2>2, <3>1, <3>2 DEF Age
  <2> QED
    BY Zenon, <2>3, <2>4
<1> QED
  BY Zenon, <1>4, <1>5

\* new_page allocates the page and resets its frame: the invariant is kept.
LEMMA NewResetKeeps ==
  ASSUME Setting, PoolInv, NEW t \in Threads, NewReset(t)
  PROVE  PoolInv'
<1>1. TypeOK /\ ListsOnce
  BY Zenon DEF PoolInv
<1>2. PICK f : arg[t].frame = f
  BY Zenon
<1>3. PICK p \in Pages :
        /\ status[p] = "new" /\ status' = [status EXCEPT ![p] = "allocated"] /\ WriteBack(f)
        /\ frames' = [frames EXCEPT ![f] = [id |-> p, data |-> 0, dirty |-> FALSE, pin |-> 1]]
        /\ Goto(t, "new_table", p, f, {})
  BY Zenon, <1>2 DEF NewReset
<1>4. /\ pc[t] = "new_reset" /\ page_latch[f] = NONE
      /\ UNCHANGED <<page_latch, page_table, free_list, lru, pins, wrote, content>>
  BY Zenon, <1>2 DEF NewReset, Free, callers
<1>5. f \in Frames /\ Unmapped(f) /\ f # NONE
  BY Zenon, <1>2, <1>4, NoneIsNew DEF PoolInv, Thread, Creates
<1>6. PICK r : r \in FrameRecord /\ r = [id |-> p, data |-> 0, dirty |-> FALSE, pin |-> 1]
  <2>1. 0 \in Content
    BY MaxWritesIsNat DEF Content
  <2>2. [id |-> p, data |-> 0, dirty |-> FALSE, pin |-> 1] \in FrameRecord
    BY Zenon, <2>1 DEF FrameRecord
  <2> QED
    BY Zenon, <2>2
<1>7. frames' \in [Frames -> FrameRecord] /\ frames'[f] = r /\ \A g \in Frames : g # f => frames'[g] = frames[g]
  BY Zenon, <1>1, <1>3, <1>5, <1>6, SetFrame
<1>8. disk' \in [Pages -> Content \cup {NONE}] /\ \A q \in Pages : Age(q)'
  BY Zenon, <1>3, <1>4, <1>5, <1>6, <1>7, ResetAge
<1>9. Went(t, "new_table", p, f, {})
  BY Zenon, <1>1, <1>3, <1>5, GoesTo DEF Points
<1>10. \A g \in Frames : page_latch'[g] # NONE => pc'[page_latch'[g]] # "idle"
  <2>1. page_latch' \in [Frames -> Threads \cup {NONE}]
    BY Zenon, <1>1, <1>4 DEF TypeOK
  <2>2. \A g \in Frames : page_latch'[g] = t \/ (page_latch'[g] = page_latch[g] /\ page_latch[g] # t)
    BY Zenon, <1>4
  <2> QED
    BY <1>1, <1>9, <2>1, <2>2, MutexesHeld, "new_table" # "idle"
<1>11. status' \in [Pages -> {"new", "allocated", "used", "deleted"}] /\ status'[p] = "allocated"
       /\ \A q \in Pages : q # p => status'[q] = status[q]
  BY Zenon, <1>1, <1>3 DEF TypeOK
<1>12. TypeOK' /\ ListsOnce'
  BY <1>1, <1>4, <1>7, <1>8, <1>9, <1>10, <1>11 DEF TypeOK, ListsOnce, FrameRecord, Went, Points
<1>13. \A u \in Threads : u # t => ~Engages(u, f)
  BY Zenon, <1>2, <1>4, NewAlone
<1>14. Thread(t)'
  BY <1>4, <1>5, <1>6, <1>7, <1>9, <1>11 DEF Thread, Fetches, Creates, Deletes, Closes, Went, Unmapped
<1>15. Takes(t, f)' /\ Turns(t, f)' /\ \A u \in Threads : u # t => ~Takes(u, f)'
  BY Zenon, <1>9, <1>13 DEF Takes, Turns, Went, Engages
<1>16. Frame(f)'
  <2>1. Frame(f) /\ Takes(t, f)
    BY Zenon, <1>2, <1>4, <1>5 DEF PoolInv, Takes
  <2>2. Held(f)'
    BY Zenon, <1>4, <1>15, NoneIsNew DEF Held
  <2>3. Maps(f)'
    BY Zenon, <1>4, <1>5 DEF Maps, Unmapped
  <2>4. Shows(f)'
    BY Zenon, <1>4, <1>5, <1>15, <2>1 DEF Frame, Shows, Unmapped
  <2>5. Listed(f)'
    <3>1. f \notin Range(free_list) /\ f \notin Range(lru)
      BY Zenon, <2>1 DEF Frame, Listed
    <3>2. frames'[f].pin # 0
      BY <1>6, <1>7
    <3> QED
      BY Zenon, <1>4, <3>1, <3>2 DEF Listed
  <2> QED
    BY Zenon, <2>2, <2>3, <2>4, <2>5 DEF Frame
<1>17. Local(t, f)
  BY Zenon, <1>2, <1>3, <1>4, <1>7, <1>9, <1>11 DEF Local, Engages, Went
<1>18. \A u \in Threads : u # t /\ pc[u] = "new_table" => arg[u].page # arg'[t].page
  BY Zenon, <1>3, <1>9 DEF PoolInv, Thread, Creates, Went
<1> QED
  BY <1>5, <1>8, <1>12, <1>13, <1>14, <1>16, <1>17, <1>18, LocalStep

\* new_page enters the page into the table: the invariant is kept.
LEMMA NewTableKeeps ==
  ASSUME Setting, PoolInv, NEW t \in Threads, NewTable(t)
  PROVE  PoolInv'
<1>1. TypeOK /\ ListsOnce
  BY Zenon DEF PoolInv
<1>2. PICK p, f : arg[t].page = p /\ arg[t].frame = f
  BY Zenon
<1>3. /\ pc[t] = "new_table" /\ page_table' = [page_table EXCEPT ![p] = f]
      /\ status' = [status EXCEPT ![p] = "used"] /\ pins' = [pins EXCEPT ![t][p] = f]
      /\ wrote' = [wrote EXCEPT ![t] = @ \cup {p}] /\ content' = [content EXCEPT ![p] = 0]
      /\ Return(t) /\ UNCHANGED <<frames, page_latch, free_list, lru, disk>>
  BY Zenon, <1>2 DEF NewTable
<1>4. /\ p \in Pages /\ f \in Frames /\ f # NONE /\ Unmapped(f) /\ status[p] = "allocated"
      /\ frames[f].id = p /\ frames[f].pin = 1
  BY <1>2, <1>3, NoneIsNew DEF PoolInv, Thread, Creates
<1>5. page_table[p] = NONE /\ Unpinned(p)
  <2>1. page_table[p] \notin Frames
    BY Zenon, <1>4 DEF PoolInv, Frame, Maps
  <2>2. ASSUME NEW u \in Threads, pins[u][p] \in Frames PROVE FALSE
    <3>1. Shows(pins[u][p])
      BY Zenon, <2>2 DEF PoolInv, Frame
    <3>2. page_table[p] = pins[u][p]
      BY Zenon, <1>4, <3>1 DEF Shows
    <3> QED
      BY Zenon, <2>1, <2>2, <3>2
  <2> QED
    BY <1>1, <1>4, <2>1, <2>2 DEF TypeOK, Unpinned
<1>6. Went(t, "idle", NONE, NONE, {})
  BY Zenon, <1>1, <1>3, GoesTo DEF Points, Return
<1>7. /\ pins' \in [Threads -> [Pages -> Frames \cup {NONE}]] /\ pins'[t][p] = f
      /\ \A u \in Threads, q \in Pages : ~(u = t /\ q = p) => pins'[u][q] = pins[u][q]
  BY <1>1, <1>3, <1>4, SetPin DEF TypeOK
<1>8. Frame(f) /\ Takes(t, f) /\ \A u \in Threads : u # t => ~Engages(u, f)
  BY Zenon, <1>2, <1>3, <1>4, NewAlone DEF PoolInv, Takes
<1>9. \A g \in Frames : page_latch[g] # t
  BY Zenon, <1>3 DEF PoolInv, Frame, Held
<1>10. page_latch[f] = NONE
  <2>1. \A u \in Threads : u # t => page_latch[f] # u
    BY Zenon, <1>8 DEF Frame, Held
  <2> QED
    BY Zenon, <1>1, <1>4, <1>9, <2>1 DEF TypeOK
<1>11. \A g \in Frames : page_latch'[g] # NONE => pc'[page_latch'[g]] # "idle"
  <2>1. page_latch' \in [Frames -> Threads \cup {NONE}] /\ \A g \in Frames : page_latch'[g] = page_latch[g] /\ page_latch[g] # t
    BY Zenon, <1>1, <1>3, <1>9 DEF TypeOK
  <2> QED
    BY Zenon, <1>1, <1>6, <2>1, MutexesHeld
<1>12. /\ status' \in [Pages -> {"new", "allocated", "used", "deleted"}] /\ status'[p] = "used"
       /\ \A q \in Pages : q # p => status'[q] = status[q]
       /\ page_table' \in [Pages -> Frames \cup {NONE}] /\ page_table'[p] = f
       /\ \A q \in Pages : q # p => page_table'[q] = page_table[q]
       /\ content' \in [Pages -> Content \cup {NONE}] /\ content'[p] = 0
       /\ \A q \in Pages : q # p => content'[q] = content[q]
       /\ wrote' \in [Threads -> SUBSET Pages]
  BY <1>1, <1>3, <1>4, MaxWritesIsNat DEF TypeOK, Content
<1>13. TypeOK' /\ ListsOnce'
  BY Zenon, <1>1, <1>3, <1>6, <1>7, <1>11, <1>12 DEF TypeOK, ListsOnce, Went, Points
<1>14. Thread(t)' /\ pc'[t] # "new_table"
  BY Zenon, <1>6 DEF Thread, Fetches, Creates, Deletes, Closes, Went
<1>15. \A u \in Threads : ~Takes(u, f)'
  BY Zenon, <1>6, <1>8 DEF Takes, Engages, Went
<1>16. Cardinality(Pinners(p)') = 1
  <2>1. Pinners(p)' = {} \cup {t} /\ {} \in SUBSET Threads /\ t \notin {}
    BY <1>4, <1>5, <1>7 DEF Pinners, Unpinned
  <2>2. Cardinality({}) = 0
    BY Zenon, <2>1 DEF Setting, CountLaws
  <2> QED
    BY <2>1, <2>2 DEF Setting, CountLaws
<1>17. Frame(f)'
  <2>1. Held(f)'
    BY Zenon, <1>3, <1>10, <1>15, NoneIsNew DEF Held
  <2>2. \A q \in Pages : page_table'[q] = f => q = p
    BY Zenon, <1>4, <1>12 DEF Unmapped
  <2>3. Maps(f)'
    BY <1>3, <1>4, <1>12, <1>16, <2>2 DEF Maps
  <2>4. \A u \in Threads, q \in Pages : pins[u][q] # f
    BY Zenon, <1>4, <1>8 DEF Frame, Shows, Unmapped
  <2>5. Shows(f)'
    BY <1>3, <1>4, <1>7, <1>12, <2>4 DEF Shows
  <2>6. Listed(f)'
    BY <1>3, <1>4, <1>8 DEF Frame, Listed
  <2> QED
    BY Zenon, <2>1, <2>3, <2>5, <2>6 DEF Frame
<1>18. Local(t, f)
  <2>1. \A g \in Frames : g # f => ~Engages(t, g) /\ ~Engages(t, g)'
    BY Zenon, <1>2, <1>3, <1>6 DEF Engages, Went
  <2>2. \A g \in Frames : g # f => \A q \in Pages : page_table'[q] = g <=> page_table[q] = g
    BY Zenon, <1>4, <1>5, <1>12, NoneIsNew
  <2>3. \A u \in Threads, q \in Pages :
          \/ pins'[u][q] = pins[u][q]
          \/ f \in Frames /\ page_table'[q] = f /\ pins'[u][q] \in {f, NONE}
    BY Zenon, <1>4, <1>7, <1>12
  <2>4. \A q \in Pages : \/ status'[q] = status[q]
                         \/ pc[t] = "new_table" /\ arg[t].page = q
    BY Zenon, <1>2, <1>3, <1>12
  <2> QED
    BY Zenon, <1>3, <1>6, <2>1, <2>2, <2>3, <2>4 DEF Local, Went
<1>19. ASSUME NEW q \in Pages
       PROVE  Age(q)'
  <2>1. Age(q) /\ Age(p)
    BY Zenon, <1>4 DEF PoolInv
  <2>2. CASE q = p
    <3>1. disk[p] = NONE /\ \A g \in Frames : frames[g].id = p => frames[g].data = 0
      BY Zenon, <1>4, <2>1 DEF Age
    <3>2. 0 # NONE
      BY NoneIsNew, MaxWritesIsNat
    <3> QED
      BY <1>3, <1>12, <2>2, <3>1, <3>2 DEF Age
  <2>3. CASE q # p
    BY Zenon, <1>3, <1>12, <2>1, <2>3 DEF Age
  <2> QED
    BY Zenon, <2>2, <2>3
<1> QED
  BY Zenon, <1>8, <1>13, <1>14, <1>17, <1>18, <1>19, LocalStep

-----------------------------------------------------------------------------
(* delete_page and free_page *)

\* The frame of a page that nobody uses leaves the replacer and the table for
\* the free list.
FrameFreed(f, p) ==
  /\ free_list' \in Seq(Frames) /\ lru' \in Seq(Frames) /\ ListsOnce'
  /\ f \in Range(free_list') /\ f \notin Range(lru')
  /\ \A g \in Frames : g # f => /\ g \in Range(free_list') <=> g \in Range(free_list)
                                /\ g \in Range(lru') <=> g \in Range(lru)
  /\ page_table' \in [Pages -> Frames \cup {NONE}] /\ Unmapped(f)'
  /\ \A q \in Pages, g \in Frames : g # f => (page_table'[q] = g <=> page_table[q] = g)
  /\ frames[f].pin = 0 /\ frames[f].id = p /\ status[p] = "used"
  /\ \A u \in Threads : ~Engages(u, f) /\ ~Takes(u, f)
  /\ \A u \in Threads, q \in Pages : pins[u][q] # f

\* What delete_page, free_page and free_all_pages do to the lists does this.
LEMMA FreesFrame ==
  ASSUME Setting, PoolInv, NEW p \in Pages, NEW f \in Frames, page_table[p] = f, page_latch[f] = NONE,
         Unpinned(p), ReplacerPin(f), page_table' = [page_table EXCEPT ![p] = NONE],
         free_list' = Append(free_list, f)
  PROVE  FrameFreed(f, p)
<1>1. TypeOK /\ ListsOnce
  BY Zenon DEF PoolInv
<1>2. /\ \A u \in Threads : ~Engages(u, f)
      /\ frames[f].id = p /\ frames[f].pin = Cardinality(Pinners(p)) /\ status[p] = "used"
      /\ f \notin Range(free_list)
      /\ \A q \in Pages : page_table[q] = f => q = p
      /\ \A u \in Threads, q \in Pages : pins[u][q] = f => q = p
  BY Zenon, FrameOfPage
<1>3. frames[f].pin = 0
  BY Zenon, <1>2, CountPins
<1>4. f # NONE
  BY Zenon, NoneIsNew
<1>5. \A u \in Threads, q \in Pages : pins[u][q] # f
  BY Zenon, <1>2, <1>4 DEF Unpinned
<1>6. \A u \in Threads : ~Takes(u, f)
  BY Zenon, <1>2 DEF Engages, Takes
<1>7. /\ lru' \in Seq(Frames) /\ IsInjective(lru')
      /\ \A g : g \in Range(lru') <=> g \in Range(lru) /\ g # f
  BY Zenon, <1>1, PinList DEF TypeOK, ListsOnce
<1>8. /\ free_list' \in Seq(Frames) /\ IsInjective(free_list')
      /\ \A g : g \in Range(free_list') <=> g \in Range(free_list) \/ g = f
  <2>1. free_list \in Seq(Frames) /\ IsInjective(free_list)
    BY Zenon, <1>1 DEF TypeOK, ListsOnce
  <2> QED
    BY Zenon, <1>2, <2>1, FreeList
<1>9. /\ page_table' \in [Pages -> Frames \cup {NONE}] /\ page_table'[p] = NONE
      /\ \A q \in Pages : q # p => page_table'[q] = page_table[q]
  BY Zenon, <1>1 DEF TypeOK
<1>10. Unmapped(f)' /\ \A q \in Pages, g \in Frames : g # f => (page_table'[q] = g <=> page_table[q] = g)
  BY Zenon, <1>2, <1>4, <1>9, NoneIsNew DEF Unmapped
<1> QED
  BY <1>2, <1>3, <1>5, <1>6, <1>7, <1>8, <1>9, <1>10 DEF FrameFreed, ListsOnce

\* delete_page gives the frame to the free list and goes on to write it back.
LEMMA DeletesFrame ==
  ASSUME Setting, PoolInv, NEW t \in Threads, NEW p \in Pages, NEW f \in Frames, FrameFreed(f, p),
         pc[t] = "idle", Latch(f, t), Goto(t, "del_write", p, f, {}),
         status' \in [Pages -> {"new", "allocated", "used", "deleted"}], status'[p] = "deleted",
         \A q \in Pages : q # p => status'[q] = status[q],
         page_table[p] = f, content' \in [Pages -> Content \cup {NONE}],
         UNCHANGED <<frames, disk, pins, wrote>>, \A q \in Pages : Age(q)'
  PROVE  PoolInv'
<1>1. TypeOK /\ ListsOnce
  BY Zenon DEF PoolInv
<1>2. Went(t, "del_write", p, f, {})
  BY Zenon, <1>1, GoesTo DEF Points
<1>3. /\ page_latch' \in [Frames -> Threads \cup {NONE}] /\ page_latch'[f] = t
      /\ \A g \in Frames : g # f => page_latch'[g] = page_latch[g]
  BY Zenon, <1>1 DEF TypeOK, Latch
<1>4. \A g \in Frames : page_latch'[g] # NONE => pc'[page_latch'[g]] # "idle"
  <2>1. \A g \in Frames : page_latch[g] # t
    BY <1>1, NoneIsNew DEF TypeOK
  <2> SUFFICES ASSUME NEW g \in Frames, page_latch'[g] # NONE PROVE pc'[page_latch'[g]] # "idle"
    BY Zenon
  <2>2. CASE g = f
    BY Zenon, <1>2, <1>3, <2>2 DEF Went
  <2>3. CASE g # f
    <3>1. page_latch[g] \in Threads /\ page_latch[g] # t /\ pc[page_latch[g]] # "idle"
      BY <1>1, <1>3, <2>1, <2>3 DEF TypeOK
    <3> QED
      BY Zenon, <1>2, <1>3, <2>3, <3>1 DEF Went
  <2> QED
    BY Zenon, <2>2, <2>3
<1>5. TypeOK' /\ ListsOnce'
  BY Zenon, <1>1, <1>2, <1>3, <1>4 DEF TypeOK, FrameFreed, Went, Points
<1>6. Thread(t)'
  <2>1. arg'[t].page = p /\ arg'[t].frame = f
    BY Zenon, <1>2 DEF Went
  <2>2. /\ page_latch'[f] = t /\ Unmapped(f)' /\ frames'[f].id = p /\ frames'[f].pin = 0
        /\ status'[p] = "deleted"
    BY Zenon, <1>3 DEF FrameFreed
  <2>3. Deletes(t)'
    BY Zenon, <2>1, <2>2 DEF Deletes
  <2>4. Fetches(t)' /\ Creates(t)' /\ Closes(t)'
    BY Zenon, <1>2 DEF Fetches, Creates, Closes, Went
  <2> QED
    BY Zenon, <2>3, <2>4 DEF Thread
<1>7. Engages(t, f)' /\ Turns(t, f)' /\ pc'[t] = "del_write" /\ \A u \in Threads : ~Takes(u, f)'
  BY <1>2 DEF Engages, Turns, Takes, Went, FrameFreed
<1>8. Frame(f)'
  <2>1. Held(f)'
    BY Zenon, <1>3, <1>7 DEF Held
  <2>2. Maps(f)'
    BY Zenon DEF Maps, FrameFreed, Unmapped
  <2>3. Shows(f)'
    BY Zenon, <1>7 DEF Shows, FrameFreed
  <2>4. Listed(f)'
    BY Zenon, <1>7 DEF Listed, FrameFreed
  <2> QED
    BY Zenon, <2>1, <2>2, <2>3, <2>4 DEF Frame
<1>9. Local(t, f)
  <2>1. \A g \in Frames : g # f => ~Engages(t, g) /\ ~Engages(t, g)'
    BY Zenon, <1>2 DEF Engages, Went
  <2> QED
    BY Zenon, <1>2, <1>3, <2>1 DEF Local, Went, FrameFreed
<1>10. pc'[t] # "new_table" /\ \A u \in Threads : ~Engages(u, f)
  BY Zenon, <1>7 DEF FrameFreed
<1> QED
  BY <1>5, <1>6, <1>8, <1>9, <1>10, LocalStep

\* delete_page keeps the invariant.
LEMMA DeletePageKeeps ==
  ASSUME Setting, PoolInv, NEW t \in Threads, NEW p \in Pages, DeletePage(t, p)
  PROVE  PoolInv'
<1>1. TypeOK /\ ListsOnce
  BY Zenon DEF PoolInv
<1>2. PICK f : page_table[p] = f
  BY Zenon
<1>3. /\ pc[t] = "idle" /\ status[p] = "used" /\ Unpinned(p)
      /\ status' = [status EXCEPT ![p] = "deleted"] /\ content' = [content EXCEPT ![p] = NONE]
      /\ UNCHANGED <<frames, disk, pins, wrote>>
  BY Zenon DEF DeletePage, Unused, Unpinned
<1>4. /\ status' \in [Pages -> {"new", "allocated", "used", "deleted"}] /\ status'[p] = "deleted"
      /\ \A q \in Pages : q # p => status'[q] = status[q] /\ content'[q] = content[q]
      /\ content' \in [Pages -> Content \cup {NONE}]
  BY Zenon, <1>1, <1>3 DEF TypeOK
<1>5. ASSUME NEW q \in Pages
      PROVE  Age(q)'
  <2>1. Age(q)
    BY Zenon DEF PoolInv
  <2>2. CASE q = p
    BY Zenon, <1>4, <2>2 DEF Age
  <2>3. CASE q # p
    BY Zenon, <1>3, <1>4, <2>1, <2>3 DEF Age
  <2> QED
    BY Zenon, <2>2, <2>3
<1>6. CASE f = NONE
  <2>1. UNCHANGED <<page_latch, page_table, free_list, lru, pc, arg>>
    BY Zenon, <1>2, <1>6 DEF DeletePage
  <2>2. TypeOK' /\ ListsOnce'
    BY Zenon, <1>1, <1>3, <1>4, <2>1 DEF TypeOK, ListsOnce
  <2>3. Thread(t)' /\ pc'[t] # "new_table" /\ \A g : ~Engages(t, g) /\ ~Engages(t, g)'
    BY Zenon, <1>3, <2>1 DEF Thread, Fetches, Creates, Deletes, Closes, Engages
  <2>4. Local(t, NONE)
    BY Zenon, <1>2, <1>3, <1>4, <1>6, <2>1, <2>3 DEF Local
  <2>5. NONE \notin Frames /\ \A u \in Threads : ~Engages(u, NONE)
    BY NoneIsNew DEF PoolInv, Thread, Fetches, Creates, Deletes, Engages
  <2> QED
    BY Zenon, <1>5, <2>2, <2>3, <2>4, <2>5, LocalStep
<1>7. CASE f # NONE
  <2>1. f \in Frames /\ page_latch[f] = NONE
    BY Zenon, <1>1, <1>2, <1>7 DEF DeletePage, TypeOK, Free
  <2>2. frames[f].pin = 0
    BY <1>2, <1>3, <2>1, FrameOfPage, CountPins
  <2>3. /\ ReplacerPin(f) /\ page_table' = [page_table EXCEPT ![p] = NONE]
        /\ free_list' = Append(free_list, f) /\ Latch(f, t) /\ Goto(t, "del_write", p, f, {})
    <3>1. ~(0 > 0)
      OBVIOUS
    <3> QED
      BY Zenon, <1>2, <1>7, <2>2, <3>1 DEF DeletePage
  <2>4. FrameFreed(f, p)
    BY Zenon, <1>2, <1>3, <2>1, <2>3, FreesFrame
  <2> QED
    BY <1>2, <1>3, <1>4, <1>5, <2>1, <2>3, <2>4, DeletesFrame
<1> QED
  BY Zenon, <1>6, <1>7

\* A frame that shows no page has no data that could be too new.
LEMMA EmptiedAge ==
  ASSUME PoolInv, NEW f \in Frames, WriteBack(f), UNCHANGED <<status, content>>,
         frames'[f].id = NONE, \A g \in Frames : g # f => frames'[g] = frames[g]
  PROVE  disk' \in [Pages -> Content \cup {NONE}] /\ \A q \in Pages : Age(q)'
<1>1. TypeOK
  BY Zenon DEF PoolInv
<1>2. /\ frames[f].id \in Pages \cup {NONE} /\ frames[f].data \in Content /\ NONE \notin Pages
      /\ disk \in [Pages -> Content \cup {NONE}]
  BY Zenon, <1>1, NoneIsNew DEF TypeOK
<1>3. disk' \in {disk, [disk EXCEPT ![frames[f].id] = frames[f].data]} /\ (~frames[f].dirty => disk' = disk)
  BY Zenon DEF WriteBack
<1>4. disk' \in [Pages -> Content \cup {NONE}]
  BY Zenon, <1>2, <1>3
<1>5. ASSUME NEW q \in Pages
      PROVE  Age(q)'
  <2>1. Age(q)
    BY Zenon DEF PoolInv
  <2>2. disk'[q] = disk[q] \/ (q = frames[f].id /\ frames[f].dirty /\ disk'[q] = frames[f].data)
    BY Zenon, <1>2, <1>3
  <2>3. \A g \in Frames : frames'[g].id = q => frames'[g] = frames[g]
    BY Zenon, <1>2
  <2> QED
    BY Zenon, <2>1, <2>2, <2>3 DEF Age
<1> QED
  BY <1>4, <1>5

\* delete_page writes the page back and empties the frame, which new_page may
\* already have taken: the invariant is kept.
LEMMA DeleteWriteKeeps ==
  ASSUME Setting, PoolInv, NEW t \in Threads, DeleteWrite(t)
  PROVE  PoolInv'
<1>1. TypeOK /\ ListsOnce
  BY Zenon DEF PoolInv
<1>2. PICK f : arg[t].frame = f
  BY Zenon
<1>3. /\ pc[t] = "del_write" /\ WriteBack(f) /\ Latch(f, NONE) /\ Return(t)
      /\ frames' = [frames EXCEPT ![f].id = NONE, ![f].data = 0, ![f].dirty = FALSE]
      /\ UNCHANGED <<page_table, free_list, lru, status, pins, wrote, content>>
  BY Zenon, <1>2 DEF DeleteWrite, callers
<1>4. f \in Frames /\ f # NONE /\ page_latch[f] = t /\ Unmapped(f) /\ frames[f].pin = 0
  BY <1>2, <1>3, NoneIsNew DEF PoolInv, Thread, Deletes
<1>5. PICK r : /\ frames' = [frames EXCEPT ![f] = r] /\ r \in FrameRecord
               /\ r.id = NONE /\ r.pin = frames[f].pin
  <2>1. frames[f] \in FrameRecord /\ 0 \in Content
    BY <1>1, <1>4, MaxWritesIsNat DEF TypeOK, FrameRecord, Content
  <2> DEFINE s == [[[frames[f] EXCEPT !.id = NONE] EXCEPT !.data = 0] EXCEPT !.dirty = FALSE]
  <2>2. s \in FrameRecord /\ s.id = NONE /\ s.pin = frames[f].pin
    BY Zenon, <2>1 DEF FrameRecord
  <2>3. frames' = [frames EXCEPT ![f] = s]
    BY Zenon, <1>1, <1>3, <1>4 DEF TypeOK
  <2> QED
    BY Zenon, <2>2, <2>3
<1>6. frames' \in [Frames -> FrameRecord] /\ frames'[f] = r /\ \A g \in Frames : g # f => frames'[g] = frames[g]
  BY Zenon, <1>1, <1>4, <1>5, SetFrame
<1>7. disk' \in [Pages -> Content \cup {NONE}] /\ \A q \in Pages : Age(q)'
  BY Zenon, <1>3, <1>4, <1>5, <1>6, EmptiedAge
<1>8. Went(t, "idle", NONE, NONE, {})
  BY Zenon, <1>1, <1>3, GoesTo DEF Points, Return
<1>9. /\ page_latch' \in [Frames -> Threads \cup {NONE}] /\ page_latch'[f] = NONE
      /\ \A g \in Frames : g # f => page_latch'[g] = page_latch[g]
  BY Zenon, <1>1, <1>3, <1>4 DEF TypeOK, Latch
<1>10. \A g \in Frames : page_latch'[g] # NONE => pc'[page_latch'[g]] # "idle"
  <2>1. \A g \in Frames : g # f => page_latch[g] # t
    BY Zenon, <1>2 DEF PoolInv, Frame, Held, Engages
  <2> QED
    BY Zenon, <1>1, <1>8, <1>9, <2>1, MutexesHeld
<1>11. TypeOK' /\ ListsOnce'
  BY <1>1, <1>3, <1>6, <1>7, <1>8, <1>9, <1>10 DEF TypeOK, ListsOnce, FrameRecord, Went, Points
<1>12. Thread(t)' /\ pc'[t] # "new_table"
  BY Zenon, <1>8 DEF Thread, Fetches, Creates, Deletes, Closes, Went
<1>13. Unmapped(f)' /\ frames'[f].pin = 0
  BY Zenon, <1>3, <1>4, <1>5, <1>6 DEF Unmapped
<1>14. ASSUME NEW u \in Threads, u # t, Engages(u, f)
       PROVE  Thread(u)'
  <2>1. Thread(u) /\ pc'[u] = pc[u] /\ arg'[u] = arg[u] /\ arg[u].frame = f
    BY Zenon, <1>8, <1>14 DEF PoolInv, Went, Engages
  <2>2. pc[u] = "new_reset"
    <3>1. ~(pc[u] \in {"fetch_write", "fetch_read", "thrown"})
      BY Zenon, <1>4, <2>1 DEF Thread, Fetches, Unmapped
    <3>2. pc[u] # "new_table"
      BY <1>4, <2>1 DEF Thread, Creates
    <3>3. pc[u] # "del_write"
      BY Zenon, <1>4, <1>14, <2>1 DEF Thread, Deletes
    <3> QED
      BY Zenon, <1>14, <3>1, <3>2, <3>3 DEF Engages
  <2> QED
    BY <1>13, <2>1, <2>2 DEF Thread, Fetches, Creates, Deletes, Closes
<1>15. \A u \in Threads : Takes(u, f)' <=> Takes(u, f)
  BY Zenon, <1>3, <1>8 DEF Takes, Went
<1>16. Frame(f)'
  <2>1. Frame(f)
    BY Zenon, <1>4 DEF PoolInv
  <2>2. Held(f)'
    BY Zenon, <1>9, <1>15, <2>1, NoneIsNew DEF Frame, Held
  <2>3. Maps(f)'
    BY Zenon, <1>13 DEF Maps, Unmapped
  <2>4. Shows(f)'
    BY <1>3, <1>4, <1>5, <1>6, <2>1, NoneIsNew DEF Frame, Shows, Unmapped
  <2>5. Listed(f)'
    BY Zenon, <1>3, <1>4, <1>13, <1>15, <2>1 DEF Frame, Listed
  <2> QED
    BY Zenon, <2>2, <2>3, <2>4, <2>5 DEF Frame
<1>17. Local(t, f)
  BY Zenon, <1>2, <1>3, <1>6, <1>8, <1>9, NoneIsNew DEF Local, Engages, Went
<1> QED
  BY <1>7, <1>11, <1>12, <1>14, <1>16, <1>17, LocalStep

\* A frame is freed and shows no page: free_page, and free_all_pages one frame
\* at a time.
LEMMA EmptiesFrame ==
  ASSUME Setting, PoolInv, NEW t \in Threads, NEW p \in Pages, NEW f \in Frames, page_table[p] = f,
         page_latch[f] = NONE, Unpinned(p), FreeFrame(f, p),
         \A u \in Threads : u # t => pc'[u] = pc[u] /\ arg'[u] = arg[u],
         UNCHANGED <<page_latch, disk, status, callers>>,
         TypeOK => pc' \in [Threads -> Points],
         TypeOK => arg' \in [Threads -> [page : Pages \cup Files \cup {NONE}, frame : Frames \cup {NONE},
                                         todo : SUBSET Frames]],
         \A g : ~Engages(t, g) /\ ~Engages(t, g)', Thread(t)'
  PROVE  PoolInv'
<1>1. TypeOK /\ ListsOnce
  BY Zenon DEF PoolInv
<1>2. UNCHANGED <<page_latch, disk, status, pins, wrote, content>>
  BY Zenon DEF callers
<1>3. FrameFreed(f, p)
  BY Zenon, FreesFrame DEF FreeFrame
<1>4. PICK r : frames' = [frames EXCEPT ![f] = r] /\ r \in FrameRecord /\ r.id = NONE /\ r.pin = frames[f].pin
  <2>1. frames[f] \in FrameRecord
    BY Zenon, <1>1 DEF TypeOK, FrameRecord
  <2> DEFINE s == [frames[f] EXCEPT !.id = NONE]
  <2>2. s \in FrameRecord /\ s.id = NONE /\ s.pin = frames[f].pin
    BY Zenon, <2>1 DEF FrameRecord
  <2>3. frames' = [frames EXCEPT ![f] = s]
    BY Zenon DEF FreeFrame
  <2> QED
    BY Zenon, <2>2, <2>3
<1>5. frames' \in [Frames -> FrameRecord] /\ frames'[f] = r /\ \A g \in Frames : g # f => frames'[g] = frames[g]
  BY Zenon, <1>1, <1>4, SetFrame
<1>6. ASSUME NEW q \in Pages
      PROVE  Age(q)'
  <2>1. \A g \in Frames : frames'[g].id = q => frames'[g] = frames[g]
    BY Zenon, <1>4, <1>5, NoneIsNew
  <2>2. Age(q)
    BY Zenon DEF PoolInv
  <2> QED
    BY <1>2, <2>1, <2>2 DEF Age
<1>7. \A u \in Threads, g \in Frames : page_latch[g] = u => pc'[u] # "idle"
  <2> SUFFICES ASSUME NEW u \in Threads, NEW g \in Frames, page_latch[g] = u
               PROVE  pc'[u] # "idle"
    BY Zenon
  <2>1. Engages(u, g) /\ u # t
    BY Zenon DEF PoolInv, Frame, Held
  <2> QED
    BY Zenon, <2>1 DEF Engages
<1>8. TypeOK' /\ ListsOnce'
  <2>1. page_latch' \in [Frames -> Threads \cup {NONE}] /\ \A g \in Frames : page_latch'[g] # NONE => pc'[page_latch'[g]] # "idle"
    BY <1>1, <1>2, <1>7 DEF TypeOK
  <2> QED
    BY <1>1, <1>2, <1>3, <1>5, <2>1 DEF TypeOK, FrameRecord, FrameFreed, Points
<1>9. \A u \in Threads : ~Engages(u, f) /\ ~Takes(u, f)'
  <2> TAKE u \in Threads
  <2>1. ~Engages(u, f) /\ ~Takes(u, f)
    BY Zenon, <1>3 DEF FrameFreed
  <2>2. ~Takes(u, f)'
    <3>1. CASE u = t
      <4>1. ~Engages(t, f)'
        BY Zenon
      <4> QED
        BY Zenon, <3>1, <4>1 DEF Takes, Engages
    <3>2. CASE u # t
      <4>1. pc'[u] = pc[u] /\ arg'[u] = arg[u]
        BY Zenon, <3>2
      <4> QED
        BY Zenon, <2>1, <4>1 DEF Takes
    <3> QED
      BY Zenon, <3>1, <3>2
  <2> QED
    BY Zenon, <2>1, <2>2
<1>10. Frame(f)'
  <2>1. Held(f)'
    BY Zenon, <1>2, <1>9, NoneIsNew DEF Held
  <2>2. Maps(f)'
    BY Zenon, <1>3 DEF Maps, FrameFreed, Unmapped
  <2>3. \A u \in Threads, q \in Pages : pins'[u][q] # f
    BY Zenon, <1>2, <1>3 DEF FrameFreed
  <2>4. frames'[f].id \notin Pages
    BY Zenon, <1>4, <1>5, NoneIsNew
  <2>5. Shows(f)'
    BY Zenon, <2>3, <2>4 DEF Shows
  <2>6. Listed(f)'
    BY Zenon, <1>3, <1>4, <1>5, <1>9 DEF Listed, FrameFreed
  <2> QED
    BY Zenon, <2>1, <2>2, <2>5, <2>6 DEF Frame
<1>11. Local(t, f)
  BY Zenon, <1>2, <1>3, <1>5 DEF Local, FrameFreed
<1>12. pc'[t] # "new_table"
  BY Zenon DEF Engages
<1> QED
  BY Zenon, <1>6, <1>8, <1>9, <1>10, <1>11, <1>12, LocalStep

\* free_page keeps the invariant.
LEMMA FreePageKeeps ==
  ASSUME Setting, PoolInv, NEW t \in Threads, NEW p \in Pages, free_page(t, p)
  PROVE  PoolInv'
<1>1. TypeOK
  BY Zenon DEF PoolInv
<1>2. PICK f \in Frames : page_table[p] = f /\ page_latch[f] = NONE /\ FreeFrame(f, p)
  BY Zenon, <1>1 DEF free_page, Free, TypeOK
<1>3. pc[t] = "idle" /\ Unpinned(p) /\ UNCHANGED <<page_latch, disk, status, callers>> /\ UNCHANGED <<pc, arg>>
  BY Zenon DEF free_page, Unused, Unpinned
<1>4. /\ TypeOK => pc' \in [Threads -> Points]
      /\ TypeOK => arg' \in [Threads -> [page : Pages \cup Files \cup {NONE}, frame : Frames \cup {NONE},
                                         todo : SUBSET Frames]]
  BY Zenon, <1>3 DEF TypeOK, Points
<1>5. (\A g : ~Engages(t, g) /\ ~Engages(t, g)') /\ Thread(t)'
  BY Zenon, <1>3 DEF Engages, Thread, Fetches, Creates, Deletes, Closes
<1> QED
  BY Zenon, <1>2, <1>3, <1>4, <1>5, EmptiesFrame

-----------------------------------------------------------------------------
(* close_file *)

\* A thread that works on no frame goes on, and nothing else changes.
LEMMA OnlyGoes ==
  ASSUME Setting, PoolInv, NEW t \in Threads, NEW point, NEW p, NEW todo, Went(t, point, p, NONE, todo),
         \A g : ~Engages(t, g), UNCHANGED <<pool, disk, status, callers>>, Thread(t)'
  PROVE  PoolInv'
<1>1. TypeOK /\ ListsOnce /\ NONE \notin Frames
  BY Zenon, NoneIsNew DEF PoolInv
<1>2. UNCHANGED <<frames, page_latch, page_table, free_list, lru, disk, status, pins, wrote, content>>
  BY Zenon DEF pool, callers
<1>3. \A g \in Frames : page_latch'[g] # NONE => pc'[page_latch'[g]] # "idle"
  <2>1. page_latch' \in [Frames -> Threads \cup {NONE}] /\ \A g \in Frames : page_latch'[g] = page_latch[g] /\ page_latch[g] # t
    BY Zenon, <1>1, <1>2 DEF TypeOK, PoolInv, Frame, Held
  <2> QED
    BY Zenon, <1>1, <2>1, MutexesHeld
<1>4. TypeOK' /\ ListsOnce'
  BY Zenon, <1>1, <1>2, <1>3 DEF TypeOK, ListsOnce, Went, Points
<1>5. Local(t, NONE)
  BY Zenon, <1>1, <1>2 DEF Local, Went
<1>6. pc'[t] # "new_table"
  BY Zenon, <1>1 DEF Thread, Creates, Went
<1>7. \A u \in Threads : ~Engages(u, NONE)
  BY Zenon, <1>1 DEF PoolInv, Thread, Fetches, Creates, Deletes, Engages
<1>8. \A q \in Pages : Age(q)'
  BY Zenon, <1>2 DEF PoolInv, Age
<1> QED
  BY Zenon, <1>1, <1>4, <1>5, <1>6, <1>7, <1>8, LocalStep

\* close_file begins when nobody uses the pages of the file: the invariant is
\* kept.
LEMMA CloseFileKeeps ==
  ASSUME Setting, PoolInv, NEW t \in Threads, NEW file \in Closable, CloseFile(t, file)
  PROVE  PoolInv'
<1>1. TypeOK
  BY Zenon DEF PoolInv
<1>2. /\ pc[t] = "idle" /\ Goto(t, "flush_all", file, NONE, Frames)
      /\ UNCHANGED <<pool, disk, status, callers>>
      /\ \A p \in Pages : FileOf[p] = file => Unpinned(p)
  BY Zenon DEF CloseFile, Unused, Unpinned
<1>3. Went(t, "flush_all", file, NONE, Frames)
  BY Zenon, <1>1, <1>2, ClosableFiles, GoesTo DEF Points
<1>4. UNCHANGED pins
  BY Zenon, <1>2 DEF callers
<1>5. Thread(t)'
  BY Zenon, <1>2, <1>3, <1>4 DEF Thread, Fetches, Creates, Deletes, Closes, Went, Unpinned
<1>6. \A g : ~Engages(t, g)
  BY Zenon, <1>2 DEF Engages
<1> QED
  BY <1>2, <1>3, <1>5, <1>6, OnlyGoes

\* flush_all_pages, one frame: the invariant is kept.
LEMMA FlushAllKeeps ==
  ASSUME Setting, PoolInv, NEW t \in Threads, flush_all_pages(t)
  PROVE  PoolInv'
<1>1. TypeOK /\ ListsOnce
  BY Zenon DEF PoolInv
<1>2. PICK file, todo : arg[t].page = file /\ arg[t].todo = todo
  BY Zenon
<1>3. pc[t] = "flush_all" /\ UNCHANGED <<page_latch, page_table, free_list, lru, status, pins, wrote, content>>
  BY Zenon DEF flush_all_pages, callers
<1>4. PICK f \in todo :
        /\ page_latch[f] = NONE
        /\ IF Of(f, file)
           THEN frames' = [frames EXCEPT ![f].dirty = FALSE] /\ disk' = [disk EXCEPT ![frames[f].id] = frames[f].data]
           ELSE UNCHANGED <<frames, disk>>
        /\ \/ Goto(t, "free_all", file, NONE, Frames)
           \/ Goto(t, "flush_all", file, NONE, todo \ {f})
  BY Zenon, <1>2 DEF flush_all_pages, Free
<1>5. /\ \A u \in Threads : u = t
      /\ \A g : ~Engages(t, g)
      /\ file \in Pages \/ file \in Files \/ file = NONE
      /\ f \in Frames /\ todo \subseteq Frames
      /\ Of(f, file) => /\ frames[f].id \in Pages /\ page_table[frames[f].id] = f
                        /\ status[frames[f].id] = "used" /\ Unpinned(frames[f].id)
  BY Zenon, <1>2, <1>3, <1>4, ClosingAlone
<1>6. PICK point \in {"flush_all", "free_all"} : \E rest : Went(t, point, file, NONE, rest)
  BY <1>1, <1>4, <1>5, GoesTo DEF Points
<1>7. Thread(t)'
  <2>1. pc'[t] \in {"flush_all", "free_all"} /\ arg'[t].page = file
    BY Zenon, <1>6 DEF Went
  <2>2. Closes(t)
    BY Zenon DEF PoolInv, Thread
  <2>3. Closes(t)'
    BY Zenon, <1>2, <1>3, <2>1, <2>2 DEF Closes, Unpinned
  <2>4. Fetches(t)' /\ Creates(t)' /\ Deletes(t)'
    BY Zenon, <2>1 DEF Fetches, Creates, Deletes
  <2> QED
    BY Zenon, <2>3, <2>4 DEF Thread
<1>8. CASE ~Of(f, file)
  <2>1. UNCHANGED <<pool, disk, status, callers>>
    BY Zenon, <1>3, <1>4, <1>8 DEF pool, callers
  <2> QED
    BY Zenon, <1>5, <1>6, <1>7, <2>1, OnlyGoes
<1>9. CASE Of(f, file)
  <2>1. PICK p \in Pages : frames[f].id = p /\ page_table[p] = f /\ status[p] = "used"
    BY Zenon, <1>5, <1>9
  <2>2. frames' = [frames EXCEPT ![f].dirty = FALSE] /\ disk' = [disk EXCEPT ![p] = frames[f].data]
    BY Zenon, <1>4, <1>9, <2>1
  <2>3. FrameCleaned(f)
    BY Zenon, <1>1, <1>5, <2>2, CleanFrame
  <2>4. \A q \in Pages : Age(q)'
    BY Zenon, <1>3, <1>5, <2>1, <2>2, <2>3, WrittenBack
  <2>5. /\ pc' \in [Threads -> Points] /\ pc'[t] \in {"flush_all", "free_all"}
        /\ arg' \in [Threads -> [page : Pages \cup Files \cup {NONE}, frame : Frames \cup {NONE},
                                 todo : SUBSET Frames]]
    BY Zenon, <1>6 DEF Went
  <2>6. page_latch[f] = NONE /\ \A g \in Frames : page_latch[g] = NONE
    <3>1. \A g \in Frames : page_latch[g] # t
      BY Zenon, <1>5 DEF PoolInv, Frame, Held
    <3> QED
      BY <1>1, <1>5, <3>1 DEF TypeOK
  <2>7. TypeOK'
    <3>1. disk' \in [Pages -> Content \cup {NONE}]
      BY Zenon, <1>1, <1>5, <2>1, <2>2 DEF TypeOK
    <3> QED
      BY Zenon, <1>1, <1>3, <2>3, <2>5, <2>6, <3>1 DEF TypeOK, Points, FrameCleaned, FrameRecord
  <2>8. \A u \in Threads : \A g : ~Engages(u, g) /\ ~Engages(u, g)' /\ ~Takes(u, g) /\ ~Takes(u, g)'
    BY Zenon, <1>5, <2>5 DEF Engages, Takes
  <2>9. /\ frames'[f].id = frames[f].id /\ frames'[f].pin = frames[f].pin
        /\ \A q \in Pages : Pinners(q)' = Pinners(q)
        /\ \A u \in Threads : pc[u] # "thrown" /\ pc'[u] # "thrown"
    BY Zenon, <1>3, <1>5, <2>3, <2>5 DEF FrameCleaned, Pinners
  <2>10. Frame(f)'
    <3>1. Frame(f)
      BY Zenon, <1>5 DEF PoolInv
    <3>2. Held(f)'
      BY Zenon, <1>3, <2>6, <2>8, NoneIsNew DEF Held
    <3>3. Maps(f)'
      BY Zenon, <1>3, <2>1, <2>9, <3>1 DEF Frame, Maps
    <3>4. Shows(f)'
      BY Zenon, <1>3, <2>1, <2>9, <3>1 DEF Frame, Shows
    <3>5. Listed(f)'
      BY Zenon, <1>3, <2>8, <2>9, <3>1 DEF Frame, Listed, Unmapped
    <3> QED
      BY Zenon, <3>2, <3>3, <3>4, <3>5 DEF Frame
  <2>11. Local(t, f)
    BY Zenon, <1>3, <1>5, <2>3, <2>8 DEF Local, FrameCleaned
  <2>12. ListsOnce' /\ pc'[t] # "new_table"
    BY Zenon, <1>1, <1>3, <2>5 DEF ListsOnce
  <2> QED
    BY Zenon, <1>7, <2>4, <2>7, <2>8, <2>10, <2>11, <2>12, LocalStep
<1> QED
  BY Zenon, <1>8, <1>9

\* free_all_pages, one frame: the invariant is kept.
LEMMA FreeAllKeeps ==
  ASSUME Setting, PoolInv, NEW t \in Threads, free_all_pages(t)
  PROVE  PoolInv'
<1>1. TypeOK /\ ListsOnce
  BY Zenon DEF PoolInv
<1>2. PICK file, todo : arg[t].page = file /\ arg[t].todo = todo
  BY Zenon
<1>3. pc[t] = "free_all" /\ UNCHANGED <<page_latch, disk, status, callers>>
  BY Zenon DEF free_all_pages
<1>4. PICK f \in todo :
        /\ page_latch[f] = NONE
        /\ IF Of(f, file) THEN FreeFrame(f, frames[f].id) ELSE UNCHANGED <<frames, page_table, free_list, lru>>
        /\ \/ Goto(t, "idle", NONE, NONE, {})
           \/ Goto(t, "free_all", file, NONE, todo \ {f})
  BY Zenon, <1>2 DEF free_all_pages, Free, Return
<1>5. /\ \A u \in Threads : u = t
      /\ \A g : ~Engages(t, g)
      /\ file \in Pages \/ file \in Files \/ file = NONE
      /\ f \in Frames /\ todo \subseteq Frames
      /\ Of(f, file) => /\ frames[f].id \in Pages /\ page_table[frames[f].id] = f
                        /\ status[frames[f].id] = "used" /\ Unpinned(frames[f].id)
  BY Zenon, <1>2, <1>3, <1>4, ClosingAlone
<1>6. PICK point, page, rest : /\ Went(t, point, page, NONE, rest)
                               /\ point = "idle" \/ (point = "free_all" /\ page = file)
  <2>1. CASE Goto(t, "idle", NONE, NONE, {})
    BY Zenon, <1>1, <2>1, GoesTo DEF Points
  <2>2. CASE Goto(t, "free_all", file, NONE, todo \ {f})
    <3>1. todo \ {f} \subseteq Frames /\ "free_all" \in Points
      BY Zenon, <1>5 DEF Points
    <3> QED
      BY Zenon, <1>1, <1>5, <2>2, <3>1, GoesTo
  <2> QED
    BY Zenon, <1>4, <2>1, <2>2
<1>7. Thread(t)' /\ \A g : ~Engages(t, g)'
  <2>1. pc'[t] = point /\ arg'[t].page = page
    BY Zenon, <1>6 DEF Went
  <2>2. UNCHANGED pins
    BY Zenon, <1>3 DEF callers
  <2>3. pc'[t] = "idle" \/ (pc'[t] = "free_all" /\ arg'[t].page = file)
    BY Zenon, <1>6, <2>1
  <2>4. Closes(t)
    BY Zenon DEF PoolInv, Thread
  <2>5. Closes(t)'
    BY Zenon, <1>2, <1>3, <2>2, <2>3, <2>4 DEF Closes, Unpinned
  <2>6. Fetches(t)' /\ Creates(t)' /\ Deletes(t)' /\ \A g : ~Engages(t, g)'
    BY Zenon, <2>3 DEF Fetches, Creates, Deletes, Engages
  <2> QED
    BY Zenon, <2>5, <2>6 DEF Thread
<1>8. CASE ~Of(f, file)
  <2>1. UNCHANGED <<pool, disk, status, callers>>
    BY Zenon, <1>3, <1>4, <1>8 DEF pool
  <2> QED
    BY Zenon, <1>5, <1>6, <1>7, <2>1, OnlyGoes
<1>9. CASE Of(f, file)
  <2>1. PICK p \in Pages : frames[f].id = p /\ page_table[p] = f /\ Unpinned(p) /\ FreeFrame(f, p)
    BY Zenon, <1>4, <1>5, <1>9
  <2>2. /\ TypeOK => pc' \in [Threads -> Points]
        /\ TypeOK => arg' \in [Threads -> [page : Pages \cup Files \cup {NONE}, frame : Frames \cup {NONE},
                                           todo : SUBSET Frames]]
        /\ \A u \in Threads : u # t => pc'[u] = pc[u] /\ arg'[u] = arg[u]
    BY Zenon, <1>6 DEF Went
  <2> QED
    BY Zenon, <1>3, <1>4, <1>5, <1>7, <2>1, <2>2, EmptiesFrame
<1> QED
  BY Zenon, <1>8, <1>9

=============================================================================
