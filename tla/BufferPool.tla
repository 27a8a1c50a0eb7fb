----------------------------- MODULE BufferPool -----------------------------
(***************************************************************************)
(* The buffer pool manager (src/storage/buffer_pool_manager.{h,cpp}) with  *)
(* its LRU replacer (src/replacer) over the pages on disk.                 *)
(*                                                                         *)
(* latch_ protects page_table_, free_list_ and the choice of a victim; one *)
(* mutex per frame protects a frame's metadata and what the pool does with *)
(* its data.  A thread that waits for a frame's mutex keeps latch_, so     *)
(* taking both is one step, enabled when the frame's mutex is free.  A     *)
(* call that releases latch_ before it is done goes on in later steps, one *)
(* for each access to the disk.                                            *)
(*                                                                         *)
(* The callers are threads that pin pages, write to them and unpin them,   *)
(* dirty when they wrote; the content of a page is how often it was        *)
(* written.  A page is deleted, and a file closed, when nobody uses it.    *)
(* A call that finds no victim returns nullptr and changes nothing.        *)
(***************************************************************************)
EXTENDS Naturals, Sequences, FiniteSets, Functions

CONSTANTS Threads, Frames, Files,
          Pages,       \* all page ids that are ever allocated
          FileOf,      \* the file of each page
          OnDisk,      \* pages that exist from the start
          Closable,    \* files that may be closed
          NONE,        \* no page, no frame, no thread, nothing written
          MaxWrites    \* bound: writes to one page

ASSUME FileOfPages == FileOf \in [Pages -> Files]
ASSUME OnDiskPages == OnDisk \subseteq Pages
ASSUME ClosableFiles == Closable \subseteq Files
ASSUME MaxWritesIsNat == MaxWrites \in Nat
ASSUME PoolIsFinite == IsFiniteSet(Threads) /\ IsFiniteSet(Frames)
ASSUME NoneIsNew == NONE \notin Threads \cup Frames \cup Pages \cup 0 .. MaxWrites

VARIABLES frames,      \* pages_: id_, data_, is_dirty_, pin_count_
          page_latch,  \* page_latches_: who holds each
          page_table,  \* page_table_
          free_list,   \* free_list_
          lru,         \* LRUlist_ of the replacer, newest first
          disk,        \* the files
          status,      \* of each page: not yet allocated, in use, deleted
          pc, arg,     \* where each thread is, and with which page and frames
          pins,        \* the Page* each thread holds for a page
          wrote,       \* pages each thread has written since it pinned them
          content      \* history: the content of each page as last written

pool == <<frames, page_latch, page_table, free_list, lru>>
callers == <<pins, wrote, content>>
vars == <<pool, disk, status, pc, arg, callers>>

Content == 0 .. MaxWrites
NoArg == [page |-> NONE, frame |-> NONE, todo |-> {}]

Init ==
  /\ frames = [f \in Frames |-> [id |-> NONE, data |-> 0, dirty |-> FALSE, pin |-> 0]]
  /\ page_latch = [f \in Frames |-> NONE]
  /\ page_table = [p \in Pages |-> NONE]
  /\ free_list \in Bijection(1 .. Cardinality(Frames), Frames)
  /\ lru = <<>>
  /\ disk = [p \in Pages |-> IF p \in OnDisk THEN 0 ELSE NONE]
  /\ status = [p \in Pages |-> IF p \in OnDisk THEN "used" ELSE "new"]
  /\ pc = [t \in Threads |-> "idle"]
  /\ arg = [t \in Threads |-> NoArg]
  /\ pins = [t \in Threads |-> [p \in Pages |-> NONE]]
  /\ wrote = [t \in Threads |-> {}]
  /\ content = [p \in Pages |-> IF p \in OnDisk THEN 0 ELSE NONE]

-----------------------------------------------------------------------------
(* Helpers *)

\* Mutant: the frame stays in the replacer.
ReplacerPinNothing(f) == f \in Frames /\ UNCHANGED lru

\* LRUReplacer::pin: LRUhash_ leads to the frame's place in the list.
ReplacerPin(f) ==
  \/ /\ f \notin Range(lru)
     /\ UNCHANGED lru
  \/ \E i \in 1 .. Len(lru) :
       /\ lru[i] = f
       /\ lru' = SubSeq(lru, 1, i - 1) \o SubSeq(lru, i + 1, Len(lru))

\* LRUReplacer::unpin: a frame that is in the list keeps its place.
ReplacerUnpin(f) == lru' = IF f \in Range(lru) THEN lru ELSE <<f>> \o lru

\* find_victim_page: the frame is taken off its list.
FindVictim(f) ==
  \/ /\ free_list # <<>>
     /\ f = Head(free_list)
     /\ free_list' = Tail(free_list)
     /\ UNCHANGED lru
  \/ /\ free_list = <<>>
     /\ lru # <<>>
     /\ f = lru[Len(lru)]
     /\ lru' = SubSeq(lru, 1, Len(lru) - 1)
     /\ UNCHANGED free_list

\* page_table_ without an id (the id of an empty frame is in no table).
Erase(id) == IF id = NONE THEN page_table ELSE [page_table EXCEPT ![id] = NONE]

\* A dirty frame is written to its page on disk.
WriteBack(f) ==
  disk' = IF frames[f].dirty THEN [disk EXCEPT ![frames[f].id] = frames[f].data] ELSE disk

Latch(f, t) == page_latch' = [page_latch EXCEPT ![f] = t]
Free(f) == page_latch[f] = NONE

Goto(t, point, p, f, todo) ==
  /\ pc' = [pc EXCEPT ![t] = point]
  /\ arg' = [arg EXCEPT ![t] = [page |-> p, frame |-> f, todo |-> todo]]

Return(t) == Goto(t, "idle", NONE, NONE, {})

-----------------------------------------------------------------------------
(* fetch_page *)

\* Mutant: a hit does not count the pin.
FetchHitUncounted(t, p) ==
  LET f == page_table[p]
  IN /\ pc[t] = "idle" /\ status[p] = "used" /\ pins[t][p] = NONE
     /\ f # NONE /\ Free(f)
     /\ ReplacerPin(f)
     /\ pins' = [pins EXCEPT ![t][p] = f]
     /\ UNCHANGED <<frames, page_latch, page_table, free_list, disk, status, pc, arg,
                    wrote, content>>

FetchHit(t, p) ==
  LET f == page_table[p]
  IN /\ pc[t] = "idle" /\ status[p] = "used" /\ pins[t][p] = NONE
     /\ f # NONE /\ Free(f)
     /\ frames' = [frames EXCEPT ![f].pin = @ + 1]
     /\ ReplacerPin(f)
     /\ pins' = [pins EXCEPT ![t][p] = f]
     /\ UNCHANGED <<page_latch, page_table, free_list, disk, status, pc, arg, wrote, content>>

\* The table changes hands under latch_; what follows runs under the frame's
\* mutex alone.
FetchMiss(t, p) ==
  /\ pc[t] = "idle" /\ status[p] = "used" /\ pins[t][p] = NONE
  /\ page_table[p] = NONE
  /\ \E f \in Frames :
       /\ FindVictim(f) /\ Free(f)
       /\ page_table' = [Erase(frames[f].id) EXCEPT ![p] = f]
       /\ Latch(f, t)
       /\ Goto(t, "fetch_write", p, f, {})
  /\ UNCHANGED <<frames, disk, status, callers>>

\* Mutant: a dirty victim is not written back.
FetchWriteNothing(t) ==
  /\ pc[t] = "fetch_write"
  /\ frames' = [frames EXCEPT ![arg[t].frame].dirty = FALSE]
  /\ Goto(t, "fetch_read", arg[t].page, arg[t].frame, {})
  /\ UNCHANGED <<page_latch, page_table, free_list, lru, disk, status, callers>>

FetchWrite(t) ==
  LET f == arg[t].frame
  IN /\ pc[t] = "fetch_write"
     /\ WriteBack(f)
     /\ frames' = [frames EXCEPT ![f].dirty = FALSE]
     /\ Goto(t, "fetch_read", arg[t].page, f, {})
     /\ UNCHANGED <<page_latch, page_table, free_list, lru, status, callers>>

\* read_page throws when the file ends before the page: the call is left with
\* the frame's mutex locked and the page pinned.
FetchRead(t) ==
  LET f == arg[t].frame
      p == arg[t].page
      ok == disk[p] # NONE
  IN /\ pc[t] = "fetch_read"
     /\ frames' = [frames EXCEPT ![f].pin = 1, ![f].id = p,
                                 ![f].data = IF ok THEN disk[p] ELSE 0]
     /\ IF ok THEN Latch(f, NONE) /\ Return(t) /\ pins' = [pins EXCEPT ![t][p] = f]
              ELSE Goto(t, "thrown", p, f, {}) /\ UNCHANGED <<page_latch, pins>>
     /\ UNCHANGED <<page_table, free_list, lru, disk, status, wrote, content>>

-----------------------------------------------------------------------------
(* What callers do with a pinned page *)

Write(t, p) ==
  LET f == pins[t][p]
  IN /\ pc[t] = "idle" /\ f # NONE
     /\ content[p] < MaxWrites
     /\ frames' = [frames EXCEPT ![f].data = @ + 1]
     /\ content' = [content EXCEPT ![p] = @ + 1]
     /\ wrote' = [wrote EXCEPT ![t] = @ \cup {p}]
     /\ UNCHANGED <<page_latch, page_table, free_list, lru, disk, status, pc, arg, pins>>

\* Mutant: a clean unpin clears the dirty flag.
unpin_cleaning(t, p) ==
  LET f == page_table[p]
  IN /\ pc[t] = "idle" /\ pins[t][p] # NONE /\ Free(f)
     /\ frames' = [frames EXCEPT ![f].pin = @ - 1, ![f].dirty = p \in wrote[t]]
     /\ IF frames[f].pin = 1 THEN ReplacerUnpin(f) ELSE UNCHANGED lru
     /\ pins' = [pins EXCEPT ![t][p] = NONE]
     /\ wrote' = [wrote EXCEPT ![t] = @ \ {p}]
     /\ UNCHANGED <<page_latch, page_table, free_list, disk, status, pc, arg, content>>

unpin_page(t, p) ==
  LET f == page_table[p]
  IN /\ pc[t] = "idle" /\ pins[t][p] # NONE
     /\ f # NONE => Free(f)
     /\ IF f = NONE \/ frames[f].pin = 0
        THEN UNCHANGED <<frames, lru>>
        ELSE /\ frames' = [frames EXCEPT ![f].pin = @ - 1, ![f].dirty = @ \/ p \in wrote[t]]
             /\ IF frames[f].pin = 1 THEN ReplacerUnpin(f) ELSE UNCHANGED lru
     /\ pins' = [pins EXCEPT ![t][p] = NONE]
     /\ wrote' = [wrote EXCEPT ![t] = @ \ {p}]
     /\ UNCHANGED <<page_latch, page_table, free_list, disk, status, pc, arg, content>>

\* Whether the page is pinned or dirty does not matter.
flush_page(t, p) ==
  LET f == page_table[p]
  IN /\ pc[t] = "idle" /\ f # NONE /\ Free(f)
     /\ frames' = [frames EXCEPT ![f].dirty = FALSE]
     /\ disk' = [disk EXCEPT ![frames[f].id] = frames[f].data]
     /\ UNCHANGED <<page_latch, page_table, free_list, lru, status, pc, arg, callers>>

-----------------------------------------------------------------------------
(* new_page *)

\* Bound: the page numbers of the model are not used up.
PageLeft == Cardinality({p \in Pages : status[p] = "new"})
              > Cardinality({u \in Threads : pc[u] = "new_reset"})

NewVictim(t) ==
  /\ pc[t] = "idle" /\ PageLeft
  /\ \E f \in Frames : /\ FindVictim(f)
                       /\ page_table' = Erase(frames[f].id)
                       /\ Goto(t, "new_reset", NONE, f, {})
  /\ UNCHANGED <<frames, page_latch, disk, status, callers>>

\* A page number is allocated (they are never reused) and the frame reset.
NewReset(t) ==
  LET f == arg[t].frame
  IN /\ pc[t] = "new_reset" /\ Free(f)
     /\ \E p \in Pages :
          /\ status[p] = "new"
          /\ status' = [status EXCEPT ![p] = "allocated"]
          /\ WriteBack(f)
          /\ frames' = [frames EXCEPT ![f] = [id |-> p, data |-> 0, dirty |-> FALSE, pin |-> 1]]
          /\ Goto(t, "new_table", p, f, {})
     /\ UNCHANGED <<page_latch, page_table, free_list, lru, callers>>

NewTable(t) ==
  LET f == arg[t].frame
      p == arg[t].page
  IN /\ pc[t] = "new_table"
     /\ page_table' = [page_table EXCEPT ![p] = f]
     /\ status' = [status EXCEPT ![p] = "used"]
     /\ pins' = [pins EXCEPT ![t][p] = f]
     /\ wrote' = [wrote EXCEPT ![t] = @ \cup {p}]
     /\ content' = [content EXCEPT ![p] = 0]
     /\ Return(t)
     /\ UNCHANGED <<frames, page_latch, free_list, lru, disk>>

-----------------------------------------------------------------------------
(* delete_page *)

Unused(p) == \A t \in Threads : pins[t][p] = NONE /\ arg[t].page # p

\* The frame is on the free list before it is written back.
DeletePage(t, p) ==
  LET f == page_table[p]
  IN /\ pc[t] = "idle" /\ status[p] = "used" /\ Unused(p)
     /\ status' = [status EXCEPT ![p] = "deleted"]
     /\ content' = [content EXCEPT ![p] = NONE]
     /\ f # NONE => Free(f)
     /\ IF f = NONE \/ frames[f].pin > 0
        THEN UNCHANGED <<page_latch, page_table, free_list, lru, pc, arg>>
        ELSE /\ ReplacerPin(f)
             /\ page_table' = [page_table EXCEPT ![p] = NONE]
             /\ free_list' = Append(free_list, f)
             /\ Latch(f, t)
             /\ Goto(t, "del_write", p, f, {})
     /\ UNCHANGED <<frames, disk, pins, wrote>>

\* Mutant: the frame's mutex is not unlocked.
DeleteWriteLocked(t) ==
  /\ pc[t] = "del_write"
  /\ WriteBack(arg[t].frame)
  /\ frames' = [frames EXCEPT ![arg[t].frame].id = NONE, ![arg[t].frame].dirty = FALSE]
  /\ Return(t)
  /\ UNCHANGED <<page_latch, page_table, free_list, lru, status, callers>>

DeleteWrite(t) ==
  LET f == arg[t].frame
  IN /\ pc[t] = "del_write"
     /\ WriteBack(f)
     /\ frames' = [frames EXCEPT ![f].id = NONE, ![f].data = 0, ![f].dirty = FALSE]
     /\ Latch(f, NONE)
     /\ Return(t)
     /\ UNCHANGED <<page_table, free_list, lru, status, callers>>

-----------------------------------------------------------------------------
(* free_page, and close_file: flush_all_pages, then free_all_pages *)

\* What both do to the frame of a page.
FreeFrame(f, p) ==
  /\ frames' = [frames EXCEPT ![f].id = NONE]
  /\ ReplacerPin(f)
  /\ page_table' = [page_table EXCEPT ![p] = NONE]
  /\ free_list' = Append(free_list, f)

\* Only create_index calls it, after it has unpinned and flushed the page.
free_page(t, p) ==
  LET f == page_table[p]
  IN /\ pc[t] = "idle" /\ Unused(p)
     /\ f # NONE /\ Free(f) /\ frames[f].pin = 0 /\ ~frames[f].dirty
     /\ FreeFrame(f, p)
     /\ UNCHANGED <<page_latch, disk, status, pc, arg, callers>>

Of(f, file) == frames[f].id # NONE /\ FileOf[frames[f].id] = file

\* Mutant: the pages are not flushed before their frames are freed.
CloseUnflushed(t, file) ==
  /\ pc[t] = "idle"
  /\ \A p \in Pages : FileOf[p] = file => Unused(p)
  /\ Goto(t, "free_all", file, NONE, Frames)
  /\ UNCHANGED <<pool, disk, status, callers>>

CloseFile(t, file) ==
  /\ pc[t] = "idle"
  /\ \A p \in Pages : FileOf[p] = file => Unused(p)
  /\ Goto(t, "flush_all", file, NONE, Frames)
  /\ UNCHANGED <<pool, disk, status, callers>>

flush_all_pages(t) ==
  /\ pc[t] = "flush_all"
  /\ \E f \in arg[t].todo :
       /\ Free(f)
       /\ IF Of(f, arg[t].page)
          THEN /\ frames' = [frames EXCEPT ![f].dirty = FALSE]
               /\ disk' = [disk EXCEPT ![frames[f].id] = frames[f].data]
          ELSE UNCHANGED <<frames, disk>>
       /\ IF arg[t].todo = {f} THEN Goto(t, "free_all", arg[t].page, NONE, Frames)
          ELSE Goto(t, "flush_all", arg[t].page, NONE, arg[t].todo \ {f})
  /\ UNCHANGED <<page_latch, page_table, free_list, lru, status, callers>>

free_all_pages(t) ==
  /\ pc[t] = "free_all"
  /\ \E f \in arg[t].todo :
       /\ Free(f)
       /\ IF Of(f, arg[t].page) THEN FreeFrame(f, frames[f].id)
          ELSE UNCHANGED <<frames, page_table, free_list, lru>>
       /\ IF arg[t].todo = {f} THEN Return(t)
          ELSE Goto(t, "free_all", arg[t].page, NONE, arg[t].todo \ {f})
  /\ UNCHANGED <<page_latch, disk, status, callers>>

-----------------------------------------------------------------------------
Next ==
  \E t \in Threads :
    \/ \E p \in Pages : \/ FetchHit(t, p) \/ FetchMiss(t, p)
                        \/ Write(t, p) \/ unpin_page(t, p) \/ flush_page(t, p)
                        \/ DeletePage(t, p) \/ free_page(t, p)
    \/ FetchWrite(t) \/ FetchRead(t)
    \/ NewVictim(t) \/ NewReset(t) \/ NewTable(t)
    \/ DeleteWrite(t)
    \/ \E file \in Closable : CloseFile(t, file)
    \/ flush_all_pages(t) \/ free_all_pages(t)

Spec == Init /\ [][Next]_vars

-----------------------------------------------------------------------------
(* Properties *)

\* The shape of the state; a thread that is in no call holds no mutex.
TypeOK ==
  /\ frames \in [Frames -> [id : Pages \cup {NONE}, data : Content, dirty : BOOLEAN, pin : Nat]]
  /\ page_latch \in [Frames -> Threads \cup {NONE}]
  /\ page_table \in [Pages -> Frames \cup {NONE}]
  /\ free_list \in Seq(Frames) /\ lru \in Seq(Frames)
  /\ disk \in [Pages -> Content \cup {NONE}]
  /\ status \in [Pages -> {"new", "allocated", "used", "deleted"}]
  /\ pc \in [Threads -> {"idle", "fetch_write", "fetch_read", "thrown", "new_reset", "new_table",
                         "del_write", "flush_all", "free_all"}]
  /\ arg \in [Threads -> [page : Pages \cup Files \cup {NONE}, frame : Frames \cup {NONE},
                         todo : SUBSET Frames]]
  /\ pins \in [Threads -> [Pages -> Frames \cup {NONE}]]
  /\ wrote \in [Threads -> SUBSET Pages]
  /\ content \in [Pages -> Content \cup {NONE}]
  /\ \A f \in Frames : page_latch[f] # NONE => pc[page_latch[f]] # "idle"

\* A thread is turning this frame over to another page.
InTransit(f) ==
  \E t \in Threads : /\ pc[t] \in {"fetch_write", "fetch_read", "thrown", "new_reset", "new_table"}
                     /\ arg[t].frame = f

\* No frame is lost or used twice: each is either pinned or in transit, or
\* once, and once only, on the free list or in the replacer.  Two pages never
\* share a frame.
FramesAccounted ==
  LET lists == free_list \o lru
  IN /\ IsInjective(lists)
     /\ \A f \in Frames : (f \in Range(lists)) # (frames[f].pin > 0 \/ InTransit(f))
     /\ \A p, q \in Pages : page_table[p] = page_table[q] /\ p # q => page_table[p] = NONE

\* A pinned page stays: while a thread has a Page*, the frame behind it holds
\* that page, the table leads to it and its pin count is the number of pins.
PinnedStays ==
  \A t \in Threads, p \in Pages : pins[t][p] # NONE =>
    LET f == pins[t][p]
    IN /\ frames[f].id = p
       /\ page_table[p] = f
       /\ frames[f].pin = Cardinality({u \in Threads : pins[u][p] # NONE})

\* A page that a thread has pinned shows what was last written to it,
\* whatever was evicted, written back and read again in between.
FetchedIsCurrent ==
  \A t \in Threads, p \in Pages :
    pins[t][p] # NONE => frames[pins[t][p]].data = content[p]

\* What is not in the pool is on disk: a page in use without a frame of its
\* own, after an eviction or a close, has its last content in the file.
UncachedIsOnDisk ==
  \A p \in Pages :
    status[p] = "used" /\ (\A f \in Frames : frames[f].id # p) => disk[p] = content[p]

\* The pool is a page store: a page's content is in its frame, else on disk.
Stored(p) ==
  IF status[p] # "used" THEN NONE
  ELSE IF \E f \in Frames : frames[f].id = p
  THEN frames[CHOOSE f \in Frames : frames[f].id = p].data
  ELSE disk[p]

Store == INSTANCE PageStore WITH mem <- [p \in Pages |-> Stored(p)]

\* With one caller, eviction, loading, flushing and closing never change what
\* a page contains.
ImplementsPageStore == Store!StoreSpec
=============================================================================
