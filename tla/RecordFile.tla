----------------------------- MODULE RecordFile -----------------------------
(***************************************************************************)
(* The record file of a table (src/record): pages of a fixed number of     *)
(* slots, a bitmap and a count in each, and the list of the pages that     *)
(* have a free slot, which starts in the file header and goes on from page *)
(* to page.                                                                *)
(*                                                                         *)
(* A file is a value and the calls of RmFileHandle are functions on it:    *)
(* all but delete_record(rid) hold hdr_latch_ from beginning to end.  Page *)
(* 0 is the file header, so that page[n] is page n and num_pages is        *)
(* Len(page) + 1.  A slot whose bit is not set is Unset; the bytes left in *)
(* it are never looked at.                                                 *)
(***************************************************************************)
EXTENDS Integers, Sequences, FiniteSets

CONSTANTS RecordsPerPage, \* RmFileHdr::num_records_per_page
          Values,         \* records
          Unset           \* a slot whose bit is not set

ASSUME RecordsPerPageAssumption == RecordsPerPage \in Nat \ {0}
ASSUME UnsetAssumption == Unset \notin Values

NoPage == -1
Slots == 0 .. RecordsPerPage - 1

RmPage == [slot : [Slots -> Values \cup {Unset}],
           num_records : 0 .. RecordsPerPage,
           next_free_page_no : Int]

\* RmManager::create_file
create_file == [first_free_page_no |-> NoPage, page |-> <<>>]

Pages(f) == DOMAIN f.page
SetSlots(pg) == {s \in Slots : pg.slot[s] # Unset}
Read(f, rid) == f.page[rid.page_no].slot[rid.slot_no]
IsSet(f, rid) == f.page[rid.page_no].slot[rid.slot_no] # Unset
RidsOf(f) == [page_no : Pages(f), slot_no : Slots]

\* The records: what a scan over the file gives.
RowsOf(f) == [rid \in {r \in RidsOf(f) : IsSet(f, r)} |-> Read(f, rid)]

\* The first page of the list, or a new one which then is the list.
fetch_free_page_handle(f) ==
  IF f.first_free_page_no # NoPage THEN f
  ELSE [first_free_page_no |-> Len(f.page) + 1,
        page |-> Append(f.page, [slot |-> [s \in Slots |-> Unset], num_records |-> 0,
                                 next_free_page_no |-> NoPage])]

\* memcpy, Bitmap::set, and the end of a page that is full: the list goes on
\* with its successor.
Put(f, rid, value) ==
  LET pg == f.page[rid.page_no]
      full == pg.num_records + 1 = RecordsPerPage
  IN [f EXCEPT !.page[rid.page_no].slot[rid.slot_no] = value,
               !.page[rid.page_no].num_records = @ + 1,
               !.first_free_page_no = IF full THEN pg.next_free_page_no ELSE @]

FreeSlots(pg) == Slots \ SetSlots(pg)

\* The slot insert_record(buf) takes: the first free one of the first page of
\* the list, or none.
NoRid == [page_no |-> NoPage, slot_no |-> -1]
insert_rid(f) ==
  LET n == f.first_free_page_no
      free == FreeSlots(f.page[n])
  IN IF free = {} THEN NoRid
     ELSE [page_no |-> n, slot_no |-> CHOOSE s \in free : \A u \in free : s <= u]

\* insert_record(buf), when there is a slot.
insert_record(f, value) == LET g == fetch_free_page_handle(f) IN Put(g, insert_rid(g), value)

\* insert_record(rid, buf) first waits for a page that is not before rid's, by
\* taking the first page of the list over and over.
Waits(f, rid) == fetch_free_page_handle(f).first_free_page_no < rid.page_no

\* Mutant: a record that is overwritten counts once more.
insert_counted(f, rid, value) == Put(fetch_free_page_handle(f), rid, value)

\* insert_record(rid, buf), when it gets that far: a record is overwritten,
\* or put into the free slot.
insert_at(f, rid, value) ==
  LET g == fetch_free_page_handle(f)
  IN IF IsSet(g, rid) THEN [g EXCEPT !.page[rid.page_no].slot[rid.slot_no] = value]
                      ELSE Put(g, rid, value)


\* Both delete_record: a page that was full becomes the first of the list.
\* A slot that is not set stays so.
delete_record(f, rid) ==
  LET pg == f.page[rid.page_no]
      wasFull == pg.num_records = RecordsPerPage
      g == [f EXCEPT !.page[rid.page_no].slot[rid.slot_no] = Unset,
                     !.page[rid.page_no].num_records = @ - 1]
  IN IF ~IsSet(f, rid) THEN f
     ELSE IF wasFull THEN [g EXCEPT !.page[rid.page_no].next_free_page_no = f.first_free_page_no,
                                    !.first_free_page_no = rid.page_no]
     ELSE g

update_record(f, rid, value) ==
  IF IsSet(f, rid) THEN [f EXCEPT !.page[rid.page_no].slot[rid.slot_no] = value] ELSE f

=============================================================================
