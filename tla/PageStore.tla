------------------------------ MODULE PageStore ------------------------------
(***************************************************************************)
(* What the buffer pool promises: pages that keep what was last written to *)
(* them.  Frames, eviction, the disk and the latches are invisible.        *)
(***************************************************************************)
EXTENDS Naturals

CONSTANTS Pages,  \* page identifiers (file and page number)
          NONE    \* the content of a page that does not exist

VARIABLE mem      \* the content of each page: how often it was written

StoreInit == mem \in [Pages -> {0, NONE}]

CreatePage(p) == mem[p] = NONE /\ mem' = [mem EXCEPT ![p] = 0]
WritePage(p) == mem[p] # NONE /\ mem' = [mem EXCEPT ![p] = @ + 1]
DropPage(p) == mem[p] # NONE /\ mem' = [mem EXCEPT ![p] = NONE]

StoreNext == \E p \in Pages : CreatePage(p) \/ WritePage(p) \/ DropPage(p)

StoreSpec == StoreInit /\ [][StoreNext]_mem
=============================================================================
