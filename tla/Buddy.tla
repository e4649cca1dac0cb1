------------------------------- MODULE Buddy -------------------------------
(***************************************************************************)
(* The buddy allocator of physical pages (kernel/mem/buddy.c).            *)
(*                                                                         *)
(* The allocator keeps one free list per order; a free block of order o   *)
(* is named by its first page, whose pp_order is o and pp_free 1.          *)
(* page_alloc() always asks buddy_find() for order 0 and splits a larger   *)
(* block when it must; page_free() marks the page free and merges it with *)
(* its buddy as long as the buddy is a free block of the same order.       *)
(* Every operation runs under the buddy lock (or the big kernel lock), so  *)
(* each is one atomic action.                                              *)
(*                                                                         *)
(* The list primitives are not part of the sources: list_add() links a    *)
(* node right after the head, list_pop() unlinks the node after the head,  *)
(* and list_del() of a node that is on no list leaves every list alone     *)
(* (page_alloc() and buddy_merge() rely on this).  A list is a sequence    *)
(* whose first element is the node after the head.                         *)
(* Page contents, pp_zero and the zero list are left out: the zeroing     *)
(* thread that reads them is never started.                                *)
(***************************************************************************)
EXTENDS Naturals, Sequences, FiniteSets, FiniteSetsExt, SequencesExt

CONSTANTS
  NPAGES,           \* physical pages spanned by the memory map
  BUDDY_MAX_ORDER,  \* orders are 0 .. BUDDY_MAX_ORDER - 1
  FreeRegions,      \* the MMAP_FREE entries of the boot memory map, in
                    \* order, as <<first page, end page>>
  BootReserved,     \* pages page_init() skips: page 0, the boot info, the
                    \* ELF header and the kernel image
  BOOT_MAP_LIM,     \* in pages: memory mapped and described at boot
  PAGE_SIZE,        \* bytes
  INFO_SIZE,        \* sizeof(struct page_info), in bytes
  NENTRIES,         \* entries of a page table
  PML4_SETUP_PAGES, \* pages pml4_setup() takes for the PML4 and its tables
  MEMORY_THRESHOLD  \* free memory, in pages, below which swap_thread() swaps

Pages == 0 .. NPAGES - 1
Orders == 0 .. BUDDY_MAX_ORDER - 1
NULL == -1

ASSUME /\ BUDDY_MAX_ORDER >= 1
       /\ NPAGES % (2 ^ (BUDDY_MAX_ORDER - 1)) = 0
       /\ \A i \in DOMAIN FreeRegions : FreeRegions[i][1] .. FreeRegions[i][2] - 1 \subseteq Pages
       /\ 0 \in BootReserved

VARIABLES
  buddy_free_list,  \* one list of block heads per order
  pp_free,          \* per page: 1 when it heads a free block
  pp_order,         \* per page: order of the block it heads
  allocated,        \* pages returned by page_alloc() and not yet freed
  panicked          \* the assertion that stopped the kernel, or "none"

vars == <<buddy_free_list, pp_free, pp_order, allocated, panicked>>

-----------------------------------------------------------------------------
(* The allocator state as a record, so that the recursive helpers can     *)
(* pass it along: [list, free, order].                                     *)
Mem == [list |-> buddy_free_list, free |-> pp_free, order |-> pp_order]

\* list_add(head, node)
list_add(l, p) == Cons(p, l)

\* list_del(&page->pp_node): unlink the page from the list it is on, if any.
list_del(m, p) == [m EXCEPT !.list = [o \in Orders |-> Remove(m.list[o], p)]]

(* Mutants of buddy_split(): the buddy's index taken from the whole block  *)
(* size instead of half of it; the buddy's pp_free not set.               *)
RECURSIVE buddy_split_full_block(_, _, _)
buddy_split_full_block(m, lhs, req) ==
  IF m.order[lhs] = req
  THEN [mem |-> m, page |-> lhs]
  ELSE LET k     == m.order[lhs] - 1
           buddy == lhs + 2 ^ (k + 1)
           m1    == list_del(m, lhs)
       IN buddy_split_full_block([m1 EXCEPT !.order = [@ EXCEPT ![lhs] = k, ![buddy] = k],
                                            !.free  = [@ EXCEPT ![buddy] = 1],
                                            !.list  = [@ EXCEPT ![k] = list_add(list_add(@, lhs), buddy)]],
                                 lhs, req)

(* buddy_split(lhs, req_order): halve the block headed by lhs, putting both *)
(* halves on the list of the lower order, until it has the requested order.*)
(* The result is the final lhs, left on the free list of req_order.       *)
RECURSIVE buddy_split(_, _, _)
buddy_split(m, lhs, req) ==
  IF m.order[lhs] = req
  THEN [mem |-> m, page |-> lhs]
  ELSE LET k     == m.order[lhs] - 1
           buddy == lhs + 2 ^ k
           m1    == list_del(m, lhs)
       IN buddy_split([m1 EXCEPT !.order = [@ EXCEPT ![lhs] = k, ![buddy] = k],
                                 !.free  = [@ EXCEPT ![buddy] = 1],
                                 !.list  = [@ EXCEPT ![k] = list_add(list_add(@, lhs), buddy)]],
                      lhs, req)

(* Mutant of buddy_merge(): the buddy's order is not compared.            *)
RECURSIVE buddy_merge_any_order(_, _)
buddy_merge_any_order(m, page) ==
  LET k     == m.order[page]
      lhs   == IF page % (2 ^ (k + 1)) = 0 THEN page ELSE page - 2 ^ k
      buddy == IF lhs = page THEN page + 2 ^ k ELSE lhs
      rhs   == IF lhs = page THEN buddy ELSE page
  IN IF k = BUDDY_MAX_ORDER - 1 THEN [mem |-> m, page |-> NULL]
     ELSE IF m.list[k] = <<>> THEN [mem |-> m, page |-> page]
     ELSE IF m.free[page] = 1 /\ m.free[buddy] = 1
       THEN LET m1 == list_del(list_del(m, buddy), page)
                m2 == [m1 EXCEPT !.free  = [@ EXCEPT ![rhs] = 0],
                                 !.order = [@ EXCEPT ![lhs] = k + 1],
                                 !.list  = [@ EXCEPT ![k + 1] = list_add(@, lhs)]]
            IN [mem |-> buddy_merge_any_order(m2, lhs).mem, page |-> NULL]
     ELSE [mem |-> m, page |-> page]

(* Mutant of buddy_merge(): the merged block is put on the next list but  *)
(* not merged any further.                                                 *)
buddy_merge_once(m, page) ==
  LET k     == m.order[page]
      lhs   == IF page % (2 ^ (k + 1)) = 0 THEN page ELSE page - 2 ^ k
      buddy == IF lhs = page THEN page + 2 ^ k ELSE lhs
      rhs   == IF lhs = page THEN buddy ELSE page
  IN IF k = BUDDY_MAX_ORDER - 1 THEN [mem |-> m, page |-> NULL]
     ELSE IF m.list[k] = <<>> THEN [mem |-> m, page |-> page]
     ELSE IF m.free[page] = 1 /\ m.free[buddy] = 1 /\ m.order[buddy] = k
       THEN LET m1 == list_del(list_del(m, buddy), page)
            IN [mem |-> [m1 EXCEPT !.free  = [@ EXCEPT ![rhs] = 0],
                                   !.order = [@ EXCEPT ![lhs] = k + 1],
                                   !.list  = [@ EXCEPT ![k + 1] = list_add(@, lhs)]],
                page |-> NULL]
     ELSE [mem |-> m, page |-> page]

(* buddy_merge(page): if the list of the page's order is not empty and the *)
(* page and its buddy are free blocks of the same order, unlink both, put  *)
(* the merged block on the next list and merge it in turn; the result is  *)
(* NULL then, and at the top order.  Otherwise the page itself, which the  *)
(* caller still has to put on a list.                                      *)
RECURSIVE buddy_merge(_, _)
buddy_merge(m, page) ==
  LET k     == m.order[page]
      lhs   == IF page % (2 ^ (k + 1)) = 0 THEN page ELSE page - 2 ^ k
      buddy == IF lhs = page THEN page + 2 ^ k ELSE lhs
      rhs   == IF lhs = page THEN buddy ELSE page
  IN IF k = BUDDY_MAX_ORDER - 1 THEN [mem |-> m, page |-> NULL]
     ELSE IF m.list[k] = <<>> THEN [mem |-> m, page |-> page]
     ELSE IF m.free[page] = 1 /\ m.free[buddy] = 1 /\ m.order[buddy] = k
       THEN LET m1 == list_del(list_del(m, buddy), page)
                m2 == [m1 EXCEPT !.free  = [@ EXCEPT ![rhs] = 0],
                                 !.order = [@ EXCEPT ![lhs] = k + 1],
                                 !.list  = [@ EXCEPT ![k + 1] = list_add(@, lhs)]]
            IN [mem |-> buddy_merge(m2, lhs).mem, page |-> NULL]
     ELSE [mem |-> m, page |-> page]

(* buddy_find(req_order): pop the list of the requested order, or else the *)
(* first non-empty list above it and split that block down.                *)
buddy_find(m, req) ==
  LET above == {o \in Orders : o > req /\ m.list[o] # <<>>}
  IN IF m.list[req] # <<>>
       THEN [mem |-> [m EXCEPT !.list[req] = Tail(@)], page |-> Head(m.list[req])]
     ELSE IF above = {}
       THEN [mem |-> m, page |-> NULL]
     ELSE LET o == Min(above)
          IN buddy_split([m EXCEPT !.list[o] = Tail(@)], Head(m.list[o]), req)

(* page_free(pp): mark the page free, merge it unless it already has the   *)
(* top order, and put it on its list if the merge did not.                 *)
page_free(m, pp) ==
  LET m1 == [m EXCEPT !.free = [@ EXCEPT ![pp] = 1]]
      r  == IF m1.order[pp] # BUDDY_MAX_ORDER - 1 THEN buddy_merge(m1, pp)
                                                  ELSE [mem |-> m1, page |-> pp]
  IN IF r.page = NULL THEN r.mem
     ELSE [r.mem EXCEPT !.list[r.mem.order[r.page]] = list_add(@, r.page)]

-----------------------------------------------------------------------------
(* Free memory as the kernel counts it.                                    *)

\* count_total_free_pages(): pages on all free lists.
count_total_free_pages(m) ==
  LET RECURSIVE acc(_)
      acc(o) == IF o < 0 THEN 0 ELSE Len(m.list[o]) * 2 ^ o + acc(o - 1)
  IN acc(BUDDY_MAX_ORDER - 1)

\* get_total_free_memory(), in pages: the loop adds every order into
\* total_free_memory but returns free_memory, the term of the last order.
get_total_free_memory(m) == Len(m.list[BUDDY_MAX_ORDER - 1]) * 2 ^ (BUDDY_MAX_ORDER - 1)

-----------------------------------------------------------------------------
(* Actions.                                                                *)

Running == panicked = "none"

\* Apply an allocator state computed by the helpers.
SetMem(m) ==
  /\ buddy_free_list' = m.list
  /\ pp_free' = m.free
  /\ pp_order' = m.order

(* Mutant of page_alloc(): the page is marked used but left on its list. *)
page_alloc_no_del ==
  /\ Running
  /\ LET r == buddy_find(Mem, 0) IN
     IF r.page = NULL
       THEN /\ panicked' = "oom"
            /\ UNCHANGED <<buddy_free_list, pp_free, pp_order, allocated>>
     ELSE IF r.mem.free[r.page] # 1
       THEN /\ panicked' = "not_free"
            /\ UNCHANGED <<buddy_free_list, pp_free, pp_order, allocated>>
     ELSE /\ SetMem([r.mem EXCEPT !.free[r.page] = 0])
          /\ allocated' = allocated \cup {r.page}
          /\ UNCHANGED panicked

(* page_alloc(flags): buddy_find(0); assert(page) comes before the check   *)
(* for NULL, so running out of pages stops the kernel; then the page must *)
(* be free, is marked used and unlinked from its list.                     *)
page_alloc ==
  /\ Running
  /\ LET r == buddy_find(Mem, 0) IN
     IF r.page = NULL
       THEN /\ panicked' = "oom"
            /\ UNCHANGED <<buddy_free_list, pp_free, pp_order, allocated>>
     ELSE IF r.mem.free[r.page] # 1
       THEN /\ panicked' = "not_free"
            /\ UNCHANGED <<buddy_free_list, pp_free, pp_order, allocated>>
     ELSE /\ SetMem(list_del([r.mem EXCEPT !.free[r.page] = 0], r.page))
          /\ allocated' = allocated \cup {r.page}
          /\ UNCHANGED panicked

\* page_decref() dropping the last reference of an allocated page.
page_decref(p) ==
  /\ Running
  /\ p \in allocated
  /\ SetMem(page_free(Mem, p))
  /\ allocated' = allocated \ {p}
  /\ UNCHANGED panicked

\* After a failed assertion the kernel spins in panic().
Panic ==
  /\ ~Running
  /\ UNCHANGED vars

(***************************************************************************)
(* Boot: mem_init() sizes the page_info array, page_init() frees the      *)
(* pages below BOOT_MAP_LIM, pml4_setup() builds the kernel page table,   *)
(* and page_init_ext() frees the rest of memory, growing the array one    *)
(* chunk at a time with buddy_map_chunk().  One CPU runs it before any    *)
(* other code, so the result is the initial state.  The boot record       *)
(* holds the allocator state m, npages, the indices whose page_info is    *)
(* mapped (infos), the pages of the direct map at KERNEL_VMA (direct),   *)
(* the last-level tables present, the pages taken at boot (meta) and     *)
(* whether an assert stopped the kernel.  The directories above the      *)
(* last level are taken as present: one of them maps NENTRIES^2 pages.   *)
(***************************************************************************)

\* The pages of the memory map's free regions, in the order the loops of
\* page_init() and page_init_ext() visit them.
MemMapSeq ==
  FoldLeft(LAMBDA s, r : s \o [i \in 1 .. r[2] - r[1] |-> r[1] + i - 1],
           << >>, FreeRegions)

\* mem_init(): highest_addr is the end of the last free entry, and npages
\* is MIN(BOOT_MAP_LIM, highest_addr) / PAGE_SIZE.
highest_addr == IF FreeRegions = << >> THEN 0 ELSE FreeRegions[Len(FreeRegions)][2]
npages0 == IF highest_addr < BOOT_MAP_LIM THEN highest_addr ELSE BOOT_MAP_LIM

\* buddy_map_chunk(): a chunk is the page_info of one top-order block
\* (1 << (12 + BUDDY_MAX_ORDER - 1)) / PAGE_SIZE, held in nalloc pages.
nblocks == 2 ^ (BUDDY_MAX_ORDER - 1)
nalloc == (nblocks * INFO_SIZE + PAGE_SIZE - 1) \div PAGE_SIZE

\* The page of the KPAGES mapping that holds pages[index].
InfoPage(index) == (index * INFO_SIZE) \div PAGE_SIZE

\* page_init(): the free pages below BOOT_MAP_LIM that are not reserved.
BootOrder == SelectSeq(MemMapSeq, LAMBDA j : j < BOOT_MAP_LIM /\ j \notin BootReserved)

Mem0 == [list  |-> [o \in Orders |-> <<>>],
         free  |-> [p \in Pages |-> 0],
         order |-> [p \in Pages |-> 0]]

\* page_alloc()'s body after buddy_find(0) gave r: the asserts, then the
\* page is marked used and unlinked.
alloc_page_found(r) ==
  IF r.page = NULL THEN [mem |-> r.mem, page |-> NULL, panic |-> "oom"]
  ELSE IF r.mem.free[r.page] # 1
    THEN [mem |-> r.mem, page |-> r.page, panic |-> "not_free"]
  ELSE [mem |-> list_del([r.mem EXCEPT !.free[r.page] = 0], r.page),
        page |-> r.page, panic |-> "none"]

alloc_page(m) == alloc_page_found(buddy_find(m, 0))

\* page_alloc() at boot: the page is kept for good.
boot_keep(b, a) ==
  IF a.panic # "none" THEN [b EXCEPT !.panicked = a.panic]
  ELSE [b EXCEPT !.m = a.mem, !.meta = @ \cup {a.page}]

BootAlloc(b) == IF b.panicked # "none" THEN b ELSE boot_keep(b, alloc_page(b.m))

\* ptbl_alloc() for the last-level table key, as page_insert() and
\* boot_map_region() call it.
table_add(b, key) == IF b.panicked # "none" THEN b ELSE [b EXCEPT !.tables = @ \cup {key}]

TableFor(b, key) == IF key \in b.tables THEN b ELSE table_add(BootAlloc(b), key)

\* The nalloc page_alloc() and page_insert() calls that back pages + base.
chunk_pages(b, base) ==
  FoldLeft(LAMBDA c, i : TableFor(BootAlloc(c), <<"kpages", (InfoPage(base) + i) \div NENTRIES>>),
           b, [i \in 1 .. nalloc |-> i - 1])

\* The chunk's structs are zero (pp_free and pp_order 0; list_init() leaves
\* them so) and npages becomes base + nblocks.
chunk_add(b, base) ==
  LET P == base .. base + nblocks - 1
  IN  IF b.panicked # "none" THEN b
      ELSE [b EXCEPT !.m.free  = [p \in DOMAIN @ |-> IF p \in P THEN 0 ELSE @[p]],
                     !.m.order = [p \in DOMAIN @ |-> IF p \in P THEN 0 ELSE @[p]],
                     !.infos = @ \cup P,
                     !.npages = base + nblocks]

\* (buddy_map_chunk() without the ROUNDDOWN of index to a chunk.)
buddy_map_chunk_unaligned(b, index) == chunk_add(chunk_pages(b, index), index)

\* buddy_map_chunk(index): the page_info of the chunk holding index.
buddy_map_chunk(b, index) ==
  chunk_add(chunk_pages(b, (index \div nblocks) * nblocks), (index \div nblocks) * nblocks)

\* boot_map_region(kernel_pml4, KERNEL_VMA + j, 512 * PAGE_SIZE, j): the
\* direct map of the 512 pages from j (512 is nblocks for the kernel's
\* BUDDY_MAX_ORDER of 10, so the window is nblocks pages here), with a
\* table for each NENTRIES pages it touches.
direct_add(b, j) ==
  IF b.panicked # "none" THEN b ELSE [b EXCEPT !.direct = @ \cup (j .. j + nblocks - 1)]

map_direct(b, j) ==
  direct_add(FoldLeft(LAMBDA c, t : TableFor(c, <<"direct", t>>), b,
                      [i \in 1 .. (j + nblocks - 1) \div NENTRIES - j \div NENTRIES + 1 |->
                         j \div NENTRIES + i - 1]), j)

\* One iteration of page_init_ext()'s inner loop: pages below BOOT_MAP_LIM
\* are skipped, a page past npages first gets its chunk and direct map
\* (a failure panics), then page_free().
ext_free(b, j) == IF b.panicked # "none" THEN b ELSE [b EXCEPT !.m = page_free(@, j)]

ext_step(b, j) ==
  IF b.panicked # "none" \/ j < BOOT_MAP_LIM THEN b
  ELSE ext_free(IF j >= b.npages THEN map_direct(buddy_map_chunk(b, j), j) ELSE b, j)

\* After page_init(): the array of npages structs that boot_alloc() gave
\* is mapped at KPAGES, memory below BOOT_MAP_LIM at KERNEL_VMA.
Boot0 ==
  [m |-> FoldLeft(page_free, Mem0, BootOrder), npages |-> npages0,
   infos |-> 0 .. npages0 - 1, direct |-> 0 .. BOOT_MAP_LIM - 1,
   tables |-> {<<"kpages", InfoPage(i) \div NENTRIES>> : i \in 0 .. npages0 - 1}
              \cup {<<"direct", p \div NENTRIES>> : p \in 0 .. BOOT_MAP_LIM - 1},
   meta |-> {}, panicked |-> "none"]

\* pml4_setup() takes its pages, then page_init_ext() runs.
BootState ==
  FoldLeft(ext_step,
           FoldLeft(LAMBDA b, i : BootAlloc(b), Boot0, [i \in 1 .. PML4_SETUP_PAGES |-> i]),
           MemMapSeq)

\* The pages of the block of order o headed by p, and the free pages of a
\* state m.
Block(p, o) == p .. p + 2 ^ o - 1
FreeOf(m) ==
  UNION {UNION {Block(m.list[o][i], o) : i \in 1 .. Len(m.list[o])} : o \in Orders}

\* The pages the allocator never hands out after boot.
Reserved == Pages \ FreeOf(BootState.m)

Init ==
  \E b \in {BootState} :
    /\ buddy_free_list = b.m.list
    /\ pp_free = b.m.free
    /\ pp_order = b.m.order
    /\ allocated = {}
    /\ panicked = b.panicked

Next ==
  \/ page_alloc
  \/ \E p \in Pages : page_decref(p)
  \/ Panic

Spec == Init /\ [][Next]_vars

-----------------------------------------------------------------------------
(* Properties.                                                             *)

TypeOK ==
  /\ buddy_free_list \in [Orders -> Seq(Pages)]
  /\ pp_free \in [Pages -> {0, 1}]
  /\ pp_order \in [Pages -> Orders]
  /\ allocated \subseteq Pages
  /\ panicked \in {"none", "oom", "not_free"}


\* The free blocks, as <<head, order, position>> triples.
FreeEntries ==
  UNION {{<<buddy_free_list[o][i], o, i>> : i \in 1 .. Len(buddy_free_list[o])}
           : o \in Orders}

\* Every entry of a free list heads a free block of that list's order,
\* aligned to its size, and no page heads two entries: what buddy_split()
\* and buddy_merge() leave behind is what buddy_merge() later trusts when it
\* tests pp_free and pp_order of a buddy.
FreeBlocksConsistent ==
  \A e \in FreeEntries :
    LET p == e[1]
        o == e[2]
    IN
    /\ pp_free[p] = 1 /\ pp_order[p] = o /\ p % (2 ^ o) = 0
    /\ \A f \in FreeEntries : f[1] = p => f = e

\* Every page is exactly one of: reserved, allocated, or inside exactly one
\* free block.  A page handed out twice, lost, or left both free and in use
\* after any sequence of page_alloc() and page_free() breaks it.
MemoryPartition ==
  \A q \in Pages :
    (IF q \in Reserved THEN 1 ELSE 0) + (IF q \in allocated THEN 1 ELSE 0)
      + Cardinality({e \in FreeEntries : q \in Block(e[1], e[2])}) = 1

\* Merging is complete: no two free blocks below the top order are buddies,
\* so a request for a large block is never refused for fragmentation that
\* page_free() should have undone.
FullyCoalesced ==
  \A e, f \in FreeEntries :
    ~ (/\ e[2] = f[2] /\ e[2] < BUDDY_MAX_ORDER - 1
       /\ e[1] # f[1] /\ e[1] \div (2 ^ (e[2] + 1)) = f[1] \div (2 ^ (e[2] + 1)))

\* page_alloc() returns NULL when no page is free, so that callers can
\* swap or report -ENOMEM (the spec: "Returns NULL if out of free memory").
PageAllocReturnsNull == panicked # "oom"

(* The pages the free lists hold: the union of their blocks.  This and  *)
(* allocated and panicked map the allocator onto PageAlloc.               *)
FreePages == UNION {Block(e[1], e[2]) : e \in FreeEntries}

Abs == INSTANCE PageAlloc WITH freeset <- FreePages, inuse <- allocated, stopped <- panicked

(* The buddy allocator implements the page allocator's contract: each     *)
(* page_alloc() takes exactly one page off the free lists, one that was   *)
(* free, whatever splitting it does; each page_free() returns exactly the *)
(* freed page, whatever merging it does; the only stop is assert(page)   *)
(* with no page free.                                                      *)
AllocRefines == Abs!Spec

(* Every page the allocator hands out or takes back after boot has its    *)
(* page_info mapped at KPAGES for its whole top-order block, so the buddy *)
(* reads of buddy_merge() and buddy_split(), which check no npages bound, *)
(* stay inside the array that mem_init() and buddy_map_chunk() mapped,    *)
(* and its frame is in the direct map that page2kva() uses.               *)
PageInfoBacked ==
  \A b \in {BootState} : \A p \in FreePages \cup allocated :
     /\ p \in b.direct
     /\ (p \div nblocks) * nblocks .. (p \div nblocks) * nblocks + nblocks - 1 \subseteq b.infos

\* swap_thread() starts swapping exactly when the free memory on the buddy
\* lists is below MEMORY_THRESHOLD.
SwapTriggerMatchesFreeMemory ==
  (get_total_free_memory(Mem) < MEMORY_THRESHOLD)
    = (count_total_free_pages(Mem) < MEMORY_THRESHOLD)

=============================================================================
