-------------------------------- MODULE Walk --------------------------------
(***************************************************************************)
(* The four-level page-table walker of kernel/mem/walk.c and the page-     *)
(* table operations built on it: page_insert (insert.c), populate_region   *)
(* (populate.c), unmap_page_range and unmap_user_pages (remove.c),         *)
(* page_lookup (lookup.c), boot_map_region (map.c) and get_oom_score       *)
(* (oom.c), with ptbl_alloc and ptbl_free (ptbl.c).                        *)
(*                                                                         *)
(* The geometry is scaled: a table has NENTRIES entries, a page has        *)
(* PAGE_SIZE bytes and a word WORD values, so addresses, the spans of the  *)
(* four levels, sign extension and the wrap of uintptr_t keep their shape. *)
(* An entry is named by the address bits above its span: the entry for     *)
(* address a at level l of the table tbl is tbl * NENTRIES + index, and    *)
(* the table an entry points to is named like the entry, so the PML4 is    *)
(* table 0. pt[l] is the set of entries of level l whose PAGE_PRESENT bit  *)
(* is set (1: PTEs, 2: PDEs, 3: PDPTEs, 4: PML4Es). One PML4 is modelled:  *)
(* the task's, whose kernel half task_setup_vas copies from kernel_pml4.   *)
(***************************************************************************)
EXTENDS Integers, Sequences, FiniteSets, Bitwise

CONSTANTS
  PAGE_SIZE,    \* bytes of a page
  NENTRIES,     \* entries of a page table (PAGE_TABLE_ENTRIES)
  WORD,         \* 2^(bits of uintptr_t)
  USER_LIM,     \* first address above user space
  KERNEL_VMA,   \* first (sign-extended) kernel address
  KERNEL_LIM,   \* the end walk_all_pages passes
  KERNEL_SIZE,  \* bytes boot_map_region maps at KERNEL_VMA at boot
  NFRAMES,      \* frames page_alloc can hand out after boot
  UserVas,      \* page addresses the operations are called on
  Sizes,        \* sizes of the ranges they are called on
  Ranges        \* <<va, va + size>> pairs the walks are checked on

Levels == 1 .. 4
\* The bytes one entry of level l maps.
Span(l) == PAGE_SIZE * NENTRIES ^ (l - 1)
PAGE_TABLE_SPAN == Span(2)
PAGE_DIR_SPAN == Span(3)
PDPT_SPAN == Span(4)
\* The bytes the 48-bit canonical address space holds.
VA_SPAN == PDPT_SPAN * NENTRIES

ASSUME PAGE_SIZE > 4 /\ NENTRIES >= 2 /\ WORD > VA_SPAN

VARIABLES
  pt,      \* pt[l]: the present entries of level l
  nfree,   \* frames left in the page allocator
  status,  \* "run", or "oom" after page_alloc's assert
  op       \* the last operation, <<name, va, size>> (history)

vars == <<pt, nfree, status, op>>

(***************************************************************************)
(* Address arithmetic of walk.c (and of the ROUND macros, paging.h).       *)
(***************************************************************************)
sign_extend(addr) == IF addr < USER_LIM THEN addr ELSE (WORD - VA_SPAN) | addr

ptbl_end(addr) == addr | (PAGE_SIZE - 1)
pdir_end(addr) == addr | (PAGE_TABLE_SPAN - 1)
pdpt_end(addr) == addr | (PAGE_DIR_SPAN - 1)
pml4_end(addr) == addr | (PDPT_SPAN - 1)

\* (A step that catches the wrap but does not cut next to end.)
NextAddr_unclamped(bound, addr, end) ==
  LET nx == sign_extend((bound + 1) % WORD)
  IN  IF nx < addr THEN end ELSE nx

\* next = sign_extend(X_end(addr) + 1), cut to end, also when it wrapped.
NextAddr(bound, addr, end) ==
  LET nx == sign_extend((bound + 1) % WORD)
  IN  IF nx > end \/ nx < addr THEN end ELSE nx

\* PAGE_TABLE_INDEX, PAGE_DIR_INDEX, PDPT_INDEX, PML4_INDEX.
INDEX(l, addr) == (addr \div Span(l)) % NENTRIES

ROUNDDOWN(a) == (a \div PAGE_SIZE) * PAGE_SIZE
ROUNDUP(a) == ROUNDDOWN((a + PAGE_SIZE - 1) % WORD)

\* The entries of the table that entry e points to.
Children(e) == {e * NENTRIES + i : i \in 0 .. NENTRIES - 1}

(***************************************************************************)
(* A walk threads an accumulator through the callbacks: the page table,    *)
(* the free frames, the return value, oom, and the PTE callbacks made,     *)
(* each as [addr, end, entry, present] (what lookup_pte and read_all_pte   *)
(* read).                                                                  *)
(***************************************************************************)
Acc(st) == [pt |-> st.pt, nfree |-> st.nfree, ret |-> 0, oom |-> FALSE,
            visits |-> << >>]

\* page_alloc(ALLOC_ZERO) for a new table or data page; buddy.c asserts
\* instead of returning NULL, so an empty allocator stops the walk.
Oom(acc) == [acc EXCEPT !.ret = -1, !.oom = TRUE]

ptbl_alloc(acc, l, e) ==
  IF e \in acc.pt[l] THEN acc
  ELSE IF acc.nfree = 0 THEN Oom(acc)
  ELSE [acc EXCEPT !.pt[l] = @ \cup {e},
                   !.pt[l - 1] = @ \ Children(e),   \* the page is zeroed
                   !.nfree = @ - 1]

\* A table whose entries are all clear is freed. The entries of a data
\* page (l = 1) are not modelled: remove_pte has cleared every PTE it is
\* called on before pte_unmap could see it present.
\* (A ptbl_free that does not look at the entries of the table.)
ptbl_free_unchecked(acc, l, e) ==
  IF e \notin acc.pt[l] \/ l = 1 THEN acc
  ELSE [acc EXCEPT !.pt[l] = @ \ {e}, !.nfree = @ + 1]

ptbl_free(acc, l, e) ==
  IF e \notin acc.pt[l] \/ l = 1 THEN acc
  ELSE IF Children(e) \cap acc.pt[l - 1] # {} THEN acc
  ELSE [acc EXCEPT !.pt[l] = @ \ {e}, !.nfree = @ + 1]

\* insert_pte: the old page loses its last reference, the new page (which
\* the caller allocated) is mapped.
insert_pte(acc, e) ==
  [acc EXCEPT !.pt[1] = @ \cup {e},
              !.nfree = IF e \in acc.pt[1] THEN @ + 1 ELSE @]

\* boot_map_pte: the entry maps physical memory that page_alloc never
\* handed out.
boot_map_pte(acc, e) == [acc EXCEPT !.pt[1] = @ \cup {e}]

\* populate_pte: a zeroed frame is mapped where nothing was present.
populate_pte(acc, e) ==
  IF acc.nfree = 0 THEN Oom(acc)
  ELSE [acc EXCEPT !.pt[1] = @ \cup {e}, !.nfree = @ - 1]

\* remove_pte: a nonzero entry loses its page's reference and is cleared.
remove_pte(acc, e) ==
  IF e \notin acc.pt[1] THEN acc
  ELSE [acc EXCEPT !.pt[1] = @ \ {e}, !.nfree = @ + 1]

\* The pte_callback of walker w; every call is recorded.
PteCallback(w, acc, e, addr, end) ==
  LET a == [acc EXCEPT !.visits = Append(@, [addr |-> addr, end |-> end,
                                             entry |-> e,
                                             present |-> e \in acc.pt[1]])]
  IN  CASE w = "insert"   -> insert_pte(a, e)
        [] w = "boot"     -> boot_map_pte(a, e)
        [] w = "populate" -> populate_pte(a, e)
        [] w = "remove"   -> remove_pte(a, e)
        [] OTHER          -> a

\* The pde, pdpte and pml4e callbacks: ptbl_alloc for the walkers of
\* page_insert, populate_region and boot_map_region; remove_pde and
\* lookup_pde do nothing.
\* (insert_pde, insert_pdpte and insert_pml4e left as stubs, as
\* remove_pde and lookup_pde are.)
EntryCallback_insert_stubs(w, acc, l, e) ==
  IF w \in {"populate", "boot"} THEN ptbl_alloc(acc, l, e) ELSE acc

EntryCallback(w, acc, l, e) ==
  IF w \in {"insert", "populate", "boot"} THEN ptbl_alloc(acc, l, e) ELSE acc

\* The *_unmap callbacks: ptbl_free for unmap_page_range, none otherwise.
UnmapCallback(w, acc, l, e) ==
  IF w = "remove" /\ acc.ret >= 0 THEN ptbl_free(acc, l, e) ELSE acc

(***************************************************************************)
(* The four loops of walk.c. Each is "next = base; for (addr =             *)
(* sign_extend(base); next < end; addr = next)", written as recursion on   *)
(* the loop variables; a callback returning < 0 ends the walk (the next    *)
(* iteration, and every level above, returns the accumulator). No walker   *)
(* of the kernel sets pt_hole_callback, so a clear entry is skipped; no    *)
(* code sets PAGE_HUGE, so a present PDE or PDPTE is always descended.     *)
(***************************************************************************)
\* The body of ptbl_walk_range's loop after pte_callback returned a1.
ptbl_entry(w, e, a1) == IF e \in a1.pt[1] THEN UnmapCallback(w, a1, 1, e) ELSE a1

RECURSIVE ptbl_loop(_, _, _, _, _, _)
ptbl_loop(w, tbl, addr, next, end, acc) ==
  IF next >= end \/ acc.ret < 0 THEN acc
  ELSE LET nx == NextAddr(ptbl_end(addr), addr, end)
           e  == tbl * NENTRIES + INDEX(1, addr)
       IN  ptbl_loop(w, tbl, nx, nx, end,
                     ptbl_entry(w, e, PteCallback(w, acc, e, addr, nx - 1)))

ptbl_walk_range(w, tbl, base, end, acc) ==
  ptbl_loop(w, tbl, sign_extend(base), base, end, acc)

\* The body of pdir_walk_range's loop after pde_callback returned a1:
\* descend into a present entry, then call pde_unmap.
pdir_entry(w, e, addr, end, a1) ==
  IF a1.ret < 0 \/ e \notin a1.pt[2] THEN a1
  ELSE UnmapCallback(w, ptbl_walk_range(w, e, addr, end, a1), 2, e)

RECURSIVE pdir_loop(_, _, _, _, _, _)
pdir_loop(w, tbl, addr, next, end, acc) ==
  IF next >= end \/ acc.ret < 0 THEN acc
  ELSE LET nx == NextAddr(pdir_end(addr), addr, end)
           e  == tbl * NENTRIES + INDEX(2, addr)
       IN  pdir_loop(w, tbl, nx, nx, end,
                     pdir_entry(w, e, addr, nx - 1, EntryCallback(w, acc, 2, e)))

pdir_walk_range(w, tbl, base, end, acc) ==
  pdir_loop(w, tbl, sign_extend(base), base, end, acc)

pdpt_entry(w, e, addr, end, a1) ==
  IF a1.ret < 0 \/ e \notin a1.pt[3] THEN a1
  ELSE UnmapCallback(w, pdir_walk_range(w, e, addr, end, a1), 3, e)

RECURSIVE pdpt_loop(_, _, _, _, _, _)
pdpt_loop(w, tbl, addr, next, end, acc) ==
  IF next >= end \/ acc.ret < 0 THEN acc
  ELSE LET nx == NextAddr(pdpt_end(addr), addr, end)
           e  == tbl * NENTRIES + INDEX(3, addr)
       IN  pdpt_loop(w, tbl, nx, nx, end,
                     pdpt_entry(w, e, addr, nx - 1, EntryCallback(w, acc, 3, e)))

pdpt_walk_range(w, tbl, base, end, acc) ==
  pdpt_loop(w, tbl, sign_extend(base), base, end, acc)

pml4_entry(w, e, addr, end, a1) ==
  IF a1.ret < 0 \/ e \notin a1.pt[4] THEN a1
  ELSE UnmapCallback(w, pdpt_walk_range(w, e, addr, end, a1), 4, e)

RECURSIVE pml4_loop(_, _, _, _, _, _)
pml4_loop(w, tbl, addr, next, end, acc) ==
  IF next >= end \/ acc.ret < 0 THEN acc
  ELSE LET nx == NextAddr(pml4_end(addr), addr, end)
           e  == tbl * NENTRIES + INDEX(4, addr)
       IN  pml4_loop(w, tbl, nx, nx, end,
                     pml4_entry(w, e, addr, nx - 1, EntryCallback(w, acc, 4, e)))

pml4_walk_range(w, base, end, acc) ==
  pml4_loop(w, 0, sign_extend(base), base, end, acc)

walk_page_range(w, st, base, end) ==
  pml4_walk_range(w, ROUNDDOWN(base), (ROUNDUP(end) - 1) % WORD, Acc(st))

walk_all_pages(w, st) == pml4_walk_range(w, 0, KERNEL_LIM, Acc(st))

(***************************************************************************)
(* The operations, as functions of the state [pt, nfree].                  *)
(***************************************************************************)
page_insert(st, va) == walk_page_range("insert", st, va, va + PAGE_SIZE)

populate_region(st, va, size) == walk_page_range("populate", st, va, va + size)

unmap_page_range(st, va, size) == walk_page_range("remove", st, va, va + size)

unmap_user_pages(st) == unmap_page_range(st, 0, USER_LIM)

boot_map_region(st, va, size) == walk_page_range("boot", st, va, va + size)

\* page_lookup: the PTE lookup_pte found present, or -1 for NULL.
page_lookup(st, va) ==
  LET r == walk_page_range("read", st, va, va + PAGE_SIZE)
      found == {r.visits[i].entry : i \in {i \in DOMAIN r.visits :
                                                r.visits[i].present}}
  IN  IF r.ret < 0 \/ found = {} THEN -1 ELSE CHOOSE x \in found : TRUE

\* get_oom_score: the present PTEs read_all_pte counts over the whole
\* address space.
get_oom_score(st) ==
  LET r == walk_all_pages("read", st)
  IN  IF r.ret < 0 THEN -1
      ELSE Cardinality({i \in DOMAIN r.visits : r.visits[i].present})

St == [pt |-> pt, nfree |-> nfree]

Commit(acc) ==
  /\ pt' = acc.pt
  /\ nfree' = acc.nfree
  /\ status' = IF acc.oom THEN "oom" ELSE "run"

\* The PTEs reachable from the PML4 through present tables.
Mapped(P) ==
  {e \in P[1] : \A l \in 2 .. 4 : e \div NENTRIES ^ (l - 1) \in P[l]}

\* The PTE of page address a, and the pages of user space.
PageId(a) == (a % VA_SPAN) \div PAGE_SIZE
UserPages == {p * PAGE_SIZE : p \in 0 .. USER_LIM \div PAGE_SIZE - 1}
RangeIds(va, size) ==
  {PageId(a) : a \in {a \in UserPages : ROUNDDOWN(va) <= a /\ a < va + size}}

(***************************************************************************)
(* Actions. Each is one call made with the big kernel lock held.           *)
(***************************************************************************)
\* copy_on_write (and fork) allocate the page, then page_insert maps it.
PageInsert(va) ==
  /\ status = "run"
  /\ IF nfree = 0
       THEN pt' = pt /\ nfree' = nfree /\ status' = "oom"
       ELSE Commit(page_insert([St EXCEPT !.nfree = @ - 1], va))
  /\ op' = <<"insert", va, PAGE_SIZE>>

\* Callers populate pages they found missing (populate_pte asserts it).
PopulateRegion(va, size) ==
  /\ status = "run"
  /\ va + size <= USER_LIM
  /\ RangeIds(va, size) \cap Mapped(pt) = {}
  /\ Commit(populate_region(St, va, size))
  /\ op' = <<"populate", va, size>>

\* munmap (do_remove_vma) and page_remove.
UnmapPageRange(va, size) ==
  /\ status = "run"
  /\ va + size <= USER_LIM
  /\ Commit(unmap_page_range(St, va, size))
  /\ op' = <<"remove", va, size>>

\* task_free.
UnmapUserPages ==
  /\ status = "run"
  /\ Commit(unmap_user_pages(St))
  /\ op' = <<"remove", 0, USER_LIM>>

\* mem_init maps the kernel with boot_map_region; the task's PML4 shares
\* its kernel half.
Init ==
  LET r == boot_map_region([pt |-> [l \in Levels |-> {}], nfree |-> NFRAMES],
                           KERNEL_VMA, KERNEL_SIZE)
  IN  /\ pt = r.pt
      /\ nfree = r.nfree
      /\ status = IF r.oom THEN "oom" ELSE "run"
      /\ op = <<"boot", KERNEL_VMA, KERNEL_SIZE>>

Next ==
  \/ \E va \in UserVas : PageInsert(va)
  \/ \E va \in UserVas, size \in Sizes : PopulateRegion(va, size)
  \/ \E va \in UserVas, size \in Sizes : UnmapPageRange(va, size)
  \/ UnmapUserPages

Spec == Init /\ [][Next]_vars

(***************************************************************************)
(* Properties.                                                             *)
(***************************************************************************)
\* Every variable holds a value of its type.
TypeOK ==
  /\ \A l \in Levels : pt[l] \subseteq 0 .. VA_SPAN \div Span(l) - 1
  /\ nfree \in 0 .. NFRAMES
  /\ status \in {"run", "oom"}

\* The canonical page addresses, low half then sign-extended high half.
CanonPages == {sign_extend(p * PAGE_SIZE) : p \in 0 .. VA_SPAN \div PAGE_SIZE - 1}

\* The PDE, PDPTE and PML4E of page address a are present.
TablesPresent(a) == \A l \in 2 .. 4 : PageId(a) \div NENTRIES ^ (l - 1) \in pt[l]

\* The canonical page after page address a (sign_extend(USER_LIM) after
\* the last user page), or WORD after the last one.
NextCanon(a) == IF a + PAGE_SIZE < WORD THEN sign_extend(a + PAGE_SIZE) ELSE WORD

\* The PTE callbacks of a walk over [lo, hi): one per page of the range
\* whose page table is present, in increasing address order, each on the
\* entry of its own page, with a range that starts at the page and ends
\* before the next canonical page.
VisitsExactly(v, lo, hi) ==
  LET Expected == {a \in CanonPages : lo <= a /\ a < hi /\ TablesPresent(a)}
  IN  /\ Len(v) = Cardinality(Expected)
      /\ {v[i].addr : i \in DOMAIN v} = Expected
      /\ \A i \in 1 .. Len(v) - 1 : v[i].addr < v[i + 1].addr
      /\ \A i \in DOMAIN v : /\ v[i].entry = PageId(v[i].addr)
                             /\ v[i].addr <= v[i].end
                             /\ v[i].end < NextCanon(v[i].addr)

\* walk_page_range over every checked range, walk_all_pages, page_lookup
\* and get_oom_score agree with a direct reading of the page table:
\* walk.c's clamping of each level's window to the level's boundary and
\* to the end, its sign extension across the user/kernel hole and its
\* wrap at the top of the address space neither skip nor repeat a page.
WalkMatchesReference ==
  /\ \A r \in Ranges :
       VisitsExactly(walk_page_range("read", St, r[1], r[2]).visits,
                     ROUNDDOWN(r[1]), ROUNDUP(r[2]))
  /\ VisitsExactly(walk_all_pages("read", St).visits, 0, WORD)
  /\ \A va \in UserPages :
       page_lookup(St, va) = IF PageId(va) \in Mapped(pt) THEN PageId(va) ELSE -1
  /\ get_oom_score(St) = Cardinality(Mapped(pt))

\* Every PTE callback of walk_all_pages gets a range inside its own page:
\* the spec (4.2) has every level cut its window to the level's natural
\* boundary, so a callback never sees the non-canonical hole.
CallbackWithinPage ==
  LET v == walk_all_pages("read", St).visits
  IN  \A i \in DOMAIN v : v[i].end < v[i].addr + PAGE_SIZE

\* The tables form a tree without leftovers: every present entry lies in
\* a table that a present entry points to, ptbl_free has freed every
\* table left without a present entry, and every frame ptbl_alloc,
\* populate_pte or page_insert's caller took is still mapped or free.
PageTablesWellFormed ==
  status = "run" =>
    /\ \A l \in 1 .. 3 : \A e \in pt[l] : e \div NENTRIES \in pt[l + 1]
    /\ \A l \in 2 .. 4 : \A e \in pt[l] : Children(e) \cap pt[l - 1] # {}
    /\ nfree + Cardinality(pt[2]) + Cardinality(pt[3]) + Cardinality(pt[4])
         + Cardinality({e \in pt[1] : e < USER_LIM \div PAGE_SIZE}) = NFRAMES

\* page_insert and populate_region map exactly the pages of their range,
\* and unmap_page_range unmaps exactly those, whatever tables they create
\* or free on the way.
PageOpsChangeOnlyRange ==
  [][status' = "run" =>
       LET R == RangeIds(op'[2], op'[3])
       IN  IF op'[1] = "remove" THEN Mapped(pt') = Mapped(pt) \ R
           ELSE Mapped(pt') = Mapped(pt) \cup R]_vars

=============================================================================
