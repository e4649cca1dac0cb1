-------------------------------- MODULE Vma --------------------------------
(***************************************************************************)
(* The virtual memory areas of a task (kernel/vma/) and the system calls   *)
(* that change them: mmap, munmap, mprotect, and the page-fault path that  *)
(* populates them.                                                         *)
(*                                                                         *)
(* A VMA is a record [base, end, flags, name, src, len]: the half-open range    *)
(* [base, end), its protection as a subset of {"R", "W", "X"}, its name   *)
(* (merge_vma() compares the name pointers; equal strings are the same     *)
(* literal), and src, the origin of its executable backing (NoSrc for an   *)
(* anonymous VMA) and len the bytes of it: the byte at address a comes   *)
(* from src + (a - base) if a - base < len, else it is zero.              *)
(* VMAs of a task never share a base, so a VMA is referred to by its base; *)
(* the red-black tree and the sorted list are both the set ordered by     *)
(* base.                                                                   *)
(*                                                                         *)
(* A system call runs under the big kernel lock, so each is one action.    *)
(* The helpers return the state they leave, as the C functions leave it,   *)
(* including what they changed before they failed.                        *)
(*                                                                         *)
(* find_vma(), task_find_vma() and walk_vma_range() are not part of the   *)
(* sources; they are modelled as vma.h and the spec describe them:         *)
(* find_vma(addr) is the lowest VMA whose end lies above addr,             *)
(* task_find_vma(addr) that VMA if it contains addr, and walk_vma_range()  *)
(* calls its function on each VMA that overlaps [base, base + size), in    *)
(* address order, with the range clipped to the VMA, and stops at the      *)
(* first negative result.  The cursor of the walk is the end of the last  *)
(* range visited, so VMAs a callback creates to the right are visited too. *)
(*                                                                         *)
(* The page table of the task is a function from the page addresses that  *)
(* have a present entry to the entry: the rights beyond read, and the     *)
(* origin of the bytes of the frame it maps.  The user pages modelled lie *)
(* under one page table, which exists from the first populate until an    *)
(* unmap leaves it empty (ptbl_free()).                                    *)
(***************************************************************************)
EXTENDS Integers, FiniteSets, Sequences, FiniteSetsExt, SequencesExt

CONSTANTS
  PAGE_SIZE,  \* bytes per page
  USER_LIM,   \* the first address above user space
  Addrs,      \* addresses the programs pass (0 is NULL)
  Lens,       \* lengths the programs pass
  Prots,      \* protections the programs ask for
  Accesses,   \* access flags of a page fault
  Segments,   \* the ELF program headers: [va, memsz, flags, src, filesz]
  USTACK_TOP  \* the top of the user stack

NoSrc == -1
NULLB == -1           \* a NULL struct vma *, as a base
VMA_FREE == "free"    \* memset(info, 0) leaves the type VMA_FREE
VMA_ANONYMOUS == "anonymous"
VMA_EXECUTABLE == "executable"

ASSUME USER_LIM % PAGE_SIZE = 0

VARIABLES
  vmas,     \* the VMAs of the task
  pte,      \* the present page-table entries: page -> [prot, data]
  ptbl,     \* whether the page table of the user pages exists
  status,   \* "run", "destroyed" (task_destroy()) or "panic" (an assert)
  elf,      \* history: the pages whose bytes are the ELF image's
  last      \* history: the last system call and its result

vars == <<vmas, pte, ptbl, status, elf, last>>

ROUNDDOWN(a) == (a \div PAGE_SIZE) * PAGE_SIZE
ROUNDUP(a) == ROUNDDOWN(a + PAGE_SIZE - 1)

VmaAt(V, b) == CHOOSE v \in V : v.base = b
Covered(V) == UNION {v.base .. v.end - 1 : v \in V}
AllPages == {a \in 0 .. USER_LIM - 1 : a % PAGE_SIZE = 0}
\* The pages that overlap [lo, hi), as the page walker visits them.
PagesIn(lo, hi) == {a \in AllPages : a < hi /\ a + PAGE_SIZE > lo}

-----------------------------------------------------------------------------
(* The sorted list and the tree.                                           *)

\* find_vma(): the lowest VMA whose end lies above addr.
find_vma(V, addr) ==
  LET C == {v \in V : v.end > addr}
  IN IF C = {} THEN NULLB ELSE Min({v.base : v \in C})

\* task_find_vma(): the VMA that contains addr, if any.
task_find_vma(V, addr) ==
  LET b == find_vma(V, addr)
  IN IF b # NULLB /\ b <= addr THEN b ELSE NULLB

\* list_prev() and list_next() on the task's sorted list.
list_prev(V, b) ==
  LET C == {v.base : v \in {w \in V : w.base < b}}
  IN IF C = {} THEN NULLB ELSE Max(C)

list_next(V, b) ==
  LET C == {v.base : v \in {w \in V : w.base > b}}
  IN IF C = {} THEN NULLB ELSE Min(C)

\* find_free_vma(): the VMA at addr, or the free gap around it.
find_free_vma(V, addr) ==
  LET b    == find_vma(V, addr)
      prev == list_prev(V, b)
      Info(r, t, lo, hi) == [ret |-> r, type |-> t, base |-> lo, end |-> hi]
  IN IF addr < 0 \/ addr >= USER_LIM THEN Info(-1, VMA_FREE, 0, 0)
     ELSE IF b = NULLB
       THEN Info(0, VMA_FREE, IF V = {} THEN 0 ELSE Max({v.end : v \in V}), USER_LIM)
     ELSE IF addr < b
       THEN Info(0, VMA_FREE, IF prev = NULLB THEN 0 ELSE VmaAt(V, prev).end, b)
     ELSE LET v == VmaAt(V, b)
          IN Info(0, IF v.src # NoSrc THEN VMA_EXECUTABLE ELSE VMA_ANONYMOUS, v.base, v.end)

\* The overlap test of insert_vma()'s descent of the tree: the descent
\* meets every VMA the new one overlaps, so the test is against all of them.
Overlap(v, w) == v.base < w.end /\ v.end > w.base

\* Variant of insert_vma() without the overlap test (for mutation checks).
insert_vma_no_overlap(V, v) == [vmas |-> V \cup {v}, vma |-> v.base]

(* insert_vma() refuses an overlapping VMA; create_vma() rounds the range *)
(* out to pages and inserts an anonymous VMA.                              *)
insert_vma(V, v) ==
  IF \E w \in V : Overlap(v, w)
  THEN [vmas |-> V, vma |-> NULLB]
  ELSE [vmas |-> V \cup {v}, vma |-> v.base]

\* kmalloc() returns memory slab_free() zeroed: vm_src is NULL, vm_len 0.
create_vma(V, name, p, size, flags) ==
  insert_vma(V, [base |-> ROUNDDOWN(p), end |-> ROUNDUP(p + size),
                 flags |-> flags, name |-> name, src |-> NoSrc, len |-> 0])

(* add_vma(): from addr (USER_LIM for NULL) down to 0, then from the top   *)
(* of user space down, it creates the VMA at the first address that lies  *)
(* in a free gap, whatever the gap's size.  A pointer below 0 wraps above  *)
(* USER_LIM, where find_free_vma() fails.                                  *)
add_vma(V, name, addr, size, flags) ==
  LET create(p) == create_vma(V, name, p, size, flags)
      top == USER_LIM - size - 1
      RECURSIVE from_end(_)
      from_end(p) ==
        LET i == find_free_vma(V, p)
        IN IF i.ret < 0 THEN [vmas |-> V, vma |-> NULLB]
           ELSE IF i.type = VMA_FREE THEN create(p)
           ELSE from_end(i.base - 1)
      RECURSIVE from_addr(_)
      from_addr(p) ==
        LET i == find_free_vma(V, p)
        IN IF p = 0 \/ i.ret < 0 THEN from_end(IF top < 0 THEN -1 ELSE ROUNDDOWN(top))
           ELSE IF i.type = VMA_FREE THEN create(p)
           ELSE from_addr(i.base - 1)
  IN from_addr(IF addr = 0 THEN USER_LIM ELSE addr)

\* Variant of merge_vma() that extends the lhs but never removes the rhs.
merge_vma_keep_rhs(V, lb, rb) ==
  LET lhs == VmaAt(V, lb)
      rhs == VmaAt(V, rb)
  IN IF lhs.flags = rhs.flags /\ lhs.end = rhs.base /\ lhs.name = rhs.name
     THEN [vmas |-> (V \ {lhs}) \cup {[lhs EXCEPT !.end = rhs.end]}, vma |-> lb]
     ELSE [vmas |-> V, vma |-> NULLB]

\* merge_vma(): the lhs absorbs a contiguous rhs of equal flags and name.
merge_vma(V, lb, rb) ==
  LET lhs == VmaAt(V, lb)
      rhs == VmaAt(V, rb)
  IN IF lhs.flags = rhs.flags /\ lhs.end = rhs.base /\ lhs.name = rhs.name
     THEN [vmas |-> (V \ {lhs, rhs}) \cup {[lhs EXCEPT !.end = rhs.end]}, vma |-> lb]
     ELSE [vmas |-> V, vma |-> NULLB]

\* Variant of merge_vmas() that only tries the previous VMA.
merge_vmas_prev_only(V, b) ==
  LET p == list_prev(V, b)
      r == IF p # NULLB THEN merge_vma(V, p, b) ELSE [vmas |-> V, vma |-> NULLB]
  IN [vmas |-> r.vmas, vma |-> IF r.vma # NULLB THEN r.vma ELSE b]

\* merge_vmas(): merge with the previous VMA, then with the next one.
merge_vmas(V, b) ==
  LET p  == list_prev(V, b)
      r1 == IF p # NULLB THEN merge_vma(V, p, b) ELSE [vmas |-> V, vma |-> NULLB]
      b1 == IF r1.vma # NULLB THEN r1.vma ELSE b
      n  == list_next(r1.vmas, b1)
      r2 == IF n # NULLB THEN merge_vma(r1.vmas, b1, n) ELSE [vmas |-> r1.vmas, vma |-> NULLB]
  IN [vmas |-> r2.vmas, vma |-> IF r2.vma # NULLB THEN r2.vma ELSE b1]

\* Variant of split_vma() that cuts the lhs and never adds the rhs.
split_vma_lost_tail(V, lb, addr) ==
  LET lhs == VmaAt(V, lb)
  IN IF lhs.base = addr THEN [vmas |-> V, vma |-> lb]
     ELSE [vmas |-> (V \ {lhs}) \cup {[lhs EXCEPT !.end = addr]}, vma |-> NULLB]

(* split_vma(): cut the lhs at addr and add_vma() the rest with the lhs's *)
(* name and flags; the new VMA has no executable backing.  The cut stays  *)
(* when add_vma() fails.                                                   *)
split_vma(V, lb, addr) ==
  LET lhs == VmaAt(V, lb)
  IN IF lhs.base = addr THEN [vmas |-> V, vma |-> lb]
     ELSE IF lhs.end = addr THEN [vmas |-> V, vma |-> NULLB]
     ELSE add_vma((V \ {lhs}) \cup {[lhs EXCEPT !.end = addr]},
                  lhs.name, addr, lhs.end - addr, lhs.flags)

\* split_vmas(): split at base, split the middle at base + size, return it.
split_vmas(V, b, base, size) ==
  LET mid == split_vma(V, b, base)
  IN IF mid.vma = NULLB THEN mid
     ELSE [vmas |-> split_vma(mid.vmas, mid.vma, base + size).vmas, vma |-> mid.vma]

-----------------------------------------------------------------------------
(* The page table.  A helper takes and returns the state record           *)
(* st = [vmas, pte, ptbl, status, elf].  convert_flags_from_vma_to_pages() *)
(* keeps W and X: every entry the walkers write is present, so readable.   *)

page_flags(flags) == flags \ {"R"}

\* The bytes of a frame: copied from the image, zeroed, or physical frame 0.
Image(from, n) == [frame |-> "alloc", from |-> IF n = 0 THEN 0 ELSE from, n |-> n]
Zero == Image(0, 0)
Frame0 == [frame |-> "frame0", from |-> 0, n |-> 0]

\* ptbl_free(): free the page table when none of its entries is present.
ptbl_free(st) == [st EXCEPT !.ptbl = @ /\ DOMAIN st.pte # {}]

(* unmap_page_range(): drop the present entries of [va, va + size), then  *)
(* the walk calls ptbl_free() on the table.                                *)
unmap_page_range(st, va, size) ==
  LET keep == DOMAIN st.pte \ PagesIn(va, va + size)
  IN ptbl_free([st EXCEPT !.pte = [a \in keep |-> st.pte[a]]])

(* populate_region(): a fresh frame for every page of the range, holding *)
(* data[a]; populate_pte() asserts that no entry is present yet, and      *)
(* panics on a user page outside every VMA.                                *)
populate_region(st, va, size, flags, data) ==
  LET P == PagesIn(va, va + size)
  IN IF P \cap DOMAIN st.pte # {} \/ ~(P \subseteq Covered(st.vmas))
     THEN [st EXCEPT !.status = "panic"]
     ELSE [st EXCEPT !.pte = [a \in DOMAIN st.pte \cup P |->
                                IF a \in P THEN [prot |-> flags, data |-> data[a]]
                                ELSE st.pte[a]],
                     !.ptbl = TRUE]

(* protect_region(): protect_pte() runs on every entry of an existing    *)
(* page table in the range, present or not, and sets PAGE_PRESENT on each: *)
(* an empty entry becomes a present mapping of physical address 0.        *)
protect_region(st, va, size, flags) ==
  LET P == PagesIn(va, va + size)
  IN IF ~st.ptbl THEN st
     ELSE [st EXCEPT !.pte = [a \in DOMAIN st.pte \cup P |->
              IF a \notin P THEN st.pte[a]
              ELSE [prot |-> flags,
                    data |-> IF a \in DOMAIN st.pte THEN st.pte[a].data ELSE Frame0]]]

-----------------------------------------------------------------------------
(* The callbacks of walk_vma_range(): each returns [s, ret].              *)

SetFlags(V, b, flags) == (V \ {VmaAt(V, b)}) \cup {[VmaAt(V, b) EXCEPT !.flags = flags]}

\* Variant of do_remove_vma() that removes the VMA but not its pages.
do_remove_vma_no_unmap(st, base, size, vb, udata) ==
  LET sp == split_vmas(st.vmas, vb, ROUNDDOWN(base), ROUNDUP(size))
  IN IF sp.vma = NULLB THEN [s |-> [st EXCEPT !.vmas = sp.vmas], ret |-> -1]
     ELSE [s |-> [st EXCEPT !.vmas = sp.vmas \ {VmaAt(sp.vmas, sp.vma)},
                            !.elf = @ \ PagesIn(ROUNDDOWN(base), ROUNDDOWN(base) + ROUNDUP(size))],
           ret |-> 0]

(* do_remove_vma(): split out the page-aligned range, unmap its pages and *)
(* remove the middle VMA.  The pages stop being the image's (history).    *)
do_remove_vma(st, base, size, vb, udata) ==
  LET v      == VmaAt(st.vmas, vb)
      lo     == ROUNDDOWN(base)
      hi     == lo + ROUNDUP(size)
      sp     == split_vmas(st.vmas, vb, lo, ROUNDUP(size))
      u      == unmap_page_range([st EXCEPT !.vmas = sp.vmas], lo, hi - lo)
  IN IF lo < v.base \/ hi > v.end THEN [s |-> [st EXCEPT !.status = "panic"], ret |-> -1]
     ELSE IF sp.vma = NULLB THEN [s |-> [st EXCEPT !.vmas = sp.vmas], ret |-> -1]
     ELSE [s |-> [u EXCEPT !.vmas = @ \ {VmaAt(@, sp.vma)},
                           !.elf = @ \ PagesIn(lo, hi)],
           ret |-> 0]

(* do_protect_vma(): unless the flags are already prot, split at base,   *)
(* give the right-hand VMA, to its end, the new flags, reprotect the      *)
(* pages of [base, base + size) and merge.                                 *)
do_protect_vma(st, base, size, vb, prot) ==
  LET sp == split_vma(st.vmas, vb, base)
      V1 == SetFlags(sp.vmas, sp.vma, prot)
      st1 == protect_region([st EXCEPT !.vmas = V1], base, size, page_flags(prot))
  IN IF VmaAt(st.vmas, vb).flags = prot THEN [s |-> st, ret |-> 0]
     ELSE IF sp.vma = NULLB THEN [s |-> [st EXCEPT !.vmas = sp.vmas], ret |-> -1]
     ELSE [s |-> [st1 EXCEPT !.vmas = merge_vmas(V1, sp.vma).vmas], ret |-> 0]

\* check_vma_permissions(): no right asked for beyond the VMA's.
check_vma_permissions(v, acc) == acc \subseteq v.flags

\* Variants of do_populate_vma(): copying all of vm_len - offset, and not
\* checking the access against the VMA.
do_populate_vma_no_clamp(st, base, size, vb, acc) ==
  LET v    == VmaAt(st.vmas, vb)
      data == [a \in PagesIn(base, base + size) |->
                 IF v.src # NoSrc /\ a = base THEN Image(v.src + base - v.base, v.len - (base - v.base))
                 ELSE Zero]
  IN IF ~check_vma_permissions(v, acc) THEN [s |-> st, ret |-> -1]
     ELSE [s |-> populate_region(st, base, size, page_flags(v.flags), data), ret |-> 0]

do_populate_vma_no_check(st, base, size, vb, acc) ==
  LET v    == VmaAt(st.vmas, vb)
      data == [a \in PagesIn(base, base + size) |->
                 IF v.src # NoSrc /\ a = base THEN Image(v.src + base - v.base, 0) ELSE Zero]
  IN [s |-> populate_region(st, base, size, page_flags(v.flags), data), ret |-> 0]

(* do_populate_vma(): back the clipped range with frames.  For an         *)
(* executable VMA, the first page gets min(vm_len - offset, PAGE_SIZE)     *)
(* bytes of the image; vm_len - offset is unsigned, so past the file's end *)
(* it wraps and a whole page is copied.  vm_len = 0 fails an assert.       *)
do_populate_vma(st, base, size, vb, acc) ==
  LET v      == VmaAt(st.vmas, vb)
      offset == base - v.base
      n      == IF offset > v.len THEN PAGE_SIZE
                ELSE IF v.len - offset < PAGE_SIZE THEN v.len - offset ELSE PAGE_SIZE
      data   == [a \in PagesIn(base, base + size) |->
                   IF v.src # NoSrc /\ a = base THEN Image(v.src + offset, n) ELSE Zero]
  IN IF ~check_vma_permissions(v, acc) THEN [s |-> st, ret |-> -1]
     ELSE IF v.src # NoSrc /\ v.len = 0 THEN [s |-> [st EXCEPT !.status = "panic"], ret |-> 0]
     ELSE [s |-> populate_region(st, base, size, page_flags(v.flags), data), ret |-> 0]

(* do_unmap_vma(): page by page, stop with -1 at the first page with no  *)
(* entry, and unmap each page that is not dirty.  The program's own       *)
(* writes are not modelled, so no page is dirty.                           *)
do_unmap_vma(st, base, size, vb, udata) ==
  LET P    == PagesIn(base, base + size)
      hole == {a \in P : a \notin DOMAIN st.pte}
      stop == IF hole = {} THEN base + size ELSE Min(hole)
  IN [s |-> unmap_page_range(st, base, stop - base), ret |-> IF hole = {} THEN 0 ELSE -1]

(* walk_vma_range() calls its callback on each VMA that overlaps [cur,  *)
(* end), in order, with the range clipped to the VMA, and stops at the    *)
(* first negative result.  The VMA it visits next is find_vma(cur).       *)
walk_next(st, cur, end) == {v \in st.vmas : v.base = find_vma(st.vmas, cur) /\ v.base < end}
walk_lo(v, cur) == IF cur > v.base THEN cur ELSE v.base
walk_hi(v, end) == IF end < v.end THEN end ELSE v.end
walk_stops(st, cur, end) == cur >= end \/ walk_next(st, cur, end) = {} \/ st.status # "run"

(* The four users of walk_vma_range(), each the walk with its callback:   *)
(* remove_vma_range(), protect_vma_range(), populate_vma_range() and      *)
(* unmap_vma_range(), over [cur, end).                                     *)
RECURSIVE remove_vma_range(_, _, _)
remove_vma_range(st, cur, end) ==
  IF walk_stops(st, cur, end) THEN [s |-> st, ret |-> 0]
  ELSE CHOOSE res \in UNION {{IF r.ret < 0 THEN r ELSE remove_vma_range(r.s, walk_hi(v, end), end) :
         r \in {do_remove_vma(st, walk_lo(v, cur), walk_hi(v, end) - walk_lo(v, cur), v.base, {})}} :
           v \in walk_next(st, cur, end)} : TRUE

RECURSIVE protect_vma_range(_, _, _, _)
protect_vma_range(st, cur, end, flags) ==
  IF walk_stops(st, cur, end) THEN [s |-> st, ret |-> 0]
  ELSE CHOOSE res \in UNION {{IF r.ret < 0 THEN r ELSE protect_vma_range(r.s, walk_hi(v, end), end, flags) :
         r \in {do_protect_vma(st, walk_lo(v, cur), walk_hi(v, end) - walk_lo(v, cur), v.base, flags)}} :
           v \in walk_next(st, cur, end)} : TRUE

RECURSIVE populate_vma_range(_, _, _, _)
populate_vma_range(st, cur, end, flags) ==
  IF walk_stops(st, cur, end) THEN [s |-> st, ret |-> 0]
  ELSE CHOOSE res \in UNION {{IF r.ret < 0 THEN r ELSE populate_vma_range(r.s, walk_hi(v, end), end, flags) :
         r \in {do_populate_vma(st, walk_lo(v, cur), walk_hi(v, end) - walk_lo(v, cur), v.base, flags)}} :
           v \in walk_next(st, cur, end)} : TRUE

RECURSIVE unmap_vma_range(_, _, _)
unmap_vma_range(st, cur, end) ==
  IF walk_stops(st, cur, end) THEN [s |-> st, ret |-> 0]
  ELSE CHOOSE res \in UNION {{IF r.ret < 0 THEN r ELSE unmap_vma_range(r.s, walk_hi(v, end), end) :
         r \in {do_unmap_vma(st, walk_lo(v, cur), walk_hi(v, end) - walk_lo(v, cur), v.base, {})}} :
           v \in walk_next(st, cur, end)} : TRUE

-----------------------------------------------------------------------------
(* Loading the program (task_load_elf()).                                  *)

(* add_executable_vma(): add_vma(), then record the image bytes, displaced *)
(* like addr within its page, and merge.                                   *)
add_executable_vma(V, name, addr, size, flags, src, len) ==
  LET a   == add_vma(V, name, addr, size, flags)
      off == addr % PAGE_SIZE
      v   == VmaAt(a.vmas, a.vma)
  IN IF a.vma = NULLB THEN a
     ELSE merge_vmas((a.vmas \ {v}) \cup {[v EXCEPT !.src = src - off, !.len = len + off]},
                     a.vma)

add_anonymous_vma(V, name, addr, size, flags) ==
  add_executable_vma(V, name, addr, size, flags, NoSrc, 0)

\* elf_get_name(): the name of a segment, by its ELF flags.
elf_get_name(ph) ==
  IF "X" \in ph.flags THEN ".text" ELSE IF "W" \in ph.flags THEN ".data" ELSE ".rodata"

(* load_elf_segments() and the stack VMA of task_load_elf(): a segment    *)
(* has its ELF flags W and X, plus R (PAGE_PRESENT).                        *)
LoadedVmas ==
  LET load(V, ph) == add_executable_vma(V, elf_get_name(ph), ph.va, ph.memsz,
                                        {"R"} \cup ph.flags, ph.src, ph.filesz).vmas
      V1 == FoldLeft(load, {}, Segments)
  IN add_anonymous_vma(V1, "stack", USTACK_TOP - PAGE_SIZE, PAGE_SIZE, {"R", "W"}).vmas

\* The pages of the loaded segments.
ImagePages == {a \in AllPages : \E i \in 1 .. Len(Segments) :
                 a \in Segments[i].va .. Segments[i].va + Segments[i].memsz - 1}

Init ==
  /\ vmas = LoadedVmas
  /\ pte = [a \in {} |-> Zero]
  /\ ptbl = FALSE
  /\ status = "run"
  /\ elf = ImagePages
  /\ last = [op |-> "none", addr |-> 0, len |-> 0, prot |-> {}, fixed |-> FALSE, ret |-> 0]

-----------------------------------------------------------------------------
(* The system calls and the page fault.                                    *)

MAP_FAILED == -1

St == [vmas |-> vmas, pte |-> pte, ptbl |-> ptbl, status |-> status, elf |-> elf]

Commit(st) ==
  /\ vmas' = st.vmas
  /\ pte' = st.pte
  /\ ptbl' = st.ptbl
  /\ status' = st.status
  /\ elf' = st.elf

Done(op, addr, len, prot, fixed, ret) ==
  last' = [op |-> op, addr |-> addr, len |-> len, prot |-> prot, fixed |-> fixed, ret |-> ret]

(* check_permissions(): no MAP_FIXED at NULL, nothing above USER_LIM, and *)
(* write or execute only with read.                                        *)
check_permissions(addr, len, prot, fixed) ==
  /\ ~(addr = 0 /\ fixed)
  /\ addr + len <= USER_LIM
  /\ prot \cap {"W", "X"} # {} => "R" \in prot

(* sys_mmap() of an anonymous private mapping, MAP_FIXED or not.  The    *)
(* protection is passed on as the VMA flags.                               *)
sys_mmap(addr, len, prot, fixed) ==
  LET old == task_find_vma(vmas, addr)
  IN /\ status = "run"
     /\ IF ~check_permissions(addr, len, prot, fixed)
          THEN Commit(St) /\ Done("mmap", addr, len, prot, fixed, MAP_FAILED)
        ELSE \E rm \in {IF fixed /\ old # NULLB
                        THEN remove_vma_range(St, old, VmaAt(vmas, old).end)
                        ELSE [s |-> St, ret |-> 0]} :
             \E a \in {add_vma(rm.s.vmas, "user", addr, len, prot)} :
               IF rm.ret < 0 \/ a.vma = NULLB
                 THEN Commit(rm.s) /\ Done("mmap", addr, len, prot, fixed, MAP_FAILED)
               ELSE /\ Commit([rm.s EXCEPT !.vmas = merge_vmas(a.vmas, a.vma).vmas])
                    /\ Done("mmap", addr, len, prot, fixed, IF addr # 0 THEN addr ELSE a.vma)

\* sys_munmap(): remove_vma_range(); it returns nothing.
sys_munmap(addr, len) ==
  /\ status = "run"
  /\ Commit(remove_vma_range(St, addr, addr + len).s)
  /\ Done("munmap", addr, len, {}, FALSE, 0)

(* sys_mprotect(): protect_vma_range(), then protect_region() over the    *)
(* whole range.                                                            *)
sys_mprotect(addr, len, prot) ==
  /\ status = "run"
  /\ IF ~check_permissions(addr, len, prot, FALSE)
       THEN Commit(St) /\ Done("mprotect", addr, len, prot, FALSE, -1)
     ELSE \E r \in {protect_vma_range(St, addr, addr + len, prot)} :
            IF r.ret < 0
              THEN Commit(r.s) /\ Done("mprotect", addr, len, prot, FALSE, -1)
            ELSE /\ Commit(protect_region(r.s, addr, len, page_flags(prot)))
                 /\ Done("mprotect", addr, len, prot, FALSE, 0)

(* sys_madvise(): DONTNEED walks the VMAs with do_unmap_vma() and ignores *)
(* its result; WILLNEED populates the whole range with zeroed frames and  *)
(* the flags of the VMA holding addr.  The history records the advice in  *)
(* the prot field.                                                         *)
sys_madvise(addr, len, adv) ==
  LET vb == task_find_vma(vmas, addr)
  IN /\ status = "run"
     /\ IF ~check_permissions(addr, len, {}, FALSE)
          THEN Commit(St) /\ Done("madvise", addr, len, {adv}, FALSE, -1)
        ELSE IF adv = "dontneed"
          THEN /\ Commit(unmap_vma_range(St, addr, addr + len).s)
               /\ Done("madvise", addr, len, {adv}, FALSE, 0)
        ELSE IF vb = NULLB
          THEN Commit(St) /\ Done("madvise", addr, len, {adv}, FALSE, -1)
        ELSE /\ Commit(populate_region(St, addr, len, page_flags(VmaAt(vmas, vb).flags),
                                       [a \in AllPages |-> Zero]))
             /\ Done("madvise", addr, len, {adv}, FALSE, 0)

\* sys_mquery() taking the head of the list for the gap at the top.
sys_mquery_head(addr) ==
  LET vb   == find_vma(vmas, addr)
      prev == list_prev(vmas, vb)
      head == IF vmas = {} THEN NULLB ELSE Min({v.base : v \in vmas})
      none == [ret |-> 0, base |-> 0, end |-> 0, mapped |-> FALSE]
  IN IF addr >= USER_LIM THEN [none EXCEPT !.ret = -1]
     ELSE IF vb = NULLB
       THEN [none EXCEPT !.end = USER_LIM,
                         !.base = IF head = NULLB THEN 0 ELSE VmaAt(vmas, head).end]
     ELSE IF addr < vb
       THEN [none EXCEPT !.end = vb, !.base = IF prev = NULLB THEN 0 ELSE VmaAt(vmas, prev).end]
     ELSE [none EXCEPT !.base = vb, !.end = VmaAt(vmas, vb).end,
                       !.mapped = ROUNDDOWN(addr) \in DOMAIN pte]

(* sys_mquery(): changes no kernel state, so it is an operator: the info   *)
(* it fills for addr.  In a VMA, that VMA and whether addr has an entry;   *)
(* else the gap from the end of the previous VMA (0 if none, as the       *)
(* memset leaves it) to the base of the next (USER_LIM if none).           *)
sys_mquery(addr) ==
  LET vb   == find_vma(vmas, addr)
      prev == list_prev(vmas, vb)
      tail == IF vmas = {} THEN NULLB ELSE Max({v.base : v \in vmas})
      none == [ret |-> 0, base |-> 0, end |-> 0, mapped |-> FALSE]
  IN IF addr >= USER_LIM THEN [none EXCEPT !.ret = -1]
     ELSE IF vb = NULLB
       THEN [none EXCEPT !.end = USER_LIM,
                         !.base = IF tail = NULLB THEN 0 ELSE VmaAt(vmas, tail).end]
     ELSE IF addr < vb
       THEN [none EXCEPT !.end = vb, !.base = IF prev = NULLB THEN 0 ELSE VmaAt(vmas, prev).end]
     ELSE [none EXCEPT !.base = vb, !.end = VmaAt(vmas, vb).end,
                       !.mapped = ROUNDDOWN(addr) \in DOMAIN pte]

\* The MMU faults on a page with no entry, or one that denies W or X asked for.
Faults(va, acc) ==
  IF ROUNDDOWN(va) \in DOMAIN pte THEN ~(acc \ {"R"} \subseteq pte[ROUNDDOWN(va)].prot)
  ELSE TRUE

(* page_fault_handler() and task_page_fault_handler(): copy-on-write of a *)
(* present page the VMA lets write (the only reference: made writable),   *)
(* else populate the page; a failure destroys the task.                    *)
page_fault(va, acc) ==
  LET a   == ROUNDDOWN(va)
      vb  == task_find_vma(vmas, va)
      cow == a \in DOMAIN pte /\ "W" \in VmaAt(vmas, vb).flags /\ "W" \notin pte[a].prot
  IN /\ status = "run"
     /\ Faults(va, acc)
     /\ \E r \in {IF vb = NULLB THEN [s |-> St, ret |-> -1]
                  ELSE IF cow THEN [s |-> [St EXCEPT !.pte[a].prot = @ \cup {"W"}], ret |-> 0]
                  ELSE populate_vma_range(St, a, a + PAGE_SIZE, acc)} :
          /\ Commit(IF r.ret < 0 THEN [r.s EXCEPT !.status = "destroyed"] ELSE r.s)
          /\ Done("fault", va, 0, acc, FALSE, r.ret)

Next ==
  \/ \E addr \in Addrs, len \in Lens, prot \in Prots, fixed \in BOOLEAN :
       sys_mmap(addr, len, prot, fixed)
  \/ \E addr \in Addrs, len \in Lens : sys_munmap(addr, len)
  \/ \E addr \in Addrs, len \in Lens, prot \in Prots : sys_mprotect(addr, len, prot)
  \/ \E va \in 0 .. USER_LIM - 1, acc \in Accesses : page_fault(va, acc)
  \/ \E addr \in Addrs, len \in Lens, adv \in {"dontneed", "willneed"} :
       sys_madvise(addr, len, adv)

Spec == Init /\ [][Next]_vars

-----------------------------------------------------------------------------
(* Properties.                                                             *)

Names == {".text", ".data", ".rodata", "stack", "user"}
Rights == {"R", "W", "X"}

TypeOK ==
  /\ \A v \in vmas : /\ v.base \in 0 .. USER_LIM /\ v.end \in 0 .. USER_LIM
                    /\ v.flags \subseteq Rights /\ v.name \in Names
                    /\ v.src \in Int /\ v.len \in Nat
  /\ DOMAIN pte \subseteq AllPages
  /\ \A a \in DOMAIN pte : /\ pte[a].prot \subseteq {"W", "X"}
                          /\ pte[a].data.frame \in {"alloc", "frame0"}
                          /\ pte[a].data.n \in 0 .. PAGE_SIZE
  /\ ptbl \in BOOLEAN
  /\ status \in {"run", "destroyed", "panic"}
  /\ elf \subseteq AllPages
  /\ last.op \in {"none", "mmap", "munmap", "mprotect", "madvise", "fault"}

(* The VMA list stays sane through every split, merge and removal: each  *)
(* VMA is a non-empty page-aligned range and no two overlap.  insert_vma() *)
(* checks overlap only along one descent of the tree; split_vma() shrinks  *)
(* the lhs before it adds the rhs.                                         *)
VmasDisjoint ==
  /\ \A v \in vmas : v.base < v.end /\ v.base % PAGE_SIZE = 0 /\ v.end % PAGE_SIZE = 0
  /\ \A v, w \in vmas : v # w => ~Overlap(v, w)

(* The list is maximally merged: no VMA ends where another of the same    *)
(* name and flags begins.  sys_mmap() and do_protect_vma() call            *)
(* merge_vmas(), which merges with the previous and then the next VMA;    *)
(* munmap's splits must leave no mergeable pair behind.                    *)
VmasMerged ==
  ~\E v, w \in vmas : v.end = w.base /\ v.flags = w.flags /\ v.name = w.name

(* Every present page-table entry lies in a VMA that allows reading, and  *)
(* grants no right the VMA lacks: do_remove_vma() unmaps what it removes, *)
(* do_populate_vma() maps with the VMA's flags, mprotect reprotects.      *)
MappingsWithinVmas ==
  \A a \in DOMAIN pte : \E v \in vmas : /\ a \in v.base .. v.end - 1
                                       /\ "R" \in v.flags
                                       /\ pte[a].prot \subseteq page_flags(v.flags)

(* The bytes of a page of a segment, as the ELF format and task_load_elf() *)
(* say: the first p_filesz bytes of the segment come from the image, the   *)
(* rest up to p_memsz are zero.                                            *)
ImageBytes(a) ==
  LET i   == CHOOSE j \in 1 .. Len(Segments) :
               a \in Segments[j].va .. Segments[j].va + Segments[j].memsz - 1
      off == a - Segments[i].va
      n   == Segments[i].filesz - off
  IN Image(Segments[i].src + off, IF n <= 0 THEN 0 ELSE IF n < PAGE_SIZE THEN n ELSE PAGE_SIZE)

(* Every frame the kernel allocated for a page holds what the program may *)
(* expect there: the image's bytes on a page of a loaded segment not yet  *)
(* unmapped, zeros elsewhere.  Lazy loading in do_populate_vma() must get *)
(* this right after splits, merges and remaps.                             *)
PageDataCorrect ==
  \A a \in DOMAIN pte : pte[a].data.frame = "alloc" =>
      pte[a].data = IF a \in elf THEN ImageBytes(a) ELSE Zero

(* Every present entry maps a frame the kernel allocated for it, never    *)
(* physical address 0 (protect_pte() on an empty entry).                   *)
FramesAllocated == \A a \in DOMAIN pte : pte[a].data.frame = "alloc"

(* No kernel assertion fails: do_remove_vma()'s range checks,             *)
(* populate_pte()'s "no present page" and do_populate_vma()'s vm_len.      *)
NoPanic == status # "panic"

(* madvise(MADV_DONTNEED) releases the frames of the whole range that    *)
(* lies in VMAs ("DONTNEED releases non-dirty frames", and no page is     *)
(* dirty here), whichever of its pages had been faulted in before.        *)
DontneedReleases ==
  [][last'.op = "madvise" /\ last'.prot = {"dontneed"} /\ last'.ret = 0 =>
       PagesIn(last'.addr, last'.addr + last'.len) \cap Covered(vmas) \cap DOMAIN pte' = {}]_vars

(* mquery describes the address it is asked about: the VMA holding it,    *)
(* with whether its page is mapped, or else the whole free gap around it,  *)
(* bounded by the neighbouring VMAs or the ends of user space.  The answer *)
(* comes from find_vma() and the list neighbours after any sequence of     *)
(* maps, unmaps, splits and merges.                                        *)
MqueryDescribesAddress ==
  \A addr \in 0 .. USER_LIM - 1 :
    LET i == sys_mquery(addr)
    IN /\ i.ret = 0 /\ i.base <= addr /\ addr < i.end
       /\ addr \in Covered(vmas) =>
            \E v \in vmas : v.base = i.base /\ v.end = i.end /\ i.mapped = (ROUNDDOWN(addr) \in DOMAIN pte)
       /\ addr \notin Covered(vmas) =>
            /\ (i.base .. i.end - 1) \cap Covered(vmas) = {}
            /\ i.base = 0 \/ \E v \in vmas : v.end = i.base
            /\ i.end = USER_LIM \/ \E v \in vmas : v.base = i.end

\* A page range with no VMA in it, of the size a mapping of len needs.
HasRoom(V, len) ==
  \E b \in AllPages \ {0} : /\ b + ROUNDUP(len) <= USER_LIM
                          /\ (b .. b + ROUNDUP(len) - 1) \cap Covered(V) = {}

(* mmap without MAP_FIXED succeeds when some free gap is large enough:    *)
(* add_vma() chooses "the first free gap large enough" (spec, VMAs).       *)
MmapPlacesWhenRoom ==
  [][ /\ last'.op = "mmap" /\ ~last'.fixed
      /\ check_permissions(last'.addr, last'.len, last'.prot, FALSE)
      /\ HasRoom(vmas, last'.len)
      => last'.ret # MAP_FAILED ]_vars

(* A successful MAP_FIXED mmap leaves every address outside its range     *)
(* mapped as before (spec, scenario 2: the rest of the old VMA stays).     *)
FixedKeepsRest ==
  [][ last'.op = "mmap" /\ last'.fixed /\ last'.ret # MAP_FAILED
      => Covered(vmas) \ (last'.addr .. last'.addr + last'.len - 1) \subseteq Covered(vmas') ]_vars

(* A successful mprotect gives the addresses of its range exactly the new *)
(* flags and leaves every other address's flags as they were (spec:        *)
(* "mprotect ... yields VMA flags exactly").                               *)
ProtectChangesOnlyRange ==
  [][ last'.op = "mprotect" /\ last'.ret = 0
      => \A v \in vmas : \A a \in v.base .. v.end - 1 :
           \E w \in vmas' : /\ a \in w.base .. w.end - 1
                           /\ w.flags = IF a \in last'.addr .. last'.addr + last'.len - 1
                                        THEN last'.prot ELSE v.flags ]_vars

(* mprotect never maps or unmaps an address: the splits of do_protect_vma() *)
(* put back every part they cut off.                                       *)
MprotectKeepsMappings ==
  [][ last'.op = "mprotect" => Covered(vmas') = Covered(vmas) ]_vars

====
