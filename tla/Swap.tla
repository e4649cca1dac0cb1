-------------------------------- MODULE Swap --------------------------------
(***************************************************************************)
(* The swap engine (kernel/dev/swap.c, swap_util.c, rmap.c) and the paths  *)
(* that feed it and take frames from it: the page fault that populates a  *)
(* page or copies it on write, munmap, fork's copy of the address space,  *)
(* and the swap thread's swap_out().                                       *)
(*                                                                         *)
(* Addresses are in page units: a virtual page, a frame and a disk slot    *)
(* are numbers, and a page-table entry holds one of them as its address,  *)
(* so PAGE_ADDR(entry) = pa compares a slot with a frame as the C does.   *)
(* An entry is "none" (0), "present" (a frame, with PAGE_ACCESSED and      *)
(* PAGE_WRITE), or "swapped" (PAGE_PRESENT cleared, the flags kept, the   *)
(* disk address written in).  Each task's user pages lie under one page   *)
(* table.  Task 1 is the program; task 2 is the child its fork() creates. *)
(*                                                                         *)
(* vmas is the sequence of VMA structs ever kmalloc()ed, indexed by their *)
(* allocation order, each [base, end, live, owner, task, rm]: owner is    *)
(* the task whose tree holds it, task is vma->task (the page table        *)
(* rmap_walk() walks), rm its rmap.  remove_vma() unlinks a VMA but       *)
(* neither frees it nor takes it off its rmap, so a removed VMA stays     *)
(* with live = FALSE.  create_vma() gives each VMA a fresh rmap, named by *)
(* the VMA's index; fork adds the child's copies to the parent's rmaps.   *)
(* All VMAs are anonymous and writable.                                    *)
(*                                                                         *)
(* Every kernel path runs under the big kernel lock, so each is one step; *)
(* the swap thread keeps the lock through a batch of swap_out() calls and *)
(* yields only after a failure or at the end of the batch.  User code on  *)
(* other CPUs runs meanwhile and sets PAGE_ACCESSED (Touch).  The pages   *)
(* the page tables themselves take from the buddy allocator are left out. *)
(***************************************************************************)
EXTENDS Integers, FiniteSets, Sequences, SequencesExt

CONSTANTS
  NPAGES,            \* user pages of a task: 0 .. NPAGES - 1
  Reserved,          \* frames page_init() never frees (IVT, kernel image)
  UserFrames,        \* frames the buddy allocator hands out
  InitVmas,          \* the program's VMAs at start: a sequence of [base, end]
  MEMORY_THRESHOLD,  \* the swap thread swaps while fewer frames are free
  SWAP_BLOCK,        \* swap_out() calls per run of the swap thread
  WriteFails,        \* the results the disk write may have: {FALSE} or BOOLEAN
  MaxSlots,          \* bound on free_disk_addr, the slots ever handed out
  MaxVmas,           \* bound on the VMA structs ever kmalloc()ed
  MunmapLens         \* the lengths, in pages, munmap() is called with

Frames == Reserved \cup UserFrames
Pages == 0 .. NPAGES - 1
Tasks == {1, 2}
Parent == 1
Child == 2
NoRmap == 0          \* page->rmap = NULL

ASSUME Reserved \cap UserFrames = {} /\ 0 \in Reserved

VARIABLES
  vmas,            \* the VMA structs: [base, end, live, owner, task, rm]
  pte,             \* task -> page -> entry
  ptbl,            \* task -> whether the page table of its user pages exists
  ref,             \* frame -> pp_ref
  free,            \* the frames on the buddy free lists
  rmap,            \* frame -> page->rmap
  swapq,           \* swap.pages: the head first, list_pop_tail() takes the last
  free_disk_addr,  \* the next disk slot get_free_disk_addr() hands out
  swapd,           \* swap_out() calls left in the swap thread's batch; 0 idle
  forked,          \* whether task 1 has forked task 2
  status           \* "run", "oom" (page_alloc() asserted) or "panic"

vars == <<vmas, pte, ptbl, ref, free, rmap, swapq, free_disk_addr, swapd, forked, status>>

None == [kind |-> "none", addr |-> 0, acc |-> FALSE, w |-> FALSE]
Present(f, w) == [kind |-> "present", addr |-> f, acc |-> FALSE, w |-> w]
Swapped(slot) == [kind |-> "swapped", addr |-> slot, acc |-> FALSE, w |-> FALSE]

\* The tasks that exist.
Live == IF forked THEN Tasks ELSE {Parent}

-----------------------------------------------------------------------------
(* The swap list and the reverse map.                                      *)

\* add_swap_page(): list_add() at the head, unless the node is on the list.
add_swap_page(q, f) == IF f \in Range(q) THEN q ELSE <<f>> \o q

\* remove_swap_page(): list_del() if the node is on the list.
remove_swap_page(q, f) == SelectSeq(q, LAMBDA x : x # f)

\* mru_swap_page(): to the head of the list.
mru_swap_page(q, f) == add_swap_page(remove_swap_page(q, f), f)

\* The VMAs on an rmap's list: the one create_vma() made it for, and the
\* copies fork added.
RmapVmas(V, r) == {i \in DOMAIN V : V[i].rm = r}

\* Mutant of rmap_walk(): the range stops a page short of vm_end.
rmap_walk_short(V, r) ==
  UNION {{<<V[i].task, va>> : va \in V[i].base .. V[i].end - 2} : i \in RmapVmas(V, r)}

(* rmap_walk(): walk_page_range() over [vm_base, vm_end) of vma->task's   *)
(* page table for each VMA of the rmap; the callback sees every entry of *)
(* the range, present or not.  The result is a set of <<task, page>>: a   *)
(* range walked twice (two VMAs with the same task) is the same entries,  *)
(* and the callbacks here do nothing the second time but re-match.         *)
rmap_walk(V, r) ==
  UNION {{<<V[i].task, va>> : va \in V[i].base .. V[i].end - 1} : i \in RmapVmas(V, r)}

\* task_find_vma(): the live VMA of task t that contains the page, as a set.
task_find_vma(V, t, va) ==
  {i \in DOMAIN V : V[i].owner = t /\ V[i].live /\ V[i].base <= va /\ va < V[i].end}

-----------------------------------------------------------------------------
(* The clock.                                                              *)

\* check_access_flag(): the present entries mapping f with PAGE_ACCESSED.
check_access_flag(V, p, f) ==
  {e \in rmap_walk(V, rmap[f]) :
     LET x == p[e[1]][e[2]] IN x.kind = "present" /\ x.addr = f /\ x.acc}

\* Mutant of check_clock(): the tail is the victim, accessed or not.
check_clock_no_second_chance(V, q, p) == [page |-> Last(q), q |-> Front(q), pte |-> p]

(* check_clock(): pop the tail; if a mapping of it was accessed, clear    *)
(* the bits, put it back at the head and return NULL (page 0).            *)
check_clock(V, q, p) ==
  LET f == Last(q)
      A == check_access_flag(V, p, f)
  IN IF A = {} THEN [page |-> f, q |-> Front(q), pte |-> p]
     ELSE [page |-> 0, q |-> mru_swap_page(Front(q), f),
           pte |-> [t \in Tasks |-> [va \in Pages |->
                      IF <<t, va>> \in A THEN [p[t][va] EXCEPT !.acc = FALSE] ELSE p[t][va]]]]

\* get_page(): check_clock() until it returns a page; the list is not empty.
RECURSIVE get_page(_, _, _)
get_page(V, q, p) ==
  LET c == check_clock(V, q, p)
  IN IF c.page # 0 THEN c ELSE get_page(V, c.q, c.pte)

-----------------------------------------------------------------------------
(* Frames.  A helper takes and returns st = [vmas, pte, ptbl, ref, free,  *)
(* rmap, swapq, status].                                                   *)

St == [vmas |-> vmas, pte |-> pte, ptbl |-> ptbl, ref |-> ref, free |-> free,
       rmap |-> rmap, swapq |-> swapq, status |-> status]

Commit(st) ==
  /\ vmas' = st.vmas /\ pte' = st.pte /\ ptbl' = st.ptbl /\ ref' = st.ref
  /\ free' = st.free /\ rmap' = st.rmap /\ swapq' = st.swapq /\ status' = st.status

\* Mutant of page_free(): the frame leaves the swap list but not for the free lists.
page_free_leak(st, f) ==
  IF st.ref[f] # 0 THEN [st EXCEPT !.status = "panic"]
  ELSE [st EXCEPT !.swapq = remove_swap_page(@, f)]

(* page_free(): assert that pp_ref is 0, take the page off the swap list *)
(* and return it to the buddy allocator.                                   *)
page_free(st, f) ==
  IF st.ref[f] # 0 THEN [st EXCEPT !.status = "panic"]
  ELSE [st EXCEPT !.swapq = remove_swap_page(@, f), !.free = @ \cup {f}]

(* page_decref() of frame f, n times over: it is freed when its count     *)
(* passes through 0.                                                        *)
page_decref(st, f, n) ==
  LET r == st.ref[f]
  IN IF n > 0 /\ 1 <= r /\ r <= n
     THEN [page_free([st EXCEPT !.ref[f] = 0], f) EXCEPT !.ref[f] = r - n]
     ELSE [st EXCEPT !.ref[f] = r - n]

(* ptbl_free(): a page table with no present entry is freed, and with it *)
(* whatever its non-present entries held.                                 *)
ptbl_free(st, t) ==
  IF \E va \in Pages : st.pte[t][va].kind = "present" THEN st
  ELSE [st EXCEPT !.pte[t] = [va \in Pages |-> None], !.ptbl[t] = FALSE]

(* unmap_page_range() of task t with remove_pte(): remove_pte() tests the *)
(* entry times PAGE_PRESENT, so every nonzero entry, swapped ones         *)
(* included, has page_decref() called on pa2page() of its address and is  *)
(* cleared; then ptbl_free().                                              *)
unmap_page_range(st, t, lo, hi) ==
  LET P       == {va \in lo .. hi - 1 : st.pte[t][va].kind # "none"}
      hits(f) == Cardinality({va \in P : st.pte[t][va].addr = f})
      RECURSIVE decref(_, _)
      decref(s, F) == IF F = {} THEN s
                      ELSE LET f == CHOOSE x \in F : TRUE
                           IN decref(page_decref(s, f, hits(f)), F \ {f})
      cleared == [st EXCEPT !.pte[t] = [va \in Pages |-> IF va \in P THEN None ELSE @[va]]]
  IN IF ~st.ptbl[t] THEN st
     ELSE ptbl_free(decref(cleared, {st.pte[t][va].addr : va \in P}), t)

\* Mutants of insert_pte(): the replaced page keeps its reference; the new
\* page is not put on the swap list.
insert_pte_no_decref(st, t, va, f, w) ==
  LET v == CHOOSE i \in task_find_vma(st.vmas, t, va) : TRUE
  IN [st EXCEPT !.rmap[f] = st.vmas[v].rm, !.swapq = add_swap_page(@, f),
                !.ref[f] = @ + 1, !.pte[t][va] = Present(f, w), !.ptbl[t] = TRUE]

insert_pte_unlisted(st, t, va, f, w) ==
  LET old == st.pte[t][va]
      s   == IF old.kind = "present" THEN page_decref(st, old.addr, 1) ELSE st
      v   == CHOOSE i \in task_find_vma(st.vmas, t, va) : TRUE
  IN [s EXCEPT !.rmap[f] = st.vmas[v].rm, !.ref[f] = @ + 1,
               !.pte[t][va] = Present(f, w), !.ptbl[t] = TRUE]

(* insert_pte() of page_insert() for task t, run by task t: page_decref() *)
(* of a present entry's page, page->rmap from task_find_vma(cur_task),    *)
(* add_swap_page(), one more pp_ref, and the entry written afresh with    *)
(* the given PAGE_WRITE and PAGE_ACCESSED cleared.                         *)
insert_pte(st, t, va, f, w) ==
  LET old == st.pte[t][va]
      s   == IF old.kind = "present" THEN page_decref(st, old.addr, 1) ELSE st
      v   == CHOOSE i \in task_find_vma(st.vmas, t, va) : TRUE
  IN [s EXCEPT !.rmap[f] = st.vmas[v].rm, !.swapq = add_swap_page(@, f),
               !.ref[f] = @ + 1, !.pte[t][va] = Present(f, w), !.ptbl[t] = TRUE]

\* Mutants of populate_pte(): the reference is not counted; the frame is
\* not put on the swap list.
populate_pte_noref(st, t, va, f) ==
  LET v == CHOOSE i \in task_find_vma(st.vmas, t, va) : TRUE
  IN [st EXCEPT !.free = @ \ {f}, !.rmap[f] = st.vmas[v].rm, !.swapq = add_swap_page(@, f),
                !.pte[t][va] = Present(f, TRUE), !.ptbl[t] = TRUE]

populate_pte_unlisted(st, t, va, f) ==
  LET v == CHOOSE i \in task_find_vma(st.vmas, t, va) : TRUE
  IN [st EXCEPT !.free = @ \ {f}, !.rmap[f] = st.vmas[v].rm,
                !.ref[f] = @ + 1, !.pte[t][va] = Present(f, TRUE), !.ptbl[t] = TRUE]

(* populate_pte() for one page of a writable VMA: assert no present      *)
(* entry, take a zeroed frame, point it at the rmap of the VMA and enlist *)
(* it, count the reference and write a present, writable entry.           *)
populate_pte(st, t, va, f) ==
  LET v == CHOOSE i \in task_find_vma(st.vmas, t, va) : TRUE
  IN [st EXCEPT !.free = @ \ {f}, !.rmap[f] = st.vmas[v].rm, !.swapq = add_swap_page(@, f),
                !.ref[f] = @ + 1, !.pte[t][va] = Present(f, TRUE), !.ptbl[t] = TRUE]

\* Mutant of copy_on_write(): the page is made writable whoever shares it.
copy_on_write_always_write(st, t, va) ==
  {[st EXCEPT !.pte[t][va].w = TRUE]}

(* copy_on_write(): a page with pp_ref 1 is made writable in place;      *)
(* otherwise page_alloc(ALLOC_ZERO) (which asserts a free frame) and      *)
(* page_insert() of the copy, writable.  The set of outcomes, one per     *)
(* frame the allocator may return.                                         *)
copy_on_write(st, t, va) ==
  LET f == st.pte[t][va].addr
  IN IF st.ref[f] = 1 THEN {[st EXCEPT !.pte[t][va].w = TRUE]}
     ELSE IF st.free = {} THEN {[st EXCEPT !.status = "oom"]}
     ELSE {insert_pte([st EXCEPT !.free = @ \ {g}], t, va, g, TRUE) : g \in st.free}

-----------------------------------------------------------------------------
(* VMAs: splitting, removal (kernel/vma/split.c, remove.c) and fork's     *)
(* copy (kernel/sched/fork.c).                                             *)

(* split_vma(): cut the lhs at addr and add_vma() the rest for the task  *)
(* that splits; the gap the cut leaves is where add_vma() puts it, and    *)
(* create_vma() gives it a new rmap and vma->task = task.  The pages of   *)
(* the rest keep page->rmap, the lhs's rmap.                               *)
split_vma(V, t, i, addr) ==
  IF V[i].base = addr THEN [vmas |-> V, vma |-> i]
  ELSE IF V[i].end = addr THEN [vmas |-> V, vma |-> 0]
  ELSE [vmas |-> Append([V EXCEPT ![i].end = addr],
                        [base |-> addr, end |-> V[i].end, live |-> TRUE,
                         owner |-> t, task |-> t, rm |-> Len(V) + 1]),
        vma |-> Len(V) + 1]

\* split_vmas(): split at base, split the middle at base + size, return it.
split_vmas(V, t, i, base, size) ==
  LET mid == split_vma(V, t, i, base)
  IN IF mid.vma = 0 THEN mid
     ELSE [vmas |-> split_vma(mid.vmas, t, mid.vma, base + size).vmas, vma |-> mid.vma]

(* do_remove_vma(): split out [lo, hi), unmap its pages and remove_vma()  *)
(* the middle: it leaves the tree, not its rmap.                           *)
do_remove_vma(st, t, lo, hi, i) ==
  LET sp == split_vmas(st.vmas, t, i, lo, hi - lo)
      u  == unmap_page_range([st EXCEPT !.vmas = sp.vmas], t, lo, hi)
  IN IF sp.vma = 0 THEN [s |-> [st EXCEPT !.vmas = sp.vmas], ret |-> -1]
     ELSE [s |-> [u EXCEPT !.vmas[sp.vma].live = FALSE], ret |-> 0]

\* The live VMA of t walk_vma_range() visits next: the lowest one ending above cur.
walk_next(st, t, cur, end) ==
  LET L == {i \in DOMAIN st.vmas : st.vmas[i].owner = t /\ st.vmas[i].live /\ st.vmas[i].end > cur}
  IN {i \in L : /\ \A j \in L : st.vmas[i].base <= st.vmas[j].base
               /\ st.vmas[i].base < end}

\* remove_vma_range(): do_remove_vma() on each VMA of t overlapping [cur, end).
RECURSIVE remove_vma_range(_, _, _, _)
remove_vma_range(st, t, cur, end) ==
  IF cur >= end \/ walk_next(st, t, cur, end) = {} \/ st.status # "run"
  THEN [s |-> st, ret |-> 0]
  ELSE LET i  == CHOOSE x \in walk_next(st, t, cur, end) : TRUE
           lo == IF cur > st.vmas[i].base THEN cur ELSE st.vmas[i].base
           hi == IF end < st.vmas[i].end THEN end ELSE st.vmas[i].end
           r  == do_remove_vma(st, t, lo, hi, i)
       IN IF r.ret < 0 THEN r ELSE remove_vma_range(r.s, t, hi, end)

(* copy_page_range() over the parent's present entries, VMA by VMA:     *)
(* page_insert() of the parent's frame into the child, read-only (as      *)
(* insert_pte(), run by the parent: page->rmap from the parent's VMA,     *)
(* add_swap_page(), one more pp_ref), then protect_region() of the        *)
(* parent's entry to the same flags, which keeps PAGE_ACCESSED.  Each     *)
(* parent entry is writable here, as task 1 forks once, so page_flags is  *)
(* PAGE_PRESENT | PAGE_NO_EXEC | PAGE_USER.                                *)
copy_page_range(st) ==
  LET P        == {va \in Pages : st.pte[Parent][va].kind = "present"}
      frame(va) == st.pte[Parent][va].addr
      vma(va)   == CHOOSE i \in task_find_vma(st.vmas, Parent, va) : TRUE
      new       == {va \in P : frame(va) \notin Range(st.swapq)}
  IN [st EXCEPT
        !.pte[Child]  = [va \in Pages |-> IF va \in P THEN Present(frame(va), FALSE) ELSE @[va]],
        !.pte[Parent] = [va \in Pages |-> IF va \in P THEN [@[va] EXCEPT !.w = FALSE] ELSE @[va]],
        !.ref  = [f \in Frames |-> @[f] + Cardinality({va \in P : frame(va) = f})],
        !.rmap = [f \in Frames |-> IF \E va \in P : frame(va) = f
                                   THEN st.vmas[vma(CHOOSE va \in P : frame(va) = f)].rm
                                   ELSE @[f]],
        !.swapq = [k \in 1 .. Cardinality(new) |->
                     frame(SetToSortSeq(new, LAMBDA x, y : x > y)[k])] \o @,
        !.ptbl[Child] = P # {}]

(* task_clone(): memcpy() each of the parent's VMAs, in the order of its *)
(* list, into a child VMA, so vma->task and vma->rmap are the parent's;   *)
(* list_add() the copy to that rmap and insert_vma() it into the child;   *)
(* then copy_page_range().                                                 *)
task_clone(st) ==
  LET L == SetToSortSeq({i \in DOMAIN st.vmas : st.vmas[i].owner = Parent /\ st.vmas[i].live},
                        LAMBDA i, j : st.vmas[i].base < st.vmas[j].base)
  IN copy_page_range([st EXCEPT
       !.vmas = @ \o [k \in DOMAIN L |-> [st.vmas[L[k]] EXCEPT !.owner = Child]]])

-----------------------------------------------------------------------------
(* Eviction (kernel/dev/swap.c).                                           *)

\* get_free_disk_addr(): the bump allocator of disk slots.
get_free_disk_addr == free_disk_addr

(* update_rmap_ptes_swap_out(): rmap_walk() with update_pte_swap_out(),   *)
(* which matches PAGE_ADDR(entry) = pa on every entry of the walked ranges *)
(* and asserts PAGE_PRESENT; a match is rewritten to the slot and costs   *)
(* one pp_ref.                                                             *)
update_rmap_ptes_swap_out(st, f, slot) ==
  LET M == {e \in rmap_walk(st.vmas, st.rmap[f]) : st.pte[e[1]][e[2]].addr = f}
  IN IF \E e \in M : st.pte[e[1]][e[2]].kind # "present" THEN [st EXCEPT !.status = "panic"]
     ELSE [st EXCEPT !.pte = [t \in Tasks |-> [va \in Pages |->
                                IF <<t, va>> \in M THEN Swapped(slot) ELSE @[t][va]]],
                     !.ref[f] = @ - Cardinality(M)]

\* Mutant of swap_page_out(): page_decref() where page_free() belongs.
swap_page_out_decref(st, f, slot) ==
  LET u == update_rmap_ptes_swap_out(st, f, slot)
  IN IF u.status # "run" THEN u ELSE page_decref(u, f, 1)

\* After the disk write: rewrite the PTEs, then page_free() the frame.
swap_page_out(st, f, slot) ==
  LET u == update_rmap_ptes_swap_out(st, f, slot)
  IN IF u.status # "run" THEN u ELSE page_free(u, f)

-----------------------------------------------------------------------------
(* Actions.  t is the task running, cur_task.                              *)

\* User code of task t reads or writes a present page: PAGE_ACCESSED.
Touch(t, va) ==
  /\ status = "run" /\ t \in Live
  /\ pte[t][va].kind = "present"
  /\ pte' = [pte EXCEPT ![t][va].acc = TRUE]
  /\ UNCHANGED <<vmas, ptbl, ref, free, rmap, swapq, free_disk_addr, swapd, forked, status>>

(* task_page_fault_handler() on a page that is not present, inside a VMA: *)
(* page_lookup() finds nothing, so populate_vma_range() populates it.  A  *)
(* swapped entry is overwritten, as swap-in is never called.  With no    *)
(* free frame, page_alloc() fails its assert(page).                        *)
Fault(t, va) ==
  /\ status = "run" /\ swapd = 0 /\ t \in Live
  /\ pte[t][va].kind # "present"
  /\ task_find_vma(vmas, t, va) # {}
  /\ IF free = {}
     THEN status' = "oom" /\ UNCHANGED <<vmas, pte, ptbl, ref, free, rmap, swapq>>
     ELSE \E f \in free : Commit(populate_pte(St, t, va, f))
  /\ UNCHANGED <<free_disk_addr, swapd, forked>>

(* task_page_fault_handler() on a write to a present, read-only page of a *)
(* writable VMA: add_swap_page() and mru_swap_page() of the page, then     *)
(* copy_on_write().                                                         *)
CowFault(t, va) ==
  /\ status = "run" /\ swapd = 0 /\ t \in Live
  /\ pte[t][va].kind = "present" /\ ~pte[t][va].w
  /\ task_find_vma(vmas, t, va) # {}
  /\ \E s \in copy_on_write([St EXCEPT !.swapq = mru_swap_page(@, pte[t][va].addr)], t, va) :
       Commit(s)
  /\ UNCHANGED <<free_disk_addr, swapd, forked>>

(* sys_fork() by task 1: task_clone(), then the child joins the run      *)
(* queue.  Each child VMA is one more kmalloc()ed VMA struct.              *)
sys_fork ==
  /\ status = "run" /\ swapd = 0 /\ ~forked
  /\ Len(vmas) + Cardinality({i \in DOMAIN vmas : vmas[i].owner = Parent /\ vmas[i].live})
       <= MaxVmas
  /\ Commit(task_clone(St))
  /\ forked' = TRUE
  /\ UNCHANGED <<free_disk_addr, swapd>>

(* swap_thread(): below MEMORY_THRESHOLD free frames it starts a batch of *)
(* SWAP_BLOCK swap_out() calls, holding the kernel lock.                  *)
swap_thread ==
  /\ status = "run" /\ swapd = 0
  /\ Cardinality(free) < MEMORY_THRESHOLD
  /\ swapd' = SWAP_BLOCK
  /\ UNCHANGED <<vmas, pte, ptbl, ref, free, rmap, swapq, free_disk_addr, forked, status>>

(* swap_out(): the disk may be busy, and get_page() finds nothing on an   *)
(* empty list; either returns -1 and yield_swap() ends the batch.         *)
(* Otherwise the clock picks a victim, a slot is taken, and the write    *)
(* either fails (-1, the victim stays off the list) or the PTEs are       *)
(* rewritten and the frame freed.                                          *)
swap_out ==
  /\ status = "run" /\ swapd > 0
  /\ \/ /\ swapd' = 0
        /\ UNCHANGED <<vmas, pte, ptbl, ref, free, rmap, swapq, free_disk_addr, forked, status>>
     \/ /\ swapq # <<>> /\ free_disk_addr < MaxSlots
        /\ \E g \in {get_page(vmas, swapq, pte)}, fail \in WriteFails :
             /\ free_disk_addr' = get_free_disk_addr + 1
             /\ IF fail
                THEN /\ swapq' = g.q /\ pte' = g.pte /\ swapd' = 0
                     /\ UNCHANGED <<vmas, ptbl, ref, free, rmap, forked, status>>
                ELSE /\ Commit(swap_page_out([St EXCEPT !.swapq = g.q, !.pte = g.pte],
                                              g.page, get_free_disk_addr))
                     /\ swapd' = swapd - 1 /\ UNCHANGED forked

(* sys_munmap() by task t: remove_vma_range() over [addr, addr + len).  *)
sys_munmap(t, addr, len) ==
  /\ status = "run" /\ swapd = 0 /\ t \in Live
  /\ Len(vmas) + 2 <= MaxVmas
  /\ Commit(remove_vma_range(St, t, addr, addr + len).s)
  /\ UNCHANGED <<free_disk_addr, swapd, forked>>

-----------------------------------------------------------------------------
Init ==
  /\ vmas = [i \in DOMAIN InitVmas |->
               [base |-> InitVmas[i].base, end |-> InitVmas[i].end, live |-> TRUE,
                owner |-> Parent, task |-> Parent, rm |-> i]]
  /\ pte = [t \in Tasks |-> [va \in Pages |-> None]]
  /\ ptbl = [t \in Tasks |-> FALSE]
  /\ ref = [f \in Frames |-> 0]
  /\ free = UserFrames
  /\ rmap = [f \in Frames |-> NoRmap]
  /\ swapq = <<>>
  /\ free_disk_addr = 0
  /\ swapd = 0
  /\ forked = FALSE
  /\ status = "run"

\* The program's accesses, the swap thread and the disk.
SwapNext ==
  \/ \E t \in Tasks, va \in Pages : Fault(t, va) \/ Touch(t, va)
  \/ swap_thread
  \/ swap_out

\* munmap() of ranges of MunmapLens pages.
Munmap == \E t \in Tasks, a \in Pages, n \in MunmapLens : a + n <= NPAGES /\ sys_munmap(t, a, n)

\* With munmap().
MunmapNext == SwapNext \/ Munmap

\* Fork and copy-on-write: both tasks fault, write and unmap; no swapping,
\* so PAGE_ACCESSED, which only the clock reads, is left alone.
ForkNext ==
  \/ \E t \in Tasks, va \in Pages : Fault(t, va) \/ CowFault(t, va)
  \/ sys_fork
  \/ Munmap

\* Fork with the swap thread running.
ForkSwapNext == SwapNext \/ sys_fork

Spec == Init /\ [][SwapNext]_vars

MunmapSpec == Init /\ [][MunmapNext]_vars

ForkSpec == Init /\ [][ForkNext]_vars

ForkSwapSpec == Init /\ [][ForkSwapNext]_vars

-----------------------------------------------------------------------------
(* Properties.                                                             *)

Entries == [kind : {"none", "present", "swapped"}, addr : Nat, acc : BOOLEAN, w : BOOLEAN]

\* Every variable has its type, and no frame is on the swap list twice.
TypeOK ==
  /\ vmas \in Seq([base : Pages, end : 0 .. NPAGES, live : BOOLEAN,
                   owner : Tasks, task : Tasks, rm : 1 .. MaxVmas])
  /\ pte \in [Tasks -> [Pages -> Entries]] /\ ptbl \in [Tasks -> BOOLEAN]
  /\ ref \in [Frames -> Nat] /\ free \subseteq UserFrames
  /\ rmap \in [Frames -> 0 .. MaxVmas]
  /\ Range(swapq) \subseteq UserFrames /\ IsInjective(swapq)
  /\ free_disk_addr \in 0 .. MaxSlots /\ swapd \in 0 .. SWAP_BLOCK
  /\ forked \in BOOLEAN /\ status \in {"run", "oom", "panic"}

\* The present entries, of either task, that map frame f.
Mappings(f) == {<<t, va>> \in Tasks \X Pages : pte[t][va].kind = "present" /\ pte[t][va].addr = f}

(* The count of every frame, pp_ref, equals the number of present page-  *)
(* table entries, of both tasks, that name it: populate_pte() and fork's *)
(* page_insert() count one, copy_on_write() moves one, swap_out()         *)
(* uncounts each entry the rmap walk rewrites, munmap uncounts each one   *)
(* remove_pte() clears.                                                    *)
RefMatchesPtes == \A f \in Frames : ref[f] = Cardinality(Mappings(f))

(* Copy-on-write isolates the tasks: an entry through which a task may   *)
(* write maps a frame no other entry maps, so a write by one task never  *)
(* shows in the other.  Fork write-protects both sides of each shared     *)
(* frame, and copy_on_write() makes an entry writable in place only when  *)
(* pp_ref says it is the last mapping.                                     *)
WritableExclusive ==
  \A t \in Tasks, va \in Pages :
    pte[t][va].kind = "present" /\ pte[t][va].w => Mappings(pte[t][va].addr) = {<<t, va>>}

(* A frame the allocator hands out is free exactly when nothing counts   *)
(* it (spec 4.1: ref = 0 iff the frame is on a free list).                 *)
FreeIffUnreferenced ==
  \A f \in UserFrames : f \in free <=> ref[f] = 0

(* A user frame, one with an rmap, is on the swap list exactly when it is *)
(* referenced (spec 4.1): the clock neither loses a frame in use nor keeps *)
(* a freed one.                                                             *)
SwapListIffReferenced ==
  \A f \in UserFrames :
    rmap[f] # NoRmap => (f \in Range(swapq) <=> ref[f] > 0)

(* None of the asserts of the swap path fails: update_pte_swap_out()'s    *)
(* PAGE_PRESENT on an entry naming the victim, and page_free()'s pp_ref   *)
(* = 0 after the rmap walk has uncounted every mapping.                    *)
NoPanic == status # "panic"

(* The frame the clock evicts: the one nearest the tail with no accessed *)
(* mapping, or, when every frame on the list was accessed, the tail       *)
(* itself after one full round of second chances.                          *)
Unaccessed == {i \in DOMAIN swapq : check_access_flag(vmas, pte, swapq[i]) = {}}
Victim == IF Unaccessed = {} THEN Last(swapq) ELSE swapq[Max(Unaccessed)]

(* Second chance: a frame swap_out() frees while the swap thread runs is *)
(* the victim the clock policy of spec 4.6 names in the state before.     *)
SecondChance ==
  [][swapd > 0 => \A f \in free' \ free : f = Victim]_vars

====
