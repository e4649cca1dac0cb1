# TLA+ models of the Advanced-Operating-System kernel

These modules model the x86-64 teaching kernel under `src/`: its scheduler, the
process lifecycle (fork, kill, wait, waitpid, zombies), its buddy page
allocator, and the virtual memory areas of a task with their page table
(mmap, munmap, mprotect, madvise, mquery, page faults), and the swap engine
with its reverse map, clock and swap thread, the slab allocator, and the four-level page-table walker that every page-table operation is built on. TLC checks them. Each module is written from the C source. The
`map` of `PROJECT.json` names the lines each definition translates.

## The system and how its parts interact

| Part | Source | Role |
|------|--------|------|
| Scheduler | `kernel/sched/sched.c`, `sched_util.c`, `task_util.c` | Per-CPU `local_runq`/`local_nextq`, a global `runq`, `sched_yield` with load balancing (`BKL_migrate_tasks`), counters `nuser_tasks`/`nkernel_tasks` |
| Tasks | `kernel/sched/task.c`, `kernel_thread.c` | PID map, `task_alloc`/`task_free`, `task_destroy` (zombie or free, wake the waiting parent), `task_run` |
| Process syscalls | `kernel/sched/fork.c`, `wait.c`, `syscall.c` | `sys_fork` (clone + queue), `sys_kill` (`pid2task` permission check), `sys_wait`/`sys_waitpid` (`reap_zombies`, `set_task_waiting`) |
| Interrupt entry | `kernel/sched/idt.c` | Takes the big kernel lock, dispatches the timer to `scheduler()` and syscalls to `syscall()`, then `task_run(cur_task)` |
| Buddy allocator | `kernel/mem/buddy.c`, `init.c` | Free lists per order, `buddy_split`/`buddy_merge`/`buddy_find`, `page_alloc`/`page_free`; at boot `mem_init` sizes the `page_info` array, `page_init` frees the low pages and `page_init_ext` the rest, growing the array with `buddy_map_chunk` |
| OOM / swap | `kernel/dev/oom.c`, `swap.c`, `swap_util.c`, `rmap.c`, `disk.c` | `swap_thread` measures free memory with `get_total_free_memory` and swaps pages out through the reverse map |
| VMAs, page tables | `kernel/vma/*`, `kernel/mem/*` | Address spaces of tasks; page-table walks take references on buddy pages |
| Page-table walker | `kernel/mem/walk.c`, `ptbl.c`, `insert.c`, `remove.c`, `lookup.c`, `map.c`, `populate.c` | `walk_page_range` runs four nested loops (PML4, PDPT, PD, PT) and calls a walker's callbacks on each entry; `page_insert`, `populate_region`, `unmap_page_range`, `page_lookup`, `boot_map_region` and `get_oom_score` are walkers |
| Slab allocator | `kernel/mem/slab.c` | Caches of fixed-size objects carved out of single pages taken with `page_alloc` and returned with `page_free` |

The kernel is built with `USE_BIG_KERNEL_LOCK`. Every kernel entry from user
mode takes the lock in `int_handler`, and `task_run` releases it when it drops
into user mode. A CPU that finds nothing to run releases it and retries
(`release_and_acquire_lock`). So each kernel entry runs atomically up to the
point where `task_run` releases the lock or `sched_yield` retries. The models
take each such stretch as one action.

## Modules

### `Sched.tla`: scheduler and process lifecycle (instantiated by `MC_Sched.tla`)

**State.** `slot` is the PID map (`tasks[]`). The per-task fields are `status`,
`ppid`, `task_wait`, `zombies` and `children`. The per-CPU state is `cur_task`,
`local_runq`, `local_nextq` and `runq_len`. The globals are `runq`,
`nuser_tasks`, `nkernel_tasks` and `kernel_lock` (the CPU holding the BKL).
`mode[c]` says whether CPU `c` runs a task in user mode, is inside
`sched_yield`, or has halted.

Two history variables record what the code does not keep:
- `blocked`: the tasks suspended in `waitpid`.
- `orphans`: live tasks whose parent was freed.

**Actions** (one per kernel entry):

| Action | What it runs |
|--------|--------------|
| `Timer` | timer interrupt: `scheduler` → `sched_yield` |
| `Schedule` | a CPU still inside `sched_yield` (boot, after a block or a kill, or a retry) |
| `sys_fork` | `task_clone` + `sys_fork` |
| `sys_exit` | `sys_kill(0)`: the task destroys itself |
| `sys_kill` | kill of a child |
| `sys_waitpid` | `sys_waitpid`, with `-1` for `sys_wait` |
| `Halted` | a CPU spinning when only kernel threads are left |

**`sched_yield` is one operator**, built in the code's order:
1. `move_cur_task_to_nextq`
2. `try_run_next_task`
3. the load-balancing share `task_foreach_cpu`
4. `BKL_migrate_tasks` / `migrate_tasks_runq`
5. `try_run_next_task` again, or a retry

**`task_run` and `task_destroy` are operators of their own**, because
`task_run` can call `task_destroy` twice (on the old and on the new task), and
`task_destroy` never returns to its caller.

**Queues.** `queue_add_task` uses `list_add_tail` and `queue_pop_task` uses
`list_pop_tail`, so every queue is a stack. The model keeps that.

**Boot.** `Init` is the state `kmain` leaves:
- PID 1 and the kernel thread `swap_thread` are on `runq`.
- `swap_thread` has the highest free PID; `oom_thread` is commented out in `main.c`.
- Every CPU is about to enter `sched_yield`.

### `Buddy.tla`: buddy page allocator (instantiated by `MC_Buddy.tla`)

**State.**
- `buddy_free_list` is one sequence per order; the first element is the node after the list head.
- `pp_free` and `pp_order` are the per-page fields.
- `allocated` holds the pages handed out.
- `panicked` records a failed `assert`.

**Helpers.** `buddy_split` and `buddy_merge` are RECURSIVE operators, as in
the C. They pass the allocator state along as a record. `buddy_find`,
`page_free` and `count_total_free_pages` are operators too.

**Actions.** `page_alloc` and `page_decref` (the last reference dropped, so
`page_free`).

**Boot.** `Init` is the state the boot leaves, computed as the constant
`BootState` by folding over the memory map, in `mem_init`'s order:
- `FreeRegions` is the memory map's free entries as `<<first page, end page>>`. `highest_addr` is the end of the *last* entry and `npages0` is `MIN(BOOT_MAP_LIM, highest_addr)`, as in `mem_init`.
- `Boot0` is `page_init`: `page_free` of each free page below `BOOT_MAP_LIM` that is not in `BootReserved` (page 0, boot_info, the kernel). The `page_info` of `0 .. npages0 - 1` is mapped (`infos`), and so is the direct map of `[0, BOOT_MAP_LIM)` (`direct`).
- `pml4_setup` takes `PML4_SETUP_PAGES` pages (`BootAlloc`, the body of `page_alloc` with its asserts).
- `ext_step` is one iteration of `page_init_ext`: pages below `BOOT_MAP_LIM` are skipped; a page at or past `npages` first gets `buddy_map_chunk` and the 512-page direct window of `boot_map_region`, then `page_free`.
- `buddy_map_chunk` rounds the index down to a chunk of `nblocks` pages (a top-order block), allocates `nalloc` pages for their structs and `page_insert`s them; each may need a last-level table (`TableFor`, i.e. `ptbl_alloc`, which allocates only when the entry is not present). The chunk's structs are zero and `npages` becomes `base + nblocks`.
- `Reserved` is what the boot left off the free lists; `MemoryPartition` and the `PageAlloc` refinement use it.

The boot helpers each refer to the level below once (a result is passed on as
an argument), which keeps TLC's coverage cost model linear.

`get_total_free_memory` (oom.c) is modelled as written, to compare it with the
real free count.

### `PageAlloc.tla`: the allocator's contract, refined by `Buddy`

`PageAlloc` states what `page_alloc` and `page_free` promise without lists, orders or buddies: a set `freeset` of free pages, the pages `inuse`, and `stopped`. `Alloc` moves one free page to `inuse`, `Free(p)` moves exactly `p` back, and `Exhausted` stops the kernel only when no page is free, which is what `page_alloc`'s `assert(page)` does. `Buddy` instantiates it with the refinement mapping `freeset <- FreePages` (the union of the blocks on the free lists), `inuse <- allocated`, `stopped <- panicked`, and `buddy_alloc_free` checks `AllocRefines == Abs!Spec` as a temporal property. Each step of `Buddy` must be a `PageAlloc` step or a stutter, so a split or merge that loses, duplicates or invents a free page, or an allocation of a page that was not free, breaks it.

### `Vma.tla`: VMAs, page table and page faults (instantiated by `MC_Vma.tla`)

**State.**
- `vmas`: the VMAs of one task as a set of records `[base, end, flags, name, src, len]`. `src`/`len` are `vm_src`/`vm_len`, the ELF bytes backing the VMA (`NoSrc` for anonymous). Bases are unique, so the red-black tree and the sorted list are the same set ordered by base.
- `pte`: the present page-table entries, page → `[prot, data]`. `prot` holds the rights beyond read (`PAGE_WRITE`, `PAGE_NO_EXEC` inverted). `data` says where the frame's bytes came from: an allocated frame holding `n` image bytes from `from`, or physical frame 0.
- `ptbl`: whether the page table holding the user pages exists (`ptbl_free` frees it when empty).
- `status`: `run`, `destroyed` (the fault handler killed the task) or `panic` (an assert or `panic` fired).
- `elf`: the pages of the loaded segments not yet unmapped; `last`: a history variable holding the last call and its result.

**Helpers** (operators over a record of the state, returning the state they leave, as the C leaves it after a failure too): `find_free_vma`, `insert_vma`, `create_vma`, `add_vma`, `merge_vma(s)`, `split_vma(s)`, `do_remove_vma`, `do_protect_vma`, `do_populate_vma`, `do_unmap_vma`, `populate_region`, `protect_region`, `unmap_page_range`, `ptbl_free`. `walk_vma_range` is modelled by its four users, `remove_vma_range`, `protect_vma_range`, `populate_vma_range` and `unmap_vma_range`: each is a RECURSIVE cursor walk that calls its callback on each VMA clipped to the range and stops at the first negative result; `walk_next`, `walk_lo`, `walk_hi` and `walk_stops` are the stepping they share. (One walker per callback, rather than one walker dispatching on a callback name, keeps TLC's per-action coverage statistics small.)

**Actions.** `sys_mmap` (anonymous, with or without `MAP_FIXED`), `sys_munmap`, `sys_mprotect`, `sys_madvise` (DONTNEED, WILLNEED) and `page_fault` (`page_fault_handler` + `task_page_fault_handler`: copy-on-write of a sole reference, populate, destroy on failure). `sys_mquery` changes no kernel state, so it is an operator that the invariant `MqueryDescribesAddress` evaluates at every address.

**Boot.** `Init` is `task_load_elf`: a VMA per segment (`add_executable_vma`, named by `elf_get_name`), then the stack page under `USTACK_TOP`.

**Not in `src/`**, so modelled from `vma.h` and the spec and marked `spec_modelled`: `find_vma`, `task_find_vma`, the stepping of `walk_vma_range` (`walk_next`, `walk_lo`, `walk_hi`, `walk_stops`) and the list neighbours. The model takes `USTACK_TOP = USER_LIM`.

**Abstractions.** Addresses are small integers with `PAGE_SIZE = 2`. Bytes are not modelled one by one: a frame records the image offset and count it was filled from, which is what `PageDataCorrect` compares with the ELF layout. The program's own writes are not modelled, so no page is dirty. Frame reference counts and the four-level walk are left out (one page table).

### `Swap.tla`: the swap engine, reverse map and frame counts (instantiated by `MC_Swap.tla`)

**State.**
- Task 1 is the program and task 2 the child its one `fork()` creates (`forked`).
- `vmas`: every VMA struct ever `kmalloc`ed, as a sequence `[base, end, live, owner, task, rm]`: `owner` is the task whose tree holds it, `task` is `vma->task` (the page table `rmap_walk` walks) and `rm` its rmap. `remove_vma` unlinks a VMA but neither frees it nor takes it off its rmap, so a removed one stays with `live = FALSE`. `create_vma` gives each VMA a fresh rmap, named by the index of that VMA; `task_clone` adds its memcpy'd copies to the parent's rmaps (`RmapVmas`).
- `pte`: task → page → entry `[kind, addr, acc, w]`; `ptbl`: task → whether its user page table exists. `kind` is none, present (`addr` is the frame, `acc` is `PAGE_ACCESSED`, `w` is `PAGE_WRITE`) or swapped (`PAGE_PRESENT` cleared, `addr` is the disk slot). Frames and slots are both plain numbers, so `PAGE_ADDR(entry) == pa` compares a slot with a frame as the C does.
- `ref`, `free`, `rmap`: `pp_ref`, the buddy free lists as a set, and `page->rmap` of each frame. `Reserved` frames are never freed (boot).
- `swapq`: `swap.pages`, head first; `list_pop_tail` takes the last element.
- `free_disk_addr`: the bump slot allocator. `swapd`: the `swap_out` calls left in the swap thread's current batch (0: the thread is not running). `status`: `run`, `oom` (`page_alloc`'s `assert(page)`) or `panic` (an assert of the swap path).

**Helpers.** `add_swap_page`, `remove_swap_page`, `mru_swap_page`; `rmap_walk` (the callback sees every entry of each VMA's range, present or not); `check_access_flag`, `check_clock` and the RECURSIVE `get_page`; `update_rmap_ptes_swap_out` and `swap_page_out` (rewrite, then `page_free`); `page_free`, `page_decref`, `ptbl_free`; `unmap_page_range` with `remove_pte`'s `*` for `&` (every nonzero entry is decref'ed); `populate_pte`; `insert_pte` of `page_insert` (decref the replaced page, rmap from `task_find_vma(cur_task)`, enlist, count); `copy_on_write` (in place at `pp_ref == 1`, else a copy); `copy_page_range` and `task_clone`; `split_vma(s)`, `do_remove_vma` and the RECURSIVE `remove_vma_range`.

**Actions** (`t` is the running task). `Fault(t, va)`: `task_page_fault_handler` on a page that is not present (populate; with no free frame, `oom`). `CowFault(t, va)`: the handler on a write to a present read-only page (`mru_swap_page`, then `copy_on_write`). `sys_fork`: task 1's `task_clone`. `Touch(t, va)`: user code on another CPU sets `PAGE_ACCESSED`. `swap_thread`: below `MEMORY_THRESHOLD` free frames, a batch of `SWAP_BLOCK` begins. `swap_out`: a busy disk or an empty list ends the batch (`yield_swap`); otherwise the clock picks a victim, a slot is taken, and the write fails (the batch ends with the victim off the list) or the PTEs are rewritten and the frame freed. `sys_munmap(t, ...)`. `SwapNext` has faults, accesses and the swap thread; `MunmapNext` adds munmap; `ForkNext` has fork, both faults and munmap without the swap thread; `ForkSwapNext` adds fork to `SwapNext`.

With one fork, every present entry of the parent is writable when it forks, so `copy_page_range`'s `page_flags` always takes its first branch; its uninitialised path (fork.c:66-70, a read-only page that allows execution) needs a second fork and is not reached.

The swap thread holds the big kernel lock through a batch, so faults and munmap wait for `swapd = 0`; `Touch` runs on other CPUs at any time. The swap lock and rmap locks are taken inside the kernel lock and add no interleaving.

**Not in `src/`**: `task_find_vma` and the stepping of `walk_vma_range` (`walk_next`), modelled from the spec. `list_del` is taken to re-initialise the node, as `add_swap_page`'s `list_is_empty` test assumes.

### `Slab.tla`: the slab allocator over the page allocator (instantiated by `MC_Slab.tla`)

`slab.c` keeps, per cache, a list `partial` of slabs with a free object and a list `full` of slabs without one. A slab is one page; its `slab_info` header sits at `info_off`, after `count` objects of `obj_size` bytes, and holds the slab's free list and `free_count`.

- **State.** `pages` (the free pages of the page allocator), `partial[s]` and `full[s]` as sequences of pages (list heads first, since `list_add` inserts at the head), `slabof[p]` (`info->slab`), `freelist[p]` (object indices, head first), `free_count[p]`, `held` (objects the callers hold, as page-index pairs) and `status` (`run`, or `oom` after `page_alloc`'s assert).
- **Operators.** `obj_size`, `count` and `info_off` are `slab_setup`'s arithmetic. `slab_alloc_chunk`, `slab_free_chunk`, `slab_alloc` and `slab_free` take the allocator's state as a record and return the new one, so `slab_free` calls `slab_free_chunk` with the header address it computes, and `slab_free_chunk` recovers the page from it by subtracting `info_off`, as the C does.
- **Actions.** `Alloc(s)` is a call of `slab_alloc` on cache `s` by some kernel caller, `Free(o)` a call of `slab_free` on a held object. The callers (`kmalloc`, `kfree`) are not in the repository.
- **Composition.** `PageAlloc` is instantiated with `freeset <- pages` and `inuse <- ` the slab pages, and `PageUse == PA!Spec` is checked: the slab layer takes a page only when `page_alloc` can give one, gives back exactly the page it took, and stops only when no page is free.

`PAGE_SIZE` is scaled to 256 bytes and the header sizes are constants (the struct definitions are not in the repository), so the two caches of `MC_Slab` hold three and two objects a slab.

### `Walk.tla`: the page-table walker and its walkers (instantiated by `MC_Walk.tla`)

`walk.c` walks a range with four loops of the same shape, one per level:
`next = base; for (addr = sign_extend(base); next < end; addr = next)`, with
`next = sign_extend(<level>_end(addr) + 1)` clamped to `end` on overflow. Each
iteration calls the level's entry callback, then descends into a present entry
(or calls `pte_unmap` for a present PTE) and calls the level's unmap callback on
the way out.

- **Geometry.** The address space is scaled: `PAGE_SIZE` bytes a page,
  `NENTRIES` entries a table, `WORD` the size of a machine word (addresses wrap
  modulo `WORD`). `sign_extend` ORs in the bits above the four levels for
  addresses at or above `USER_LIM`, as the C does with bit 47. `MC_Walk` uses 8-byte
  pages, 2 entries a table and 8-bit addresses: 16 pages, 8 of them user pages,
  and a kernel half at 192.. that `sign_extend` reaches across the hole.
  `PAGE_SIZE > 4` is assumed so that the three nested `next - 1` cuts stay inside
  one page.
- **State.** `pt[l]` is the set of present entries of level `l` (1 = PTEs,
  4 = PML4 entries), named by their position in a complete tree, so entry `e`
  of level `l` is the parent of entries `e*NENTRIES + i` of level `l-1`.
  `nfree` counts free frames, `status` is `oom` after `page_alloc`'s assert,
  and `op` records the last operation for the action property.
- **Walkers.** A walk threads an accumulator (tables, free frames, return value
  and the PTE callbacks made) through the loops. `PteCallback` dispatches to
  `insert_pte`, `boot_map_pte`, `populate_pte`, `remove_pte` or the read-only
  callbacks of `page_lookup`/`get_oom_score`; `EntryCallback` is `ptbl_alloc`
  for the three mapping walkers; `UnmapCallback` is `ptbl_free` for
  `unmap_page_range`. No walker in the kernel sets `pt_hole_callback`, and no
  code sets `PAGE_HUGE`, so those branches are left out.
- **Actions.** `PageInsert(va)` (copy-on-write and fork allocate a page, then
  map it), `PopulateRegion(va, size)` (only over unmapped pages, as
  `populate_pte` asserts), `UnmapPageRange(va, size)` (munmap, `page_remove`)
  and `UnmapUserPages` (`task_free`). Init is `boot_map_region` of the kernel
  half, which the task's PML4 shares.

`get_oom_score` walks the whole address space with `walk_all_pages`, so it counts
the PTEs of the kernel half, which every task's PML4 shares, as well as the
task's own (oom.c:63); the spec speaks of the PTEs a task owns. The offset is
the same for every task, so the victim ranking is unchanged.

## Runs

| Run | Expect | What it shows |
|-----|--------|---------------|
| `sched_fork_exit` | pass | 2 CPUs, PIDs 1–3 and `swap_thread`, fork/exit. Each live task is in exactly one place (`TaskPlacedOnce`). `nuser_tasks` and `runq_len` match the queues. Every queued task eventually runs (`QueuedTaskRuns`). |
| `sched_lifecycle` | pass | 1 CPU, PIDs 1–2 and `swap_thread`, fork/kill/wait. Also: a killed task that is not blocked is eventually destroyed. |
| `sched_kill_running` | violation | Killing a child that runs on the other CPU loses the task `task_run` was switching to (task.c:511). |
| `buddy_alloc_free` | pass | 20 pages, orders 0–2, a memory map of `[0, 12)` and `[14, 20)`, `BOOT_MAP_LIM` 12. Every free or allocated page has its direct mapping and the `page_info` of its whole top-order block, which `buddy_merge` and `buddy_split` read without a bound check (`PageInfoBacked`). The free lists stay aligned, disjoint, fully merged, and partition memory with the allocated and reserved pages. The allocator refines `PageAlloc` (`AllocRefines`). |
| `vma_map_unmap` | pass | The loaded .text/.data/stack program maps, unmaps and remaps at every page, with and without `MAP_FIXED`, and faults pages in. VMAs stay aligned and disjoint (`VmasDisjoint`) and fully merged (`VmasMerged`); every present page lies in a readable VMA that allows its rights (`MappingsWithinVmas`); nothing panics; mquery describes every address correctly. |
| `vma_protect` | pass | mprotect (read, read-write, read-exec) and faults. mprotect from a page-aligned address never loses a mapped address (`MprotectKeepsMappings`). |
| `vma_madvise` | pass | MADV_DONTNEED and refaults on three segments with partial last pages: every refaulted page holds its image bytes (`PageDataCorrect`). |
| `swap_clock` | pass | Four pages in two VMAs, three user frames, faults, accesses and swap batches. `pp_ref` equals the present entries naming each frame (`RefMatchesPtes`); a user frame is free iff unreferenced and on the swap list iff referenced; no assert fails; and every frame evicted is the one the second-chance clock names (`SecondChance`, an action property). |
| `walk_page_ops` | pass | 16 pages, 8 in user space, 13 frames, all four operations on every user page. In every reachable table, every walk (six ranges and `walk_all_pages`) calls the PTE callback exactly on the canonical pages of its range whose tables are present, in increasing order, and `page_lookup` and `get_oom_score` agree with the tables (`WalkMatchesReference`). Tables form a tree with no empty table, and the frames add up (`PageTablesWellFormed`). An operation changes only the pages of its range (`PageOpsChangeOnlyRange`, an action property). |
| `swap_fork_cow` | pass | The program faults pages in and forks; both tasks fault, write (copy on write) and unmap single pages, with three frames. `pp_ref` equals the present entries of both page tables, the swap list holds exactly the referenced frames, and an entry is writable only while it is its frame's sole mapping (`WritableExclusive`). |
| `swap_fork_panic` | violation | Fork, then the swap thread evicts a frame both tasks map: the child's VMA copy keeps `vma->task` = the parent (fork.c:117), so `rmap_walk` walks the parent twice and never the child, `pp_ref` stays 1 and `page_free` asserts. |
| `slab_alloc_free` | pass | Two caches, three pages for slabs, up to six objects held. Every object of a slab is on its free list or held, never both, and `free_count` is the list's length (`ObjectsAccounted`); no held object lies in a free page; each slab is on `full` iff its free list is empty, and on one cache's lists only (`SlabOnRightList`); the slab layer uses pages as `PageAlloc` allows (`PageUse`). |

The manifest's runs are the passing runs and the two violations above, the
most serious ones. Each further counterexample below is a cfg of its own that
checks one property, and TLC finds that property violated, like the runs.
Run it the same way (`tlc -config <name>.cfg MC_Sched`, `MC_Buddy`, `MC_Vma`, `MC_Swap` or `MC_Walk`).

### Further counterexamples

| Cfg | What it shows |
|-----|---------------|
| `swap_split_panic` | munmap splits a populated VMA; its right-hand pages keep the old rmap, so swap-out misses their entries and `page_free` asserts (split.c:27). |
| `walk_window` | The last user PTE callback of `walk_all_pages` gets an `end` inside the non-canonical hole: the PML4 step jumps to `sign_extend(USER_LIM)` and each level passes `next - 1` down (walk.c:252). The spec says each level cuts the window to its natural boundary; no callback reads `end` today. |
| `sched_stale_wait` | `task_wait` is never cleared, so a later exit re-queues a running parent and two CPUs run it (task.c:393). |
| `sched_wait_other_child` | A parent waiting for one child is woken by another (task.c:393). |
| `sched_wait_any` | `wait()` after a child died frees the zombie and blocks (wait.c:42). |
| `sched_pid_reuse` | A reused PID inherits another task's children as zombies (task.c:434). |
| `sched_kill_waiting` | A task killed while blocked in waitpid is never destroyed. |
| `sched_wait_dead_child` | kill(child) then waitpid(child) returns -ECHILD: the zombie left `task_children` (wait.c:80). |
| `buddy_oom` | Out of memory, `page_alloc` asserts instead of returning NULL (buddy.c:415). |
| `buddy_swap_trigger` | `get_total_free_memory` returns the last order's term only (oom.c:158). |
| `buddy_boot_unsorted` | A memory map whose last free entry is not its highest (`[12, 16)` then `[0, 11)`): `mem_init` takes `npages` = 11, not a multiple of a chunk, so free page 9 has buddies (page 11) past the `page_info` array (`PageInfoBacked`, init.c:103 and buddy.c:323). E820 maps are usually sorted, but nothing in `mem_init` checks it. |
| `vma_bss_garbage` | A .bss page is filled from the file: `vm_len - offset` wraps (populate.c:75). |
| `vma_mmap_no_room` | mmap fails while a large enough gap exists (insert.c:267). |
| `vma_fixed_overwrite` | `MAP_FIXED` removes the whole old VMA, not only the range (syscall.c:141). |
| `vma_protect_range` | mprotect changes the flags beyond `addr + len` (protect.c:25). |
| `vma_prot_none` | After `mprotect(PROT_NONE)` the pages stay present (mem/protect.c:36). |
| `vma_protect_unaligned` | mprotect from an unaligned address loses the tail of the VMA (split.c:25). |
| `vma_protect_panic` | An execute fault after mprotect reaches populate_pte's assert (mem/populate.c:28). |
| `vma_dontneed_hole` | DONTNEED stops at the first untouched page and releases nothing after it (vma/remove.c:87). |
| `vma_protect_frame0` | mprotect makes unpopulated entries present, mapping frame 0 (mem/protect.c:36). |
| `vma_willneed_panic` | WILLNEED over a range past the VMA's end panics with "no vma" (mem/populate.c:41). |
| `vma_split_loses_image` | munmap of the head of .text, then a fault in the rest: the page is zero (split.c:27 drops `vm_src`). |
| `swap_munmap_swapped` | munmap of a swapped-out page: `remove_pte` tests `*entry * PAGE_PRESENT`, so it decrefs the frame numbered like the slot (mem/remove.c:20). |
| `swap_write_fails` | A failed disk write leaves the victim mapped with `pp_ref > 0` but off the swap list for good (swap.c:295). |
| `swap_slot_collision` | Once slots reach the numbers of user frames, a swapped entry whose slot equals the victim frame matches in `update_pte_swap_out` and fails its `PAGE_PRESENT` assert (swap.c:234). |
| `vma_willneed_rights` | WILLNEED over two VMAs maps the second with the first one's rights (syscall.c:202). |

Every property of a passing run has a mutant in `PROJECT.json`: a plausible
bug in the mapped code that TLC finds under the run's cfg.

## Bounds

**Sched.**
- Three user PIDs are enough for a parent with two children, so a second child can exit after a wait.
- Two CPUs are enough for a task to be run on one while the other acts on it.
- The kernel thread makes the halt condition `nuser_tasks == nkernel_tasks` non-trivial.
- `task_wait` is never reset, so the waitpid runs could keep adding stale wake-ups to the queues. The constraint `EntriesBound` caps the queued entries at 5, enough for every task to be queued once plus a duplicate.

**The passing lifecycle run avoids two known bugs:**
- It uses one CPU, because on two a kill reaches `sched_kill_running`.
- It uses one child at a time, because waiting twice reaches `sched_stale_wait`.

These restrictions come from the code's own bugs. They are reported by the
violation runs, not hidden.

**Buddy.** 20 pages with a top order of 2 (blocks of 4, the chunk size).
`BOOT_MAP_LIM` is 12, `PAGE_SIZE` 64 and a `page_info` 16, so a chunk's structs
fill one page (`nalloc` = 1, as 512 structs fill 4 pages in the kernel), and a
table maps 8 pages. The hole at pages 12-13 makes the region above
`BOOT_MAP_LIM` start inside a chunk, so `ROUNDDOWN` matters. The boot maps two
chunks, allocates a direct-map table, and keeps pages 0-1 reserved; eleven
pages stay free, in blocks of every order (15, 10-11, 4-7 and 16-19), two of
them with buddies (14, 8-9) that the boot took for good and so never merge.
66435 states.

**Vma.** Pages of 2 bytes and a user space of 6 pages (8 for `vma_madvise`):
- The program has a two-page .text, a .data page and a stack page. So there are VMAs to split at a page inside, neighbours to merge with, and gaps of one and two pages.
- Lengths of 1 and 2 pages are enough for a call to cover part of a VMA, a whole VMA, or two VMAs.
- The `vma_madvise` layout has partial last pages (`filesz` ending inside a page) but no page entirely past the file data, since that is the `vma_bss_garbage` bug.
- `vma_protect` leaves out `PROT_NONE`, which reaches the `vma_prot_none` bug.

**Swap.** Four pages in two VMAs of two pages, three user frames, `MEMORY_THRESHOLD = 2`, `SWAP_BLOCK = 2`:
- Four pages and three frames force eviction, and two VMAs give two rmaps; a batch of two evicts twice, so a second eviction runs the clock over a list the first one changed.
- Slots stop below 5 in `swap_clock`, the first user frame number, which keeps `swap_slot_collision` out of the passing run; reserved frames 0–4 stand for the kernel's frames below the user ones.
- `MaxVmas = 4` leaves room for the two VMAs a split munmap allocates.
- `swap_clock` has no munmap, because with munmap the runs above are reached.
- `swap_fork_cow` has `MaxVmas = 6`: two VMAs, two child copies, and two more for a split munmap. It leaves out `Touch` (only the clock reads `PAGE_ACCESSED`) and the swap thread, which reaches `swap_fork_panic`. Three frames make a copy-on-write fault with no free frame (`oom`) reachable, as well as both other branches of `copy_on_write`.

**Walk.** Two entries a table give every level a sibling, so each loop runs more than once and every clamp and sign extension is exercised; 8-bit addresses make `walk_all_pages` cross the hole between user space (0..63) and the kernel half (192..255). `KERNEL_LIM` is taken as the last address, since its definition is not in the repository. With 13 frames the kernel half takes 3 for its tables, and the 10 left are fewer than the 8 user pages need with their tables, so `oom` is reached. The ranges checked include unaligned ones and one ending at `USER_LIM`.

**Slab.** Four pages with page 0 reserved leave three for slabs. The caches hold three and two objects a slab, and callers hold up to six objects: enough to fill a slab (it moves to `full`), to free from a full slab (back to `partial`), to free a slab's last object (its page goes back), for two caches to compete for pages, and to run out of pages (`oom`).

`VIEW StateView` drops the history variable `last` from the state's identity. No action reads `last`, and the action properties read only `last'` and the view's variables, so the view is sound.

## Fairness

`Timer(c)` and `Schedule(c)` are strongly fair. The timer interrupt preempts
every user task (the LAPIC timer is always armed). A CPU spinning for the
kernel lock gets it whenever the lock is free infinitely often. System calls
are the programs' choice and get no fairness. Buddy, Vma and Swap have no liveness
property and no fairness: every VMA operation is a system call or a fault the
program chooses to make, and the swap thread runs when the scheduler picks it,
which Swap does not model. The Swap, Slab and Walk runs set `CHECK_DEADLOCK FALSE` because
`oom` and `panic` are states the kernel never leaves.

## Not modelled (yet)

- **The fine-grained-lock build** (`FGL_migrate_tasks`, `lock_runq_add` under `runq_lock`). The kernel is built with the BKL.
- **`swap_in`**, which nothing calls: a fault on a swapped page populates a fresh zero page. **The TLB**, which `update_pte_swap_out` never invalidates.
- **`debug_print_slab`**, output only, and a cache whose objects do not fit a page (`count` = 0), which no caller in the repository creates.
- **`protect_region`, `mmio_map_region` and `boot_map_kernel` in Walk** (Vma models `protect_region` on its page map), and `walk_vma_range`, which is not in the repository.
- **The OOM victim choice (`oom_kill`), a second fork and MAP_POPULATE.** The components list of `PROJECT.json` says why for each, and the plan below.
- **Kernel VMAs and the kernel page table.** Vma models one user task. Buddy's boot counts the last-level tables `pml4_setup` and `page_init_ext` allocate, not the directories above them (one of them covers `NENTRIES`² pages), nor `boot_map_kernel` and the kernel stack mapping, whose pages it folds into `PML4_SETUP_PAGES`. `buddy_migrate` only relinks list nodes to their new addresses and is left out.
- **Page contents and `pp_zero`.** The zeroing thread is never started.
- **The kernel threads' own bodies.** `swap_thread` is a task that runs and yields.

## Plan for later work

1. **Fork in Vma.** `Vma`'s page table has no reference counts; a child there would let the ELF-image properties speak about shared pages.
2. **More refinements.** An abstract lifecycle specification (a task is alive, a zombie or gone) with `Sched` shown to refine it where the code is correct.
3. **The OOM victim choice** and the kernel-thread bodies.
