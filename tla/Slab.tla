-------------------------------- MODULE Slab --------------------------------
(***************************************************************************)
(* The slab allocator of kernel/mem/slab.c: slab caches of fixed-size     *)
(* objects, each slab one page from the page allocator, laid out as       *)
(*   [ OBJ | DATA | OBJ | DATA | ... | INFO ]                              *)
(* with the struct slab_info footer at info_off.  A cache keeps a list of *)
(* partial slabs (some object free) and a list of full slabs; a slab's    *)
(* free objects are a list in its footer, with a counter beside it.       *)
(*                                                                         *)
(* The caches take their pages from the page allocator, whose contract is *)
(* PageAlloc: the pages of the slabs on the lists are the pages in use,   *)
(* and Slab is checked against that specification (PageUse).              *)
(*                                                                         *)
(* A slab is named by its page; an object by <<page, index>>.  Only the   *)
(* footer's address is computed, as slab_free_chunk() turns it back into  *)
(* the page to free.  Every call runs under the big kernel lock, so each  *)
(* is one step.                                                            *)
(***************************************************************************)
EXTENDS Integers, FiniteSets, Sequences, SequencesExt

CONSTANTS
  NPAGES,          \* physical pages 0 .. NPAGES - 1
  Reserved,        \* pages the allocator never hands out
  PAGE_SIZE,       \* bytes per page
  SLAB_OBJ_SIZE,   \* sizeof(struct slab_obj): list node and info pointer
  SLAB_INFO_SIZE,  \* sizeof(struct slab_info): slab, node, free_list, free_count
  ObjSizes,        \* the object size each cache was slab_setup() with
  MaxHeld          \* bound on the objects callers hold at once

Pages == 0 .. NPAGES - 1
Caches == DOMAIN ObjSizes

VARIABLES
  pages,       \* the pages free in the page allocator
  partial,     \* cache -> its partial slabs, list head first
  full,        \* cache -> its full slabs, list head first
  slabof,      \* page -> info->slab of the slab on that page
  freelist,    \* page -> the indices on info->free_list, head first
  free_count,  \* page -> info->free_count
  held,        \* the objects slab_alloc() returned and slab_free() has not taken
  status       \* "run", "oom" (page_alloc() asserted) or "panic"

vars == <<pages, partial, full, slabof, freelist, free_count, held, status>>

-----------------------------------------------------------------------------
(* slab_setup(): the header is added to the object size and the sum is    *)
(* rounded up to 32 bytes; as many objects fit as leave room for the      *)
(* footer, which follows them.                                             *)
obj_size(s) == LET n == ObjSizes[s] + SLAB_OBJ_SIZE IN ((n + 31) \div 32) * 32
count(s)    == (PAGE_SIZE - SLAB_INFO_SIZE) \div obj_size(s)
info_off(s) == obj_size(s) * count(s)

ASSUME \A s \in Caches : count(s) > 0

\* The address of the footer of the slab on page p.
InfoAddr(p) == p * PAGE_SIZE + info_off(slabof[p])

\* The slabs of cache s: those on either of its lists.
Slabs(s) == Range(partial[s]) \cup Range(full[s])
Chunks == UNION {Slabs(s) : s \in Caches}

St == [pages |-> pages, partial |-> partial, full |-> full, slabof |-> slabof,
       freelist |-> freelist, free_count |-> free_count, status |-> status]

Commit(st) ==
  /\ pages' = st.pages /\ partial' = st.partial /\ full' = st.full
  /\ slabof' = st.slabof /\ freelist' = st.freelist
  /\ free_count' = st.free_count /\ status' = st.status

\* list_del() of a slab from a list.
Del(q, p) == SelectSeq(q, LAMBDA x : x # p)

-----------------------------------------------------------------------------
\* Mutant of slab_alloc_chunk(): the object loop is off by one.
slab_alloc_chunk_off_by_one(st, s) ==
  IF st.pages = {} THEN {[st EXCEPT !.status = "oom"]}
  ELSE {[st EXCEPT !.pages = @ \ {p}, !.slabof[p] = s, !.partial[s] = <<p>> \o @,
                   !.freelist[p] = [k \in 1 .. count(s) |-> count(s) - k - 1],
                   !.free_count[p] = count(s)] : p \in st.pages}

(* slab_alloc_chunk(): page_alloc(ALLOC_ZERO) (whose assert stops the      *)
(* kernel when no page is free), the footer at info_off, list_add() to    *)
(* the partial list, and each object list_add()ed to the free list in     *)
(* index order, so the last one heads it.  One outcome per page the       *)
(* allocator may return.                                                   *)
slab_alloc_chunk(st, s) ==
  IF st.pages = {} THEN {[st EXCEPT !.status = "oom"]}
  ELSE {[st EXCEPT !.pages = @ \ {p},
                   !.slabof[p] = s,
                   !.partial[s] = <<p>> \o @,
                   !.freelist[p] = [k \in 1 .. count(s) |-> count(s) - k],
                   !.free_count[p] = count(s)] : p \in st.pages}

\* Mutant of slab_free_chunk(): the slab is freed without leaving the partial list.
slab_free_chunk_listed(st, s, ia) ==
  LET va == ia - info_off(s)
  IN IF va < 0 \/ va >= NPAGES * PAGE_SIZE THEN [st EXCEPT !.status = "panic"]
     ELSE [st EXCEPT !.pages = @ \cup {va \div PAGE_SIZE}]

(* slab_free_chunk(): list_del() of the footer from the partial list; the *)
(* page is the footer's address less info_off, and page_lookup() in the   *)
(* kernel's direct map finds it (or panics), then page_free().            *)
slab_free_chunk(st, s, ia) ==
  LET va == ia - info_off(s)
      p  == va \div PAGE_SIZE
  IN IF va < 0 \/ va >= NPAGES * PAGE_SIZE THEN [st EXCEPT !.status = "panic"]
     ELSE [st EXCEPT !.partial[s] = Del(@, p), !.pages = @ \cup {p}]

(* slab_alloc(): with no partial slab, slab_alloc_chunk(); then the first *)
(* object of the first partial slab is list_del()ed and counted; a slab   *)
(* whose free list is now empty moves to the head of the full list.       *)
(* The set of outcomes: [st, obj].                                         *)
slab_alloc(st, s) ==
  LET take(t) ==
        LET p == Head(t.partial[s])
            i == Head(t.freelist[p])
            u == [t EXCEPT !.freelist[p] = Tail(@), !.free_count[p] = @ - 1]
        IN [st |-> IF u.freelist[p] = <<>>
                   THEN [u EXCEPT !.partial[s] = Del(@, p), !.full[s] = <<p>> \o @]
                   ELSE u,
            obj |-> <<p, i>>]
  IN IF st.partial[s] # <<>> THEN {take(st)}
     ELSE {IF t.status # "run" THEN [st |-> t, obj |-> <<>>] ELSE take(t)
             : t \in slab_alloc_chunk(st, s)}

\* Mutants of slab_free(): the counter is not incremented; the slab is
\* given back one object early; a full slab is not moved back to the
\* partial list.
slab_free_no_count(st, o) ==
  LET p == o[1]
      s == st.slabof[p]
      m == IF st.freelist[p] = <<>>
           THEN [st EXCEPT !.full[s] = Del(@, p), !.partial[s] = <<p>> \o @]
           ELSE st
      u == [m EXCEPT !.freelist[p] = <<o[2]>> \o @]
  IN IF u.free_count[p] >= count(s) THEN slab_free_chunk(u, s, InfoAddr(p)) ELSE u

slab_free_early(st, o) ==
  LET p == o[1]
      s == st.slabof[p]
      m == IF st.freelist[p] = <<>>
           THEN [st EXCEPT !.full[s] = Del(@, p), !.partial[s] = <<p>> \o @]
           ELSE st
      u == [m EXCEPT !.freelist[p] = <<o[2]>> \o @, !.free_count[p] = @ + 1]
  IN IF u.free_count[p] >= count(s) - 1 THEN slab_free_chunk(u, s, InfoAddr(p)) ELSE u

slab_free_stays_full(st, o) ==
  LET p == o[1]
      s == st.slabof[p]
      u == [st EXCEPT !.freelist[p] = <<o[2]>> \o @, !.free_count[p] = @ + 1]
  IN IF u.free_count[p] >= count(s) THEN slab_free_chunk(u, s, InfoAddr(p)) ELSE u

(* slab_free(): obj->info and info->slab locate the slab and its cache.   *)
(* A slab whose free list was empty leaves the full list for the head of  *)
(* the partial list; the object is list_add()ed to the free list and      *)
(* counted; a slab with every object free is given back by                *)
(* slab_free_chunk().                                                      *)
slab_free(st, o) ==
  LET p == o[1]
      s == st.slabof[p]
      m == IF st.freelist[p] = <<>>
           THEN [st EXCEPT !.full[s] = Del(@, p), !.partial[s] = <<p>> \o @]
           ELSE st
      u == [m EXCEPT !.freelist[p] = <<o[2]>> \o @, !.free_count[p] = @ + 1]
  IN IF u.free_count[p] >= count(s) THEN slab_free_chunk(u, s, InfoAddr(p)) ELSE u

-----------------------------------------------------------------------------
(* Actions: a kernel path allocates from cache s, or frees an object it    *)
(* holds.                                                                  *)

Alloc(s) ==
  /\ status = "run" /\ Cardinality(held) < MaxHeld
  /\ \E r \in slab_alloc(St, s) :
       /\ Commit(r.st)
       /\ held' = IF r.obj = <<>> THEN held ELSE held \cup {r.obj}

Free(o) ==
  /\ status = "run" /\ o \in held
  /\ Commit(slab_free(St, o))
  /\ held' = held \ {o}

Init ==
  /\ pages = Pages \ Reserved
  /\ partial = [s \in Caches |-> <<>>]
  /\ full = [s \in Caches |-> <<>>]
  /\ slabof = [p \in Pages |-> CHOOSE s \in Caches : TRUE]
  /\ freelist = [p \in Pages |-> <<>>]
  /\ free_count = [p \in Pages |-> 0]
  /\ held = {}
  /\ status = "run"

Next == \/ \E s \in Caches : Alloc(s)
        \/ \E o \in held : Free(o)

Spec == Init /\ [][Next]_vars

-----------------------------------------------------------------------------
(* Properties.                                                             *)

Objects(s) == Pages \X (0 .. count(s) - 1)

\* Every variable has its type.
TypeOK ==
  /\ pages \subseteq Pages \ Reserved
  /\ partial \in [Caches -> Seq(Pages)] /\ full \in [Caches -> Seq(Pages)]
  /\ slabof \in [Pages -> Caches]
  /\ freelist \in [Pages -> Seq(Nat)] /\ free_count \in [Pages -> Int]
  /\ held \subseteq Pages \X Nat
  /\ status \in {"run", "oom", "panic"}

(* Each object of a live slab is either held by a caller or on its slab's *)
(* free list, once, and never both; free_count counts the list.  A caller *)
(* that got an object from slab_alloc() keeps it to itself until          *)
(* slab_free(), across slabs created, filled, emptied and given back.     *)
ObjectsAccounted ==
  \A p \in Chunks :
    /\ IsInjective(freelist[p])
    /\ free_count[p] = Len(freelist[p])
    /\ Range(freelist[p]) \cup {o[2] : o \in {x \in held : x[1] = p}} = 0 .. count(slabof[p]) - 1
    /\ \A o \in held : o[1] = p => o[2] \notin Range(freelist[p])

(* No caller holds an object in a page that went back to the page         *)
(* allocator: slab_free_chunk() runs only once every object of the slab   *)
(* is free.                                                                *)
NoHeldObjectInFreePage ==
  \A o \in held : o[1] \in Chunks \ pages

(* Each slab is on exactly one list of its own cache, once: on the full   *)
(* list exactly when no object of it is free.  So slab_alloc(), which      *)
(* looks only at the head of the partial list, finds a free object        *)
(* whenever one exists, and takes a new page only when none does.         *)
SlabOnRightList ==
  \A s \in Caches :
    /\ IsInjective(partial[s] \o full[s])
    /\ \A p \in Slabs(s) :
         /\ slabof[p] = s
         /\ \A t \in Caches \ {s} : p \notin Slabs(t)
         /\ (p \in Range(full[s]) <=> freelist[p] = <<>>)

(* The slabs' use of pages keeps the page allocator's contract: a page    *)
(* joins a slab list only when page_alloc() takes it from the free pages, *)
(* and page_free() returns exactly a page that has left the lists.        *)
PA == INSTANCE PageAlloc WITH Pages <- Pages, Reserved <- Reserved,
        freeset <- pages, inuse <- Chunks,
        stopped <- IF status = "oom" THEN "oom" ELSE "none"

PageUse == PA!Spec

====
