------------------------------ MODULE PageAlloc ------------------------------
(***************************************************************************)
(* What the page allocator promises its callers (kernel/mem/buddy.c,     *)
(* page_alloc() and page_free()), without free lists, orders or buddies:  *)
(* a set of free pages, the pages handed out, and whether the kernel has  *)
(* stopped.  page_alloc() hands out some free page and no other; page_free *)
(* of a page in use makes exactly that page free again; with no free page *)
(* left, page_alloc()'s assert(page) stops the kernel, and nothing happens *)
(* after that.  Buddy refines this specification.                         *)
(***************************************************************************)
EXTENDS FiniteSets

CONSTANTS
  Pages,     \* the physical pages
  Reserved   \* pages never handed to the allocator

VARIABLES
  freeset,   \* the pages the allocator may hand out
  inuse,     \* the pages handed out and not yet returned
  stopped    \* "none", or "oom" once page_alloc() found no page

avars == <<freeset, inuse, stopped>>

Init ==
  /\ freeset = Pages \ Reserved
  /\ inuse = {}
  /\ stopped = "none"

\* page_alloc(): one free page becomes in use.
Alloc ==
  /\ stopped = "none"
  /\ \E p \in freeset :
       /\ freeset' = freeset \ {p}
       /\ inuse' = inuse \cup {p}
  /\ UNCHANGED stopped

\* page_alloc() with no free page: assert(page) stops the kernel.
Exhausted ==
  /\ stopped = "none"
  /\ freeset = {}
  /\ stopped' = "oom"
  /\ UNCHANGED <<freeset, inuse>>

\* page_free() of a page in use, when its last reference is dropped.
Free(p) ==
  /\ stopped = "none"
  /\ p \in inuse
  /\ inuse' = inuse \ {p}
  /\ freeset' = freeset \cup {p}
  /\ UNCHANGED stopped

Next == Alloc \/ Exhausted \/ \E p \in Pages : Free(p)

Spec == Init /\ [][Next]_avars
====
