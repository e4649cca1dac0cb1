------------------------------- MODULE MC_Vma -------------------------------
(* Instances of the VMA model for TLC: a user space of six pages of two   *)
(* bytes.                                                                  *)
EXTENDS Vma

\* A .text segment of two pages, all from the file, and a .data page of
\* which one byte is in the file.
TextData ==
  << [va |-> 2, memsz |-> 4, flags |-> {"X"}, src |-> 100, filesz |-> 4],
     [va |-> 6, memsz |-> 2, flags |-> {"W"}, src |-> 200, filesz |-> 1] >>

\* A .data segment of two pages whose second page is .bss only.
TextDataBss ==
  << [va |-> 2, memsz |-> 2, flags |-> {"X"}, src |-> 100, filesz |-> 2],
     [va |-> 4, memsz |-> 4, flags |-> {"W"}, src |-> 200, filesz |-> 1] >>

\* .text and .data each with a partial last page, and a read-only page,
\* under a user space of eight pages.
ThreeSegments ==
  << [va |-> 2, memsz |-> 4, flags |-> {"X"}, src |-> 100, filesz |-> 3],
     [va |-> 6, memsz |-> 2, flags |-> {}, src |-> 300, filesz |-> 2],
     [va |-> 8, memsz |-> 4, flags |-> {"W"}, src |-> 200, filesz |-> 3] >>

ReadOrRW == {{"R"}, {"R", "W"}}
ReadProts == {{"R"}, {"R", "W"}, {"R", "X"}}
AllProts == ReadProts \cup {{}}
FaultAccesses == {{"R"}, {"R", "W"}, {"R", "X"}}

\* Mapping, unmapping and faults, without mprotect.
MapNext ==
  \/ \E addr \in Addrs, len \in Lens, prot \in Prots, fixed \in BOOLEAN :
       sys_mmap(addr, len, prot, fixed)
  \/ \E addr \in Addrs, len \in Lens : sys_munmap(addr, len)
  \/ \E va \in 0 .. USER_LIM - 1, acc \in Accesses : page_fault(va, acc)

MapSpec == Init /\ [][MapNext]_vars

\* mprotect and faults only, on the loaded program.
ProtectNext ==
  \/ \E addr \in Addrs, len \in Lens, prot \in Prots : sys_mprotect(addr, len, prot)
  \/ \E va \in 0 .. USER_LIM - 1, acc \in Accesses : page_fault(va, acc)

ProtectSpec == Init /\ [][ProtectNext]_vars

\* madvise(MADV_DONTNEED) and faults on the loaded program.
DontneedNext ==
  \/ \E addr \in Addrs, len \in Lens : sys_madvise(addr, len, "dontneed")
  \/ \E va \in 0 .. USER_LIM - 1, acc \in Accesses : page_fault(va, acc)

DontneedSpec == Init /\ [][DontneedNext]_vars

\* Both kinds of advice, and faults, on the loaded program.
MadviseNext ==
  \/ \E addr \in Addrs, len \in Lens, adv \in {"dontneed", "willneed"} :
       sys_madvise(addr, len, adv)
  \/ \E va \in 0 .. USER_LIM - 1, acc \in Accesses : page_fault(va, acc)

MadviseSpec == Init /\ [][MadviseNext]_vars

\* The state without the history of the last call, for runs with no action
\* property.
StateView == <<vmas, pte, ptbl, status, elf>>
=============================================================================
