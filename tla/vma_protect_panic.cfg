\* The program changes the protection of the first page of a VMA and
\* executes or writes the pages after it.
CONSTANTS
  PAGE_SIZE = 2
  USER_LIM = 12
  USTACK_TOP = 12
  Segments <- TextData
  Addrs = {2, 6}
  Lens = {2}
  Prots <- ReadProts
  Accesses <- FaultAccesses
SPECIFICATION ProtectSpec
VIEW StateView
CHECK_DEADLOCK FALSE
INVARIANT
  NoPanic
