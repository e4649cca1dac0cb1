\* The loaded program drops clean pages with MADV_DONTNEED and faults them
\* back in: lazy loading must give each page its image bytes again.
CONSTANTS
  PAGE_SIZE = 2
  USER_LIM = 16
  USTACK_TOP = 16
  Segments <- ThreeSegments
  Addrs = {2, 4, 6, 8, 10, 12, 14}
  Lens = {2, 4}
  Prots <- ReadOrRW
  Accesses <- FaultAccesses
SPECIFICATION DontneedSpec
VIEW StateView
CHECK_DEADLOCK FALSE
INVARIANTS
  PageDataCorrect
