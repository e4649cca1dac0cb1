\* MADV_WILLNEED over a range that runs from one VMA into the next.
CONSTANTS
  PAGE_SIZE = 2
  USER_LIM = 12
  USTACK_TOP = 12
  Segments <- TextData
  Addrs = {2, 4, 6, 8}
  Lens = {2, 4}
  Prots <- ReadOrRW
  Accesses <- FaultAccesses
SPECIFICATION MadviseSpec
VIEW StateView
CHECK_DEADLOCK FALSE
INVARIANT
  MappingsWithinVmas
