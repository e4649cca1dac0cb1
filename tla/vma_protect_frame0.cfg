\* The program faults one page in, then changes the protection of a range
\* with pages never faulted in.
CONSTANTS
  PAGE_SIZE = 2
  USER_LIM = 12
  USTACK_TOP = 12
  Segments <- TextData
  Addrs = {2, 4}
  Lens = {2, 4}
  Prots <- ReadProts
  Accesses <- FaultAccesses
SPECIFICATION ProtectSpec
VIEW StateView
CHECK_DEADLOCK FALSE
INVARIANT
  FramesAllocated
