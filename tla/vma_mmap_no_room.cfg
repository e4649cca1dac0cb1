\* The program maps pages with and without an address hint while free
\* gaps remain.
CONSTANTS
  PAGE_SIZE = 2
  USER_LIM = 12
  USTACK_TOP = 12
  Segments <- TextData
  Addrs = {0, 4, 8}
  Lens = {2}
  Prots <- ReadOrRW
  Accesses <- FaultAccesses
SPECIFICATION MapSpec
VIEW StateView
CHECK_DEADLOCK FALSE
PROPERTY
  MmapPlacesWhenRoom
