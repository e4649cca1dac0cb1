\* The program maps a page with MAP_FIXED over part of a larger VMA
\* (scenario 2 of the spec).
CONSTANTS
  PAGE_SIZE = 2
  USER_LIM = 12
  USTACK_TOP = 12
  Segments <- TextData
  Addrs = {2, 4, 8}
  Lens = {2}
  Prots <- ReadOrRW
  Accesses <- FaultAccesses
SPECIFICATION MapSpec
VIEW StateView
CHECK_DEADLOCK FALSE
PROPERTY
  FixedKeepsRest
