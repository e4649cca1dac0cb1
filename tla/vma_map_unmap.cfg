\* The loaded program (.text, .data, stack) maps, unmaps and remaps pages
\* at every page address, with and without MAP_FIXED, and faults pages in
\* with every access.
CONSTANTS
  PAGE_SIZE = 2
  USER_LIM = 12
  USTACK_TOP = 12
  Segments <- TextData
  Addrs = {0, 2, 4, 6, 8}
  Lens = {2, 4}
  Prots <- ReadOrRW
  Accesses <- FaultAccesses
SPECIFICATION MapSpec
VIEW StateView
CHECK_DEADLOCK FALSE
INVARIANTS
  VmasDisjoint
  VmasMerged
  MappingsWithinVmas
  NoPanic
  MqueryDescribesAddress
