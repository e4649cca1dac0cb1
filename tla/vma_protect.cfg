\* The loaded program changes the protection of every page-aligned range
\* and faults pages in with every access.
CONSTANTS
  PAGE_SIZE = 2
  USER_LIM = 12
  USTACK_TOP = 12
  Segments <- TextData
  Addrs = {2, 4, 6, 8}
  Lens = {2, 4}
  Prots <- ReadProts
  Accesses <- FaultAccesses
SPECIFICATION ProtectSpec
VIEW StateView
CHECK_DEADLOCK FALSE
INVARIANTS
  VmasDisjoint
  VmasMerged
PROPERTIES
  MprotectKeepsMappings
