\* The program faults pages in, then asks for PROT_NONE on them.
CONSTANTS
  PAGE_SIZE = 2
  USER_LIM = 12
  USTACK_TOP = 12
  Segments <- TextData
  Addrs = {2, 10}
  Lens = {2}
  Prots <- AllProts
  Accesses <- FaultAccesses
SPECIFICATION ProtectSpec
VIEW StateView
CHECK_DEADLOCK FALSE
INVARIANT
  MappingsWithinVmas
