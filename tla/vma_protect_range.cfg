\* The program changes the protection of one page of a larger VMA.
CONSTANTS
  PAGE_SIZE = 2
  USER_LIM = 12
  USTACK_TOP = 12
  Segments <- TextData
  Addrs = {2, 4, 8}
  Lens = {2}
  Prots <- ReadProts
  Accesses <- FaultAccesses
SPECIFICATION ProtectSpec
VIEW StateView
CHECK_DEADLOCK FALSE
PROPERTY
  ProtectChangesOnlyRange
