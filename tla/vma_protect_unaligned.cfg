\* The program changes the protection from an address inside a page.
CONSTANTS
  PAGE_SIZE = 2
  USER_LIM = 12
  USTACK_TOP = 12
  Segments <- TextData
  Addrs = {3}
  Lens = {3}
  Prots <- ReadProts
  Accesses <- FaultAccesses
SPECIFICATION ProtectSpec
VIEW StateView
CHECK_DEADLOCK FALSE
PROPERTY
  MprotectKeepsMappings
