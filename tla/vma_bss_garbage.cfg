\* The program faults in the pages of a .data segment whose second page is
\* .bss only.
CONSTANTS
  PAGE_SIZE = 2
  USER_LIM = 12
  USTACK_TOP = 12
  Segments <- TextDataBss
  Addrs = {0}
  Lens = {2}
  Prots <- ReadOrRW
  Accesses <- FaultAccesses
SPECIFICATION MapSpec
VIEW StateView
CHECK_DEADLOCK FALSE
INVARIANT
  PageDataCorrect
