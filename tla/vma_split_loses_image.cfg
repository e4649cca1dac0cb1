\* The program unmaps part of .text and faults the rest of it in.
CONSTANTS
  PAGE_SIZE = 2
  USER_LIM = 12
  USTACK_TOP = 12
  Segments <- TextData
  Addrs = {2, 4}
  Lens = {2}
  Prots <- ReadOrRW
  Accesses <- FaultAccesses
SPECIFICATION MapSpec
VIEW StateView
CHECK_DEADLOCK FALSE
INVARIANT
  PageDataCorrect
