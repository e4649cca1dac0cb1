\* The disk write of the victim fails: swap_out() returns -1 with the
\* victim taken off the swap list and still mapped.
CONSTANTS
  NPAGES = 4
  Reserved = {0, 1, 2, 3, 4}
  UserFrames = {5, 6, 7}
  InitVmas <- TwoVmas
  MEMORY_THRESHOLD = 2
  SWAP_BLOCK = 2
  WriteFails <- BOOLEAN
  MaxSlots = 5
  MaxVmas = 2
  MunmapLens = {1}
SPECIFICATION Spec
CHECK_DEADLOCK FALSE
INVARIANTS
  SwapListIffReferenced
