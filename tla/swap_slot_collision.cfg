\* Slots run up past the reserved frames: a swapped entry whose slot
\* equals the frame being evicted matches update_pte_swap_out() and fails
\* its PAGE_PRESENT assert.
CONSTANTS
  NPAGES = 4
  Reserved = {0, 1, 2, 3, 4}
  UserFrames = {5, 6, 7}
  InitVmas <- TwoVmas
  MEMORY_THRESHOLD = 2
  SWAP_BLOCK = 2
  WriteFails <- WritesSucceed
  MaxSlots = 8
  MaxVmas = 2
  MunmapLens = {1}
SPECIFICATION Spec
CHECK_DEADLOCK FALSE
INVARIANTS
  NoPanic
