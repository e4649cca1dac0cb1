\* munmap() of a whole VMA after one of its pages was swapped out:
\* remove_pte() decrefs the frame whose number is the slot.
CONSTANTS
  NPAGES = 4
  Reserved = {0, 1, 2, 3, 4}
  UserFrames = {5, 6, 7}
  InitVmas <- TwoVmas
  MEMORY_THRESHOLD = 2
  SWAP_BLOCK = 2
  WriteFails <- WritesSucceed
  MaxSlots = 5
  MaxVmas = 4
  MunmapLens = {2}
SPECIFICATION MunmapSpec
CHECK_DEADLOCK FALSE
INVARIANTS
  RefMatchesPtes
