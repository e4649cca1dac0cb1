\* Task 1 faults its pages in, forks, and then both tasks fault, write
\* (copy on write) and unmap single pages of four pages, with three user
\* frames and no swap thread.  Fork adds two VMA structs and each munmap
\* up to two.
CONSTANTS
  NPAGES = 4
  Reserved = {0, 1, 2, 3, 4}
  UserFrames = {5, 6, 7}
  InitVmas <- TwoVmas
  MEMORY_THRESHOLD = 2
  SWAP_BLOCK = 2
  WriteFails <- WritesSucceed
  MaxSlots = 5
  MaxVmas = 6
  MunmapLens = {1}
SPECIFICATION ForkSpec
CHECK_DEADLOCK FALSE
INVARIANTS
  RefMatchesPtes
  SwapListIffReferenced
  WritableExclusive
