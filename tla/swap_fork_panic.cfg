\* Task 1 faults pages in and forks while the swap thread runs.  The
\* child's VMAs are memcpy()ed copies whose vma->task is still task 1, so
\* when the clock evicts a frame both tasks share, rmap_walk() walks task
\* 1's page table twice and never task 2's: the child's mapping keeps its
\* pp_ref and page_free() fails its assert.
CONSTANTS
  NPAGES = 4
  Reserved = {0, 1, 2, 3, 4}
  UserFrames = {5, 6, 7}
  InitVmas <- TwoVmas
  MEMORY_THRESHOLD = 2
  SWAP_BLOCK = 2
  WriteFails <- WritesSucceed
  MaxSlots = 5
  MaxVmas = 4
  MunmapLens = {1}
SPECIFICATION ForkSwapSpec
CHECK_DEADLOCK FALSE
INVARIANT
  NoPanic
