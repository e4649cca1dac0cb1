\* munmap() of one page of a populated VMA splits it; the rest gets a new
\* rmap while its pages keep the old one, whose range is now the cut lhs.
\* Swapping such a page out walks the lhs only and page_free() asserts.
CONSTANTS
  NPAGES = 4
  Reserved = {0, 1, 2, 3, 4}
  UserFrames = {5, 6, 7}
  InitVmas <- TwoVmas
  MEMORY_THRESHOLD = 2
  SWAP_BLOCK = 2
  WriteFails <- WritesSucceed
  MaxSlots = 5
  MaxVmas = 4
  MunmapLens = {1}
SPECIFICATION MunmapSpec
CHECK_DEADLOCK FALSE
INVARIANTS
  NoPanic
