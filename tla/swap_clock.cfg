\* Faults and accesses on four pages with three user frames: the swap
\* thread starts once fewer than two frames are free and evicts up to two
\* frames a batch.  Slots 0 .. 4 are reserved frame numbers, so no slot
\* equals a user frame.
CONSTANTS
  NPAGES = 4
  Reserved = {0, 1, 2, 3, 4}
  UserFrames = {5, 6, 7}
  InitVmas <- TwoVmas
  MEMORY_THRESHOLD = 2
  SWAP_BLOCK = 2
  WriteFails <- WritesSucceed
  MaxSlots = 5
  MaxVmas = 2
  MunmapLens = {1}
SPECIFICATION Spec
CHECK_DEADLOCK FALSE
INVARIANTS
  RefMatchesPtes
  FreeIffUnreferenced
  SwapListIffReferenced
  NoPanic
PROPERTIES
  SecondChance
