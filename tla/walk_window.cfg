\* walk_all_pages over a page table with a user page table at the top of
\* user space: the PML4 step jumps from USER_LIM to its sign extension,
\* and the jump reaches the last user PTE callback as its end.
CONSTANTS
  PAGE_SIZE = 8
  NENTRIES = 2
  WORD = 256
  USER_LIM = 64
  KERNEL_VMA = 192
  KERNEL_LIM = 255
  KERNEL_SIZE = 16
  NFRAMES = 13
  UserVas <- AllUserPages
  Sizes = {8, 16, 24}
  Ranges <- CheckedRanges
SPECIFICATION Spec
CHECK_DEADLOCK FALSE
INVARIANT
  CallbackWithinPage
