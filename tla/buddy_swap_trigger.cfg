\* Eight pages, page 0 reserved, swapping below two free pages: the memory
\* pressure test of swap_thread() against the free lists.
CONSTANTS
  NPAGES = 8
  BUDDY_MAX_ORDER = 3
  FreeRegions <- LowRegion
  BootReserved <- LowPagesReserved
  BOOT_MAP_LIM = 8
  PAGE_SIZE = 64
  INFO_SIZE = 16
  NENTRIES = 8
  PML4_SETUP_PAGES = 1
  MEMORY_THRESHOLD = 2
SPECIFICATION Spec
INVARIANT
  SwapTriggerMatchesFreeMemory
