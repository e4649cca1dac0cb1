\* A memory map whose last free entry is not its highest: mem_init() sizes
\* the page_info array from the end of the last entry, which is not a
\* multiple of a top-order block, so free pages have buddies past npages.
CONSTANTS
  NPAGES = 16
  BUDDY_MAX_ORDER = 3
  FreeRegions <- UnsortedRegions
  BootReserved <- LowPagesReserved
  BOOT_MAP_LIM = 12
  PAGE_SIZE = 64
  INFO_SIZE = 16
  NENTRIES = 8
  PML4_SETUP_PAGES = 1
  MEMORY_THRESHOLD = 2
SPECIFICATION Spec
INVARIANT
  PageInfoBacked
