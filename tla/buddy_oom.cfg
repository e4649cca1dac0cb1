\* Eight pages, page 0 reserved: pages are allocated until none is left.
CONSTANTS
  NPAGES = 8
  BUDDY_MAX_ORDER = 3
  FreeRegions <- LowRegion
  BootReserved <- LowPagesReserved
  BOOT_MAP_LIM = 8
  PAGE_SIZE = 64
  INFO_SIZE = 16
  NENTRIES = 8
  PML4_SETUP_PAGES = 1
  MEMORY_THRESHOLD = 2
SPECIFICATION Spec
INVARIANT
  PageAllocReturnsNull
