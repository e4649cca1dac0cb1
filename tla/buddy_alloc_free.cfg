\* Twenty pages in blocks of up to four, a memory map with a hole above
\* BOOT_MAP_LIM, pages 0-1 reserved: after boot, pages are allocated and
\* freed in every order until memory runs out.
CONSTANTS
  NPAGES = 20
  BUDDY_MAX_ORDER = 3
  FreeRegions <- TwoRegions
  BootReserved <- LowPagesReserved
  BOOT_MAP_LIM = 12
  PAGE_SIZE = 64
  INFO_SIZE = 16
  NENTRIES = 8
  PML4_SETUP_PAGES = 2
  MEMORY_THRESHOLD = 2
SPECIFICATION Spec
INVARIANTS
  FreeBlocksConsistent
  MemoryPartition
  FullyCoalesced
  PageInfoBacked
PROPERTIES
  AllocRefines
