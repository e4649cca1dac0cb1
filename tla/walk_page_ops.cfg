\* Scaled x86-64 paging: 8-byte pages, two entries a table, an 8-bit word
\* whose top half is the sign-extended kernel half. The kernel maps two
\* pages at boot; page_insert, populate_region, unmap_page_range and
\* task_free's unmap_user_pages then run on any user pages until the
\* frames run out.
CONSTANTS
  PAGE_SIZE = 8
  NENTRIES = 2
  WORD = 256
  USER_LIM = 64
  KERNEL_VMA = 192
  KERNEL_LIM = 255
  KERNEL_SIZE = 16
  NFRAMES = 13
  UserVas <- AllUserPages
  Sizes = {8, 16, 24}
  Ranges <- CheckedRanges
SPECIFICATION Spec
CHECK_DEADLOCK FALSE
INVARIANTS
  WalkMatchesReference
  PageTablesWellFormed
PROPERTIES
  PageOpsChangeOnlyRange
