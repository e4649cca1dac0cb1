\* MADV_DONTNEED over a range whose first page was never faulted in.
CONSTANTS
  PAGE_SIZE = 2
  USER_LIM = 12
  USTACK_TOP = 12
  Segments <- TextData
  Addrs = {2, 4, 6, 8}
  Lens = {2, 4}
  Prots <- ReadOrRW
  Accesses <- FaultAccesses
SPECIFICATION DontneedSpec
VIEW StateView
CHECK_DEADLOCK FALSE
PROPERTY
  DontneedReleases
