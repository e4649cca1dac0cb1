------------------------------ MODULE MC_Buddy ------------------------------
(* Instances of the buddy allocator for TLC.                               *)
EXTENDS Buddy

\* A memory map with a hole at pages 12 and 13: the low region lies below
\* BOOT_MAP_LIM, the high one is added by page_init_ext() chunk by chunk.
TwoRegions == << <<0, 12>>, <<14, 20>> >>

\* One region of eight pages, all below BOOT_MAP_LIM.
LowRegion == << <<0, 8>> >>

\* A map whose last free entry is not its highest: mem_init() takes the end
\* of the last entry as highest_addr.
UnsortedRegions == << <<12, 16>>, <<0, 11>> >>

\* Page 0 holds the IVT and BIOS data; page 1 stands for the kernel image
\* and boot_info.
LowPagesReserved == {0, 1}
=============================================================================
