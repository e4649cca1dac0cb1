------------------------------- MODULE MC_Walk -------------------------------
EXTENDS Walk

\* Page-aligned user addresses, and the ranges the walks are compared on:
\* single pages, an unaligned range across a page-table boundary, one
\* across a page-directory boundary, all of user space and its top.
AllUserPages == {0, 8, 16, 24, 32, 40, 48, 56}
CheckedRanges == {<<0, 8>>, <<5, 21>>, <<12, 44>>, <<0, 64>>, <<40, 63>>,
                  <<56, 64>>}
=============================================================================
