------------------------------- MODULE MC_Slab -------------------------------
(* Two caches, one with three objects a slab and one with two, on a      *)
(* scaled-down page of 256 bytes so that slabs fill and empty within a   *)
(* few calls.                                                              *)
EXTENDS Slab

\* Object sizes of 40 and 56 bytes: with a 24-byte header and a 48-byte
\* footer, 64-byte objects (three a slab) and 96-byte objects (two a slab).
TwoCaches == <<40, 56>>
====
