----------------------------- MODULE MCRubyAlloc -----------------------------
(* Small instances of the allocator for TLC.                                *)
EXTENDS RubyAlloc

MCSizes == {0, 1, 5, 61}
\* Sizes within a header of the largest size_t.
MCHugeSizes == {1, 62, 63}
MCOffsets == {-1, 0, 1, 4}
=============================================================================
