SPECIFICATION Spec
CONSTANTS
  WordSize = 64
  ArenaBase = 8
  ArenaSize = 16
  HeaderSize = 2
  PointerSize = 1
  MMAP_ALIGNMENT = 4
  Sizes <- MCSizes
  Counts = {0, 3}
  Alignments = {0, 3, 8}
  Files = {3}
  Offsets <- MCOffsets
  HeadTrims = FALSE
INVARIANTS
  TypeOK
  BlocksDisjoint
  FreeListExact
  LiveExclusive
  AllocatesWhenItFits
PROPERTY
  KeepsContract
