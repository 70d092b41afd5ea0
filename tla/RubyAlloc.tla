------------------------------ MODULE RubyAlloc ------------------------------
(***************************************************************************)
(* The component-local allocator of src/ruby_alloc.c: a bump arena with a   *)
(* first-fit free list that reuses whole blocks, behind malloc, free,       *)
(* calloc, realloc, posix_memalign, aligned_alloc, mmap and munmap.         *)
(*                                                                         *)
(* heap is what the file keeps in its statics and in the block headers;     *)
(* bytes is the arena's memory, reduced to the set of addresses whose byte  *)
(* is not zero; live is what the program believes it owns.  A header is     *)
(* known by its address: an address is in DOMAIN heap.header exactly when   *)
(* ALLOC_MAGIC was stored there, which nothing ever erases.                 *)
(***************************************************************************)
EXTENDS Integers, SequencesExt

CONSTANTS
  WordSize,           \* size_t and uintptr_t are computed modulo this (2^64)
  ArenaBase,          \* address of ruby_alloc_arena
  ArenaSize,          \* RUBY_ALLOC_ARENA_SIZE
  HeaderSize,         \* sizeof(alloc_header_t)
  PointerSize,        \* sizeof(void *)
  MMAP_ALIGNMENT,     \* the page size
  Sizes,              \* sizes and lengths a caller asks for
  Counts,             \* calloc counts
  Alignments,         \* alignments a caller asks for
  Files,              \* sizes of the CPIO files a descriptor may refer to
  Offsets,            \* file offsets given to mmap
  HeadTrims           \* TRUE when a caller also unmaps the head of a mapping

NULL   == 0
NoFile == -1          \* cpio_file_for_fd found no file behind the descriptor
Unspecified == -1     \* contents at birth are whatever the memory held
DEFAULT_ALIGNMENT == 2 * PointerSize

ASSUME ConstantsAssumption ==
  /\ {WordSize, ArenaBase, ArenaSize, HeaderSize, PointerSize, MMAP_ALIGNMENT}
       \subseteq Nat \ {0}
  /\ Sizes \subseteq 0 .. WordSize - 1
  /\ Counts \subseteq 0 .. WordSize - 1
  /\ Alignments \subseteq 0 .. WordSize - 1
  /\ Files \subseteq Nat
  /\ Offsets \subseteq Int
  /\ HeadTrims \in BOOLEAN

(* The arena is far from the end of the address space: aligning an address  *)
(* inside it upwards does not wrap.                                         *)
ASSUME PlacementAssumption ==
  \A a \in Alignments \cup {DEFAULT_ALIGNMENT, MMAP_ALIGNMENT} :
     ArenaBase + ArenaSize + HeaderSize + a <= WordSize

ArenaEnd == ArenaBase + ArenaSize

VARIABLES
  heap,    \* [offset, header, free_list]: ruby_alloc_offset, headers, free_list
  bytes,   \* the addresses of the arena that hold a non-zero byte
  live     \* what callers own: records [lo, hi, kind, data]

vars == <<heap, bytes, live>>

-----------------------------------------------------------------------------
(* Machine arithmetic.                                                      *)

Word(x) == x % WordSize

is_power_of_two(v) == \E k \in 0 .. v : 2 ^ k = v

(* Clearing the low bits of an address: & ~(alignment - 1).                 *)
align_down(v, alignment) == v - (v % alignment)

align_up(v, alignment) == align_down(Word(v + alignment - 1), alignment)

Span(lo, n) == lo .. (lo + n - 1)

AtMost(n, limit) == IF n < limit THEN n ELSE limit

-----------------------------------------------------------------------------
(* arena_alloc and free, as functions of the heap.                          *)

Heap(offset, header, free_list) ==
  [offset |-> offset, header |-> header, free_list |-> free_list]

Block(size, capacity, is_free) ==
  [size |-> size, capacity |-> capacity, is_free |-> is_free]

Result(h, p) == [heap |-> h, ptr |-> p]

(* Mutant: any block that is large enough will do.                          *)
block_matches_size(h, a, size, alignment) == h.header[a].capacity >= size

block_matches(h, a, size, alignment) ==
  /\ h.header[a].capacity >= size
  /\ (a + HeaderSize) % alignment = 0

(* The position in the free list of the first block that fits, 0 if none.   *)
first_fit(h, size, alignment) ==
  SelectInSeq(h.free_list, LAMBDA a : block_matches(h, a, size, alignment))

(* Mutant: the block is taken into use without unlinking it.                *)
reuse_keeps_listed(h, i, size) ==
  LET a == h.free_list[i]
  IN  Result(Heap(h.offset,
                  [h.header EXCEPT ![a] = Block(size, @.capacity, FALSE)],
                  h.free_list),
             a + HeaderSize)

reuse_free_block(h, i, size) ==
  LET a == h.free_list[i]
  IN  Result(Heap(h.offset,
                  [h.header EXCEPT ![a] = Block(size, @.capacity, FALSE)],
                  RemoveAt(h.free_list, i)),
             a + HeaderSize)

(* Mutant: the header's own size is forgotten before aligning.              *)
header_for_base(h, alignment) ==
  Word(align_up(Word(ArenaBase + h.offset), alignment) - HeaderSize)

(* The payload, not the header, lands on the requested alignment.           *)
header_for(h, alignment) ==
  Word(align_up(Word(ArenaBase + h.offset + HeaderSize), alignment) - HeaderSize)

(* Mutant: the offset is stored as an address.                              *)
offset_absolute(addr) == addr

offset_of(addr) == addr - ArenaBase

carve_at(h, header_addr, size) ==
  LET next == Word(header_addr + HeaderSize + size)
  IN  IF next < header_addr \/ next > ArenaEnd
        THEN Result(h, NULL)
        ELSE Result(Heap(offset_of(next),
                         [a \in DOMAIN h.header \cup {header_addr} |->
                            IF a = header_addr THEN Block(size, size, FALSE)
                                               ELSE h.header[a]],
                         h.free_list),
                    header_addr + HeaderSize)

arena_alloc(h, n, align) ==
  LET size      == IF n = 0 THEN 1 ELSE n
      alignment == IF align < DEFAULT_ALIGNMENT THEN DEFAULT_ALIGNMENT ELSE align
      fit       == first_fit(h, size, alignment)
  IN  IF ~is_power_of_two(alignment) THEN Result(h, NULL)
      ELSE IF fit # 0 THEN reuse_free_block(h, fit, size)
      ELSE carve_at(h, header_for(h, alignment), size)

malloc(h, n) == arena_alloc(h, n, DEFAULT_ALIGNMENT)

(* A pointer is one of ours when a header with the magic lies below it.     *)
is_ours(h, p) == (p - HeaderSize) \in DOMAIN h.header

(* Mutant: a block that is free already is freed again.                     *)
free_again(h, p) ==
  LET a == p - HeaderSize
  IN  IF p = NULL \/ ~is_ours(h, p) THEN h
      ELSE Heap(h.offset,
                [h.header EXCEPT ![a] = Block(@.size, @.capacity, TRUE)],
                <<a>> \o h.free_list)

free(h, p) ==
  LET a == p - HeaderSize
  IN  IF p = NULL \/ ~is_ours(h, p) \/ h.header[a].is_free THEN h
      ELSE Heap(h.offset,
                [h.header EXCEPT ![a] = Block(@.size, @.capacity, TRUE)],
                <<a>> \o h.free_list)

malloc_usable_size(h, p) == h.header[p - HeaderSize].capacity

-----------------------------------------------------------------------------
(* Memory contents.                                                         *)

(* Mutant: memory taken from the free list is not cleared.                  *)
memset_skipped(b, p, n) == b

memset(b, p, n) == b \ Span(p, n)

memcpy(b, to, from, n) ==
  (b \ Span(to, n)) \cup {to + (x - from) : x \in b \cap Span(from, n)}

-----------------------------------------------------------------------------
(* What a caller owns after a call: the n bytes it asked for, or the whole  *)
(* pages of a mapping.  data counts the leading bytes that hold something   *)
(* at birth; Unspecified when the contents are whatever was there.          *)

Owned(p, n, kind, data) ==
  [lo |-> p, hi |-> p + n - 1, kind |-> kind, data |-> data]

Length(l) == l.hi + 1 - l.lo

Hand(r, n, kind, data) ==
  /\ heap' = r.heap
  /\ live' = IF r.ptr = NULL THEN live
             ELSE live \cup {Owned(r.ptr, n, kind, data)}

Init ==
  /\ heap = Heap(0, [a \in {} |-> Block(0, 0, FALSE)], <<>>)
  /\ bytes = {}
  /\ live = {}

(* malloc, its __libc aliases, and realloc of a null pointer.               *)
Malloc(n) ==
  /\ Hand(malloc(heap, n), n, "malloc", Unspecified)
  /\ UNCHANGED bytes

Calloc(count, n) ==
  LET total == Word(count * n)
      r     == malloc(heap, total)
  IN  /\ count # 0 => n <= (WordSize - 1) \div count
      /\ Hand(r, total, "malloc", 0)
      /\ bytes' = IF r.ptr = NULL THEN bytes ELSE memset(bytes, r.ptr, total)

PosixMemalign(alignment, n) ==
  /\ alignment >= PointerSize
  /\ is_power_of_two(alignment)
  /\ Hand(arena_alloc(heap, n, alignment), n, "malloc", Unspecified)
  /\ UNCHANGED bytes

AlignedAlloc(alignment, n) ==
  /\ is_power_of_two(alignment)
  /\ Hand(arena_alloc(heap, n, alignment), n, "malloc", Unspecified)
  /\ UNCHANGED bytes

FreeHeap(l) ==
  /\ l.kind = "malloc"
  /\ heap' = free(heap, l.lo)
  /\ live' = live \ {l}
  /\ UNCHANGED bytes

(* A pointer nobody owns reaches free: a second free, or a foreign pointer. *)
FreeStray(p) ==
  /\ \A l \in live : l.lo # p
  /\ heap' = free(heap, p)
  /\ UNCHANGED <<bytes, live>>

realloc_in_place(h, p, n) ==
  Heap(h.offset,
       [h.header EXCEPT ![p - HeaderSize] = Block(n, @.capacity, @.is_free)],
       h.free_list)

ReallocInPlace(l, n) ==
  /\ l.kind = "malloc"
  /\ n # 0
  /\ malloc_usable_size(heap, l.lo) >= n
  /\ heap' = realloc_in_place(heap, l.lo, n)
  /\ live' = (live \ {l}) \cup {Owned(l.lo, n, "malloc", Unspecified)}
  /\ UNCHANGED bytes

(* The block is too small: allocate, copy, free.  Nothing changes when the  *)
(* allocation fails.                                                        *)
ReallocMove(l, n) ==
  LET old_size == heap.header[l.lo - HeaderSize].size
      r        == malloc(heap, n)
  IN  /\ l.kind = "malloc"
      /\ n # 0
      /\ malloc_usable_size(heap, l.lo) < n
      /\ r.ptr # NULL
      /\ heap' = free(r.heap, l.lo)
      /\ bytes' = memcpy(bytes, r.ptr, l.lo, AtMost(old_size, n))
      /\ live' = (live \ {l}) \cup {Owned(r.ptr, n, "malloc", Unspecified)}

Realloc(l, n) == ReallocInPlace(l, n) \/ ReallocMove(l, n)

(* Whole pages, 0 when the request is refused.                              *)
rounded(length) ==
  LET r == align_down(Word(length + MMAP_ALIGNMENT - 1), MMAP_ALIGNMENT)
  IN  IF r < length THEN 0 ELSE r

map_pages(n) == arena_alloc(heap, n, MMAP_ALIGNMENT)

Mmap(length) ==
  LET n == rounded(length)
      r == map_pages(n)
  IN  /\ n # 0
      /\ Hand(r, n, "mmap", 0)
      /\ bytes' = IF r.ptr = NULL THEN bytes ELSE memset(bytes, r.ptr, n)

(* The bytes of a file are taken to be non-zero.                            *)
MmapFile(length, file, offset) ==
  LET n         == rounded(length)
      available == AtMost(file - offset, length)
      r         == map_pages(n)
  IN  /\ n # 0
      /\ file # NoFile
      /\ offset >= 0 /\ offset <= file
      /\ Hand(r, n, "mmap", available)
      /\ bytes' = IF r.ptr = NULL THEN bytes
                  ELSE memset(bytes, r.ptr, n) \cup Span(r.ptr, available)

(* Mutant: munmap reclaims the block that the address lies in.              *)
munmap_finds_block(h, addr) ==
  LET around == {a \in DOMAIN h.header :
                   addr \in Span(a + HeaderSize, h.header[a].capacity)}
  IN  free(h, IF around = {} THEN NULL ELSE HeaderSize + Max(around))

(* munmap ignores its length and hands the address to free.                 *)
munmap(h, addr) == free(h, addr)

UnmapWhole(l) ==
  /\ l.kind = "mmap"
  /\ heap' = munmap(heap, l.lo)
  /\ live' = live \ {l}
  /\ UNCHANGED bytes

UnmapTail(l, cut) ==
  /\ l.kind = "mmap" /\ cut < Length(l)
  /\ heap' = munmap(heap, l.hi + 1 - cut)
  /\ live' = (live \ {l}) \cup {[l EXCEPT !.hi = @ - cut]}
  /\ UNCHANGED bytes

UnmapHead(l, cut) ==
  /\ HeadTrims
  /\ l.kind = "mmap" /\ cut < Length(l)
  /\ heap' = munmap(heap, l.lo)
  /\ live' = (live \ {l}) \cup {[l EXCEPT !.lo = @ + cut]}
  /\ UNCHANGED bytes

(* A caller fills what it owns.                                             *)
Write(l) ==
  /\ bytes' = bytes \cup (l.lo .. l.hi)
  /\ UNCHANGED <<heap, live>>

Next ==
  \/ \E n \in Sizes :
        \/ Malloc(n)
        \/ Mmap(n)
        \/ \E c \in Counts : Calloc(c, n)
        \/ \E a \in Alignments : PosixMemalign(a, n) \/ AlignedAlloc(a, n)
        \/ \E f \in Files \cup {NoFile}, o \in Offsets : MmapFile(n, f, o)
        \/ \E l \in live : Realloc(l, n)
  \/ \E l \in live :
        \/ FreeHeap(l)
        \/ UnmapWhole(l)
        \/ UnmapTail(l, MMAP_ALIGNMENT)
        \/ UnmapHead(l, MMAP_ALIGNMENT)
        \/ Write(l)
  \/ \E p \in ArenaBase .. ArenaEnd : FreeStray(p)

Spec == Init /\ [][Next]_vars

-----------------------------------------------------------------------------
(* Properties.                                                              *)

BlockTypes == [size : 1 .. (WordSize - 1), capacity : 1 .. (WordSize - 1),
               is_free : BOOLEAN]

HeapTypeOK(h) ==
  /\ h.offset \in 0 .. ArenaSize
  /\ DOMAIN h.header \subseteq Nat
  /\ \A a \in DOMAIN h.header : h.header[a] \in BlockTypes
  /\ h.free_list \in Seq(Nat)

OwnedTypes == [lo : Nat, hi : Nat, kind : {"malloc", "mmap"}, data : Int]

(* The statics, the headers, the memory and the ghost record of ownership   *)
(* keep their types, and no block is as large as the address space.         *)
TypeOK ==
  /\ HeapTypeOK(heap)
  /\ bytes \subseteq Nat
  /\ live \subseteq OwnedTypes

BlockEnd(h, a) == a + HeaderSize + h.header[a].capacity

BlocksApart(h) ==
  /\ \A a \in DOMAIN h.header :
       a >= ArenaBase /\ BlockEnd(h, a) <= ArenaBase + h.offset
  /\ \A a, b \in DOMAIN h.header :
       a # b => BlockEnd(h, a) <= b \/ BlockEnd(h, b) <= a

(* Every block the allocator ever carved (ruby_alloc.c:145-161), header     *)
(* included, lies inside the part of the arena already handed out, and no   *)
(* two of them overlap, whatever was freed, reused or resized since.        *)
BlocksDisjoint == BlocksApart(heap)

FreeListOfFree(h) ==
  /\ \A i, j \in DOMAIN h.free_list : h.free_list[i] = h.free_list[j] => i = j
  /\ \A i \in DOMAIN h.free_list : h.free_list[i] \in DOMAIN h.header
  /\ \A a \in DOMAIN h.header :
       h.header[a].is_free <=> \E i \in DOMAIN h.free_list : h.free_list[i] = a

(* The free list holds exactly the blocks marked free, each of them once:   *)
(* no block is lost to it and none is on it twice, although frees arrive    *)
(* through free, realloc and munmap and some of them are repeated or stray  *)
(* (ruby_alloc.c:100-112, 178-184).                                         *)
FreeListExact == FreeListOfFree(heap)

(* What a caller owns stays in the block it was given, that block is not on *)
(* the free list while it is owned, and nobody else owns a byte of it       *)
(* (ruby_alloc.c:100-112, 178-184, 221-231).                                *)
LiveExclusive ==
  /\ \A l \in live :
       /\ is_ours(heap, l.lo)
       /\ ~heap.header[l.lo - HeaderSize].is_free
       /\ l.hi < l.lo + malloc_usable_size(heap, l.lo)
  /\ \A l, m \in live : l # m => l.lo # m.lo /\ (l.hi < m.lo \/ m.hi < l.lo)

(* A range that still starts the block it was given.  One that lost its     *)
(* head does not, and munmap no longer knows it.                            *)
StartsItsBlock(h, l) == is_ours(h, l.lo)

(* A range that lies within the payload of one block and does not start it. *)
Inside(h, l) ==
  \E a \in DOMAIN h.header :
    a + HeaderSize < l.lo /\ l.lo <= l.hi /\ l.hi < BlockEnd(h, a)

(* When callers unmap the heads of mappings, all of the damage is to what   *)
(* is left of the mappings they trimmed: every other range keeps a block in *)
(* use that is its own, although trimmed blocks are on the free list and    *)
(* are given out again, and unmapping a rest, or trimming it further, frees *)
(* nobody's block (ruby_alloc.c:100-112, 178-184, 405-422).                 *)
TrimHarmsOnlyTheRest ==
  LET whole == {l \in live : StartsItsBlock(heap, l)} IN
  /\ \A l \in whole :
       /\ ~heap.header[l.lo - HeaderSize].is_free
       /\ l.hi < l.lo + malloc_usable_size(heap, l.lo)
  /\ \A l, m \in whole : l # m => l.lo # m.lo /\ (l.hi < m.lo \/ m.hi < l.lo)
  /\ \A l \in live \ whole : l.kind = "mmap" /\ Inside(heap, l)

(* What arena_alloc should answer, by searching: some block on the free     *)
(* list fits, or some aligned payload fits between the offset and the end.  *)
SomePlaceFits(size, alignment) ==
  \/ \E a \in DOMAIN heap.header :
       /\ heap.header[a].is_free
       /\ heap.header[a].capacity >= size
       /\ (a + HeaderSize) % alignment = 0
  \/ \E p \in (ArenaBase + heap.offset + HeaderSize) .. (ArenaEnd - size) :
       p % alignment = 0

(* arena_alloc (ruby_alloc.c:119-162) finds room exactly when there is      *)
(* some, near the top of the address space too, and answers a pointer with  *)
(* the alignment that was asked for.                                        *)
AllocatesWhenItFits ==
  \A n \in Sizes, a \in Alignments \cup {DEFAULT_ALIGNMENT, MMAP_ALIGNMENT} :
    (is_power_of_two(a) /\ a >= DEFAULT_ALIGNMENT) =>
      LET p == arena_alloc(heap, n, a).ptr
      IN  /\ p # NULL <=> SomePlaceFits(IF n = 0 THEN 1 ELSE n, a)
          /\ p # NULL => p % a = 0

(* The file header says that it "keeps every allocation inside one arena    *)
(* whose bounds this file controls" (ruby_alloc.c:16-17).                   *)
AllocationsInsideArena ==
  \A l \in live : ArenaBase <= l.lo /\ l.hi < ArenaEnd

(* munmap's comment says that "a trim request is dropped while a whole      *)
(* mapping is reclaimed" (ruby_alloc.c:411-412): when a caller gives up     *)
(* part of a mapping and keeps the rest, the heap stays as it is.           *)
TrimRequestIsDropped ==
  [][\A l \in live \ live' :
       (\E m \in live' \ live : m.kind = "mmap" /\ m.lo .. m.hi \subseteq l.lo .. l.hi)
         => UNCHANGED heap]_vars

(* The bytes callers can see: those in ranges they own.                     *)
Contract == INSTANCE HeapContract
  WITH live <- live, content <- bytes \cap UNION {l.lo .. l.hi : l \in live}

(* The allocator implements what its callers rely on: ranges never overlap, *)
(* mappings and calloc read as zero or as the file, realloc keeps the       *)
(* prefix, and no call disturbs a byte that somebody else owns.             *)
KeepsContract == Contract!Spec
=============================================================================
