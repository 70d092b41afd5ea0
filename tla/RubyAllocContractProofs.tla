----------------------- MODULE RubyAllocContractProofs -----------------------
(***************************************************************************)
(* The allocator of RubyAlloc implements HeapContract, for every arena and  *)
(* every set of requests that RubyAllocProofs is about.                     *)
(***************************************************************************)
EXTENDS RubyAllocProofs

(* realloc copies as many bytes as the header's size says.  That is enough  *)
(* because what is owned never reaches beyond it.                           *)
Sized(h, L) == \A l \in L : l.hi < l.lo + h.header[l.lo - HeaderSize].size

ContractInv == OwnershipInv /\ Sized(heap, live)

-----------------------------------------------------------------------------
(* Sizes in the headers.                                                    *)

(* The header of a block just handed out holds the size that was asked for. *)
LEMMA HandedSize ==
  ASSUME NEW h, HeapOK(h), NEW n \in Nat, n + HeaderSize < WordSize,
         NEW align \in RequestAlignments, arena_alloc(h, n, align).ptr # NULL
  PROVE  LET r == arena_alloc(h, n, align)
         IN  r.heap.header[r.ptr - HeaderSize].size >= n
<1> DEFINE size == IF n = 0 THEN 1 ELSE n
           alignment == IF align < DEFAULT_ALIGNMENT THEN DEFAULT_ALIGNMENT ELSE align
           fit == first_fit(h, size, alignment)
           r == arena_alloc(h, n, align)
           at == header_for(h, alignment)
<1>1. HeaderSize \in Nat /\ size >= n /\ size \in Nat
  BY ConstantsAssumption
<1>2. alignment \in RequestAlignments /\ alignment # 0
  BY ConstantsAssumption DEF RequestAlignments, DEFAULT_ALIGNMENT
<1>3. r = IF ~is_power_of_two(alignment) THEN Result(h, NULL)
          ELSE IF fit # 0 THEN reuse_free_block(h, fit, size)
          ELSE carve_at(h, at, size)
  BY DEF arena_alloc
<1> HIDE DEF size, alignment, fit, at
<1>4. CASE fit # 0 /\ r = reuse_free_block(h, fit, size)
  <2> DEFINE a == h.free_list[fit]
  <2>1. fit \in 1 .. Len(h.free_list) /\ a \in DOMAIN h.header /\ a \in Nat
    <3>1. fit \in 1 .. Len(h.free_list)
      BY <1>4, FirstFit DEF fit, HeapOK, HeapTypeOK
    <3> QED
      BY <3>1 DEF HeapOK, HeapTypeOK, FreeListOfFree
  <2>2. /\ r.heap.header = [h.header EXCEPT ![a] = Block(size, @.capacity, FALSE)]
        /\ r.ptr = a + HeaderSize
    BY <1>4, Fields DEF reuse_free_block
  <2> HIDE DEF r, a
  <2>3. r.ptr - HeaderSize = a
    BY <1>1, <2>1, <2>2
  <2>4. r.heap.header[a].size = size
    BY <2>1, <2>2 DEF Block
  <2> QED
    BY <1>1, <2>3, <2>4 DEF r
<1>5. CASE r = carve_at(h, at, size)
  <2>1. at \in Nat
    BY <1>2, HeaderPlace, ConstantsAssumption DEF at, HeapOK, HeapTypeOK
  <2>2. /\ r.heap.header = [a \in DOMAIN h.header \cup {at} |->
                              IF a = at THEN Block(size, size, FALSE)
                                        ELSE h.header[a]]
        /\ r.ptr = at + HeaderSize
    BY <1>5, Fields DEF carve_at
  <2> HIDE DEF r
  <2>3. r.ptr - HeaderSize = at
    BY <1>1, <2>1, <2>2
  <2>4. r.heap.header[at].size = size
    BY <2>2 DEF Block
  <2> QED
    BY <1>1, <2>3, <2>4 DEF r
<1>6. r # Result(h, NULL)
  <2>1. r.ptr # NULL
    OBVIOUS
  <2> HIDE DEF r
  <2> QED
    BY <2>1, Fields
<1> HIDE DEF r
<1>7. \/ fit # 0 /\ r = reuse_free_block(h, fit, size)
      \/ r = carve_at(h, at, size)
  BY <1>3, <1>6
<1> QED
  BY <1>4, <1>5, <1>7 DEF r

(* A block handed out to o leaves the other headers that matter alone.      *)
LEMMA HandedSized ==
  ASSUME NEW h, NEW L, NEW r, NEW n \in Nat, NEW o,
         Backed(h, L), Handed(h, r, n), r.ptr # NULL, Sized(h, L),
         r.heap.header[r.ptr - HeaderSize].size \in Nat,
         r.heap.header[r.ptr - HeaderSize].size >= n,
         o.lo = r.ptr, o.hi = r.ptr + n - 1
  PROVE  Sized(r.heap, L \cup {o})
<1> DEFINE c == r.heap.header[r.ptr - HeaderSize].size
           p == r.ptr
<1>1. p \in Nat /\ c \in Nat /\ c >= n
  BY DEF Handed
<1>2. \A l \in L : r.heap.header[l.lo - HeaderSize] = h.header[l.lo - HeaderSize]
  BY DEF Handed, Backed
<1> HIDE DEF c, p
<1>3. p + n - 1 < p + c
  BY <1>1
<1>4. o.hi < o.lo + c
  BY <1>3 DEF p
<1> QED
  BY <1>2, <1>4 DEF Sized, c

(* A free of something else leaves the sizes of L alone.                    *)
LEMMA FreeSized ==
  ASSUME NEW h, NEW L, NEW p, HeapOK(h), Backed(h, L), Sized(h, L),
         \A l \in L : l.lo - HeaderSize # p - HeaderSize
  PROVE  Sized(free(h, p), L)
BY FreeOK DEF Sized, Backed

(* What the steps below use of the state before them.                       *)
LEMMA Before ==
  ASSUME SizesFit, ContractInv
  PROVE  /\ HeapOK(heap) /\ Backed(heap, live) /\ Sized(heap, live)
         /\ bytes \subseteq Nat /\ live \subseteq OwnedTypes
         /\ \A l \in live : l.lo \in Nat /\ l.hi \in Nat
         /\ HeaderSize \in Nat \ {0} /\ MMAP_ALIGNMENT \in Nat \ {0}
         /\ DEFAULT_ALIGNMENT \in RequestAlignments
         /\ MMAP_ALIGNMENT \in RequestAlignments
         /\ Alignments \subseteq RequestAlignments
         /\ \A n \in Sizes : /\ RequestFits(n) /\ n \in Nat
                             /\ \A c \in Counts : RequestFits(Word(c * n))
                             /\ RequestFits(rounded(n))
BY RequestBounds, ConstantsAssumption
   DEF ContractInv, OwnershipInv, Backed, OwnedTypes, RequestAlignments, RequestFits

(* Sized, step by step.                                                     *)
LEMMA HandSized ==
  ASSUME NEW n, NEW align, NEW kind, NEW data,
         SizesFit, ContractInv, RequestFits(n), align \in RequestAlignments,
         Hand(arena_alloc(heap, n, align), n, kind, data)
  PROVE  Sized(heap', live')
<1> DEFINE r == arena_alloc(heap, n, align)
           o == Owned(r.ptr, n, kind, data)
<1>1. /\ HeapOK(heap) /\ Backed(heap, live) /\ Sized(heap, live)
      /\ n \in Nat /\ n + HeaderSize < WordSize
  BY Before DEF RequestFits
<1>2. HeapOK(r.heap) /\ Handed(heap, r, n)
  BY <1>1, EveryRequest
<1>3. heap' = r.heap /\ live' = IF r.ptr = NULL THEN live ELSE live \cup {o}
  BY DEF Hand
<1>4. CASE r.ptr = NULL
  <2>1. r.heap = heap
    BY <1>2, <1>4 DEF Handed
  <2> QED
    BY <1>1, <1>3, <1>4, <2>1
<1>5. CASE r.ptr # NULL
  <2>1. r.heap.header[r.ptr - HeaderSize].size >= n
    BY <1>1, <1>5, HandedSize
  <2> HIDE DEF r
  <2>2. r.heap.header[r.ptr - HeaderSize].size \in Nat
    BY <1>2, <1>5 DEF Handed, HeapOK, HeapTypeOK, BlockTypes
  <2>3. o.lo = r.ptr /\ o.hi = r.ptr + n - 1
    BY DEF Owned
  <2> HIDE DEF o
  <2>4. Sized(r.heap, live \cup {o})
    BY <1>1, <1>2, <1>5, <2>1, <2>2, <2>3, HandedSized
  <2> QED
    BY <1>3, <1>5, <2>4
<1> QED
  BY <1>4, <1>5

LEMMA ReallocSized ==
  ASSUME NEW n \in Sizes, NEW l \in live, SizesFit, ContractInv, Realloc(l, n)
  PROVE  Sized(heap', live')
<1>1. /\ HeapOK(heap) /\ Backed(heap, live) /\ Sized(heap, live)
      /\ n \in Nat /\ n + HeaderSize < WordSize /\ RequestFits(n)
      /\ l.lo \in Nat /\ HeaderSize \in Nat \ {0}
      /\ DEFAULT_ALIGNMENT \in RequestAlignments
      /\ \A m \in live : m.lo \in Nat
      /\ \A m \in live \ {l} : m.lo # l.lo
  BY Before DEF RequestFits, Backed
<1>2. CASE ReallocInPlace(l, n)
  <2> DEFINE b == l.lo - HeaderSize
             o == Owned(l.lo, n, "malloc", Unspecified)
  <2>1. /\ heap' = realloc_in_place(heap, l.lo, n)
        /\ live' = (live \ {l}) \cup {o}
    BY <1>2 DEF ReallocInPlace
  <2>2. heap'.header = [heap.header EXCEPT ![b] = Block(n, @.capacity, @.is_free)]
    BY <2>1, Fields DEF realloc_in_place
  <2>3. b \in DOMAIN heap.header
    BY DEF ContractInv, OwnershipInv, Backed
  <2>4. o.lo = l.lo /\ o.hi = l.lo + n - 1
    BY DEF Owned
  <2> HIDE DEF b, o
  <2>5. heap'.header[b].size = n
    BY <2>2, <2>3 DEF Block
  <2>6. o.hi < o.lo + heap'.header[o.lo - HeaderSize].size
    BY <1>1, <2>4, <2>5 DEF b
  <2>7. ASSUME NEW m \in live \ {l}
        PROVE  m.hi < m.lo + heap'.header[m.lo - HeaderSize].size
    <3>1. m.lo - HeaderSize # b
      BY <1>1 DEF b
    <3>2. heap'.header[m.lo - HeaderSize] = heap.header[m.lo - HeaderSize]
      BY <1>1, <2>2, <3>1 DEF Backed
    <3> QED
      BY <1>1, <3>2 DEF Sized
  <2> QED
    BY <2>1, <2>6, <2>7 DEF Sized
<1>3. CASE ReallocMove(l, n)
  <2> DEFINE r == malloc(heap, n)
             o == Owned(r.ptr, n, "malloc", Unspecified)
  <2>1. /\ r.ptr # NULL /\ heap' = free(r.heap, l.lo)
        /\ live' = (live \ {l}) \cup {o}
    BY <1>3 DEF ReallocMove
  <2>2. HeapOK(r.heap) /\ Handed(heap, r, n)
    BY <1>1, EveryRequest DEF malloc
  <2>3. r.heap.header[r.ptr - HeaderSize].size >= n
    BY <1>1, <2>1, HandedSize DEF malloc
  <2> HIDE DEF r
  <2>4. r.heap.header[r.ptr - HeaderSize].size \in Nat /\ r.ptr \in Nat \ {0}
    BY <2>1, <2>2 DEF Handed, HeapOK, HeapTypeOK, BlockTypes, NULL
  <2>5. o \in OwnedTypes /\ o.lo = r.ptr /\ o.hi = r.ptr + n - 1
    BY <1>1, <2>4 DEF Owned, OwnedTypes, Unspecified
  <2> HIDE DEF o
  <2>6. Sized(r.heap, live \cup {o})
    BY <1>1, <2>1, <2>2, <2>3, <2>4, <2>5, HandedSized
  <2>7. Backed(r.heap, live \cup {o}) /\ \A m \in live : m.lo # o.lo
    <3>1. r.ptr # NULL /\ o \in OwnedTypes /\ o.lo = r.ptr /\ o.hi = r.ptr + n - 1
      BY <2>1, <2>5
    <3>2. Handed(heap, r, n) /\ HeapOK(r.heap)
      BY <2>2
    <3>3. HeapOK(heap) /\ Backed(heap, live) /\ n \in Nat
      BY <1>1
    <3> QED BY <3>1, <3>2, <3>3, HandedBacked, Zenon
  <2>8. /\ Backed(r.heap, (live \ {l}) \cup {o})
        /\ Sized(r.heap, (live \ {l}) \cup {o})
    BY <2>6, <2>7 DEF Backed, Sized
  <2>9. \A m \in (live \ {l}) \cup {o} : m.lo - HeaderSize # l.lo - HeaderSize
    BY <1>1, <2>4, <2>5, <2>7
  <2> QED
    BY <2>1, <2>2, <2>8, <2>9, FreeSized
<1> QED
  BY <1>2, <1>3 DEF Realloc

LEMMA SizedStep ==
  ASSUME SizesFit, HeadTrims = FALSE, ContractInv, [Next]_vars
  PROVE  Sized(heap', live')
<1>1. /\ HeapOK(heap) /\ Backed(heap, live) /\ Sized(heap, live)
      /\ \A l \in live : l.lo \in Nat /\ l.hi \in Nat
      /\ HeaderSize \in Nat \ {0} /\ MMAP_ALIGNMENT \in Nat \ {0}
      /\ DEFAULT_ALIGNMENT \in RequestAlignments
      /\ MMAP_ALIGNMENT \in RequestAlignments
      /\ Alignments \subseteq RequestAlignments
      /\ \A n \in Sizes : /\ RequestFits(n)
                          /\ \A c \in Counts : RequestFits(Word(c * n))
                          /\ RequestFits(rounded(n))
  BY Before
<1>2. ASSUME NEW n, NEW align \in RequestAlignments, NEW kind, NEW data,
             RequestFits(n), Hand(arena_alloc(heap, n, align), n, kind, data)
      PROVE  Sized(heap', live')
  BY <1>2, HandSized
<1>3. ASSUME NEW n \in Sizes,
             \/ Malloc(n)
             \/ Mmap(n)
             \/ \E c \in Counts : Calloc(c, n)
             \/ \E a \in Alignments : PosixMemalign(a, n) \/ AlignedAlloc(a, n)
             \/ \E f \in Files \cup {NoFile}, o \in Offsets : MmapFile(n, f, o)
      PROVE  Sized(heap', live')
  BY <1>1, <1>2, <1>3
     DEF Malloc, Mmap, Calloc, PosixMemalign, AlignedAlloc, MmapFile, malloc, map_pages
<1>4. ASSUME NEW n \in Sizes, NEW l \in live, Realloc(l, n)
      PROVE  Sized(heap', live')
  BY <1>4, ReallocSized
<1>5. ASSUME NEW l \in live, FreeHeap(l) \/ UnmapWhole(l)
      PROVE  Sized(heap', live')
  <2>1. heap' = free(heap, l.lo) /\ live' = live \ {l}
    BY <1>5 DEF FreeHeap, UnmapWhole, munmap
  <2>2. Backed(heap, live \ {l}) /\ Sized(heap, live \ {l})
    BY <1>1 DEF Backed, Sized
  <2>3. \A m \in live \ {l} : m.lo # l.lo
    BY <1>1 DEF Backed
  <2>4. \A m \in live \ {l} : m.lo - HeaderSize # l.lo - HeaderSize
    BY <1>1, <2>3
  <2> QED
    BY <1>1, <2>1, <2>2, <2>4, FreeSized
<1>6. ASSUME NEW l \in live, UnmapTail(l, MMAP_ALIGNMENT)
      PROVE  Sized(heap', live')
  <2> DEFINE p == l.hi + 1 - MMAP_ALIGNMENT
             o == [l EXCEPT !.hi = @ - MMAP_ALIGNMENT]
  <2>1. /\ MMAP_ALIGNMENT < l.hi + 1 - l.lo /\ heap' = free(heap, p)
        /\ live' = (live \ {l}) \cup {o}
    BY <1>6 DEF UnmapTail, munmap, Length
  <2>2. p \in Nat /\ l.lo < p /\ p <= l.hi
    BY <1>1, <2>1
  <2>3. heap' = heap
    BY <1>1, <2>1, <2>2, TailIsForeign
  <2>4. o.lo = l.lo /\ o.hi = l.hi - MMAP_ALIGNMENT
    <3>1. l \in OwnedTypes
      BY Before
    <3> QED
      BY <3>1 DEF OwnedTypes
  <2> HIDE DEF o
  <2>5. heap.header[l.lo - HeaderSize].size \in Nat
    BY <1>1 DEF Backed, HeapOK, HeapTypeOK, BlockTypes
  <2>6. l.hi < l.lo + heap.header[l.lo - HeaderSize].size
    BY <1>1 DEF Sized
  <2>7. l.hi - MMAP_ALIGNMENT < l.lo + heap.header[l.lo - HeaderSize].size
    BY <1>1, <2>5, <2>6
  <2> QED
    BY <1>1, <2>1, <2>3, <2>4, <2>7 DEF Sized
<1>7. ASSUME NEW p \in ArenaBase .. ArenaEnd, FreeStray(p)
      PROVE  Sized(heap', live')
  <2>1. /\ heap' = free(heap, p) /\ live' = live
        /\ \A m \in live : m.lo # p
    BY <1>7 DEF FreeStray
  <2>2. \A m \in live : m.lo - HeaderSize # p - HeaderSize
    BY <1>1, <2>1, ConstantsAssumption
  <2> QED
    BY <1>1, <2>1, <2>2, FreeSized
<1>8. ASSUME NEW l \in live, UnmapHead(l, MMAP_ALIGNMENT)
      PROVE  FALSE
  BY <1>8 DEF UnmapHead
<1>9. CASE UNCHANGED vars \/ \E l \in live : Write(l)
  BY <1>1, <1>9 DEF vars, Write
<1> QED
  BY <1>3, <1>4, <1>5, <1>6, <1>7, <1>8, <1>9 DEF Next

-----------------------------------------------------------------------------
(* The contents of what is owned.                                           *)

Content(B, L) == B \cap UNION {l.lo .. l.hi : l \in L}

(* The contents that the contract sees.                                     *)
LEMMA ContentOf ==
  ASSUME NEW B, NEW L, NEW m \in L
  PROVE  Content(B, L) \cap (m.lo .. m.hi) = B \cap (m.lo .. m.hi)
BY DEF Content

(* Ranges of different owners are apart.                                    *)
LEMMA ContractApart ==
  ASSUME NEW h, NEW L, HeapOK(h), Backed(h, L), NEW l \in L, NEW m \in L, l # m
  PROVE  Contract!Apart(l, m)
<1>1. l.lo \in Nat /\ m.lo \in Nat /\ l.hi \in Nat /\ m.hi \in Nat
  BY DEF Backed, OwnedTypes
<1>2. l.lo # m.lo /\ (l.hi < m.lo \/ m.hi < l.lo)
  BY BackedApart
<1>3. (l.lo .. l.hi) \cap (m.lo .. m.hi) = {}
  BY <1>1, <1>2
<1> QED
  BY <1>2, <1>3 DEF Contract!Apart, Contract!RangeOf

LEMMA ContractFits ==
  ASSUME NEW h, NEW L, HeapOK(h), Backed(h, L), NEW l \in L
  PROVE  Contract!Fits(l)
<1> DEFINE a == l.lo - HeaderSize
           c == h.header[a].capacity
<1>1. /\ l.lo \in Nat /\ l.hi \in Nat /\ HeaderSize \in Nat /\ ArenaBase \in Nat
      /\ ArenaSize \in Nat /\ a \in DOMAIN h.header
  BY ConstantsAssumption DEF Backed, OwnedTypes
<1>2. c \in Nat /\ h.offset \in 0 .. ArenaSize
  BY <1>1 DEF HeapOK, HeapTypeOK, BlockTypes
<1>3. ArenaBase <= a /\ a + HeaderSize + c <= ArenaBase + h.offset
  BY <1>1 DEF HeapOK, BlocksApart, BlockEnd
<1>4. l.hi < l.lo + c
  BY DEF Backed
<1> HIDE DEF c
<1>5. ArenaBase <= l.lo /\ l.hi <= ArenaBase + ArenaSize - 1
  BY <1>1, <1>2, <1>3, <1>4
<1>6. ArenaEnd \in Nat /\ ArenaBase <= l.lo /\ l.hi <= ArenaEnd - 1
  BY <1>1, <1>5 DEF ArenaEnd
<1>7. (l.lo .. l.hi) \subseteq ArenaBase .. (ArenaEnd - 1)
  BY <1>1, <1>6
<1> QED
  BY <1>7 DEF Contract!Fits, Contract!RangeOf

(* What a step leaves in the memory of the others, their readers see.       *)
LEMMA ContractUntouched ==
  ASSUME NEW S,
         \A m \in live \ S : /\ m \in live'
                             /\ bytes' \cap (m.lo .. m.hi) = bytes \cap (m.lo .. m.hi)
  PROVE  Contract!Untouched(S)
<1>1. ASSUME NEW m \in live \ S
      PROVE  Content(bytes', live') \cap (m.lo .. m.hi) =
               Content(bytes, live) \cap (m.lo .. m.hi)
  BY ContentOf
<1> QED
  BY <1>1 DEF Contract!Untouched, Contract!RangeOf, Content

(* A store within o reaches nobody else.                                    *)
LEMMA OthersKept ==
  ASSUME NEW h, NEW L, HeapOK(h), Backed(h, L), NEW o \in L,
         \A x : x \notin o.lo .. o.hi => (x \in bytes' <=> x \in bytes),
         NEW m \in L, m # o
  PROVE  bytes' \cap (m.lo .. m.hi) = bytes \cap (m.lo .. m.hi)
<1>1. (m.lo .. m.hi) \cap (o.lo .. o.hi) = {}
  BY ContractApart DEF Contract!Apart, Contract!RangeOf
<1> QED
  BY <1>1

-----------------------------------------------------------------------------
(* Each call is a step of the contract, or changes nothing callers can see. *)

(* Each call as a step of the contract.                                     *)
LEMMA HandGrants ==
  ASSUME NEW n, NEW align, NEW kind \in {"malloc", "mmap"}, NEW data \in Int,
         SizesFit, ContractInv, RequestFits(n), align \in RequestAlignments,
         NEW r, r = arena_alloc(heap, n, align), Hand(r, n, kind, data),
         HeapOK(heap'), Backed(heap', live'),
         r.ptr = NULL => bytes' = bytes,
         r.ptr # NULL =>
           \A x : x \notin Span(r.ptr, n) => (x \in bytes' <=> x \in bytes),
         r.ptr # NULL /\ data # Unspecified =>
           bytes' \cap Span(r.ptr, n) = Span(r.ptr, data)
  PROVE  Contract!Grant \/ UNCHANGED <<live, bytes>>
<1> DEFINE o == Owned(r.ptr, n, kind, data)
<1>1. live' = IF r.ptr = NULL THEN live ELSE live \cup {o}
  BY DEF Hand
<1>2. CASE r.ptr = NULL
  BY <1>1, <1>2
<1>3. CASE r.ptr # NULL
  <2>1. /\ HeapOK(heap) /\ Backed(heap, live) /\ n \in Nat
        /\ HeapOK(r.heap) /\ Handed(heap, r, n)
    BY Before, EveryRequest DEF RequestFits
  <2>2. r.ptr \in Nat \ {0}
    BY <1>3, <2>1 DEF Handed, NULL
  <2>3. /\ o \in OwnedTypes /\ o.lo = r.ptr /\ o.hi = r.ptr + n - 1
        /\ o.data = data /\ Span(o.lo, n) = o.lo .. o.hi
    BY <2>1, <2>2 DEF Owned, OwnedTypes, Span
  <2> HIDE DEF o
  <2>4. \A m \in live : m # o
    BY <1>3, <2>1, <2>3, HandedBacked
  <2>5. live' = live \cup {o} /\ o \in live' \ live
    BY <1>1, <1>3, <2>4
  <2>6. Contract!Fits(o) /\ \A m \in live : Contract!Apart(o, m)
    BY <2>4, <2>5, ContractFits, ContractApart
  <2>7. \A x : x \notin o.lo .. o.hi => (x \in bytes' <=> x \in bytes)
    BY <1>3, <2>3
  <2>8. Contract!Untouched({})
    <3>1. \A m \in live :
            m \in live' /\ bytes' \cap (m.lo .. m.hi) = bytes \cap (m.lo .. m.hi)
      BY <2>4, <2>5, <2>7, OthersKept
    <3> QED
      BY <3>1, ContractUntouched
  <2>9. o.data # Unspecified => Contract!ReadsAs(o, o.data)
    <3>1. o.data # Unspecified =>
            Content(bytes', live') \cap (o.lo .. o.hi) = Span(o.lo, o.data)
      <4>1. SUFFICES ASSUME o.data # Unspecified
                     PROVE  Content(bytes', live') \cap (o.lo .. o.hi) = Span(o.lo, o.data)
        OBVIOUS
      <4>2. Content(bytes', live') \cap (o.lo .. o.hi) = bytes' \cap (o.lo .. o.hi)
        BY <2>5, ContentOf
      <4>3. bytes' \cap (o.lo .. o.hi) = Span(o.lo, o.data)
        BY <1>3, <2>3, <4>1
      <4> QED BY <4>2, <4>3
    <3> QED
      BY <3>1 DEF Contract!ReadsAs, Contract!RangeOf, Content, Span
  <2> QED
    BY <2>5, <2>6, <2>8, <2>9 DEF Contract!Grant
<1> QED
  BY <1>2, <1>3

(* Giving up a range changes no byte.                                       *)
LEMMA Releases ==
  ASSUME NEW l \in live, live' = live \ {l}, bytes' = bytes
  PROVE  Contract!Release
<1>1. Contract!Untouched({l})
  BY ContractUntouched
<1> QED
  BY <1>1 DEF Contract!Release

(* A range becomes another that starts with the same bytes.                 *)
LEMMA Resizes ==
  ASSUME NEW l \in live, NEW o, live' = (live \ {l}) \cup {o}, o # l,
         HeapOK(heap'), Backed(heap', live'),
         \A m \in live \ {l} : m.lo # o.lo,
         \A k \in 0 .. (l.hi - l.lo) :
           o.lo + k <= o.hi => (o.lo + k \in bytes' <=> l.lo + k \in bytes),
         l.lo \in Nat, l.hi \in Nat, o.lo \in Nat, o.hi \in Nat,
         \A m \in live \ {l} :
           bytes' \cap (m.lo .. m.hi) = bytes \cap (m.lo .. m.hi)
  PROVE  Contract!Resize
<1>1. l \in live \ live' /\ o \in live'
  OBVIOUS
<1>2. Contract!Fits(o) /\ \A m \in live \ {l} : Contract!Apart(o, m)
  <2>1. \A m \in live \ {l} : m # o
    OBVIOUS
  <2> QED
    BY <1>1, <2>1, ContractFits, ContractApart
<1>3. Contract!Untouched({l})
  BY ContractUntouched
<1>4. ASSUME NEW k \in 0 .. (l.hi - l.lo), o.lo + k <= o.hi
      PROVE  o.lo + k \in Content(bytes', live') <=> l.lo + k \in Content(bytes, live)
  <2>1. o.lo + k \in o.lo .. o.hi /\ l.lo + k \in l.lo .. l.hi
    BY <1>4
  <2>2. /\ o.lo + k \in Content(bytes', live') <=> o.lo + k \in bytes'
        /\ l.lo + k \in Content(bytes, live) <=> l.lo + k \in bytes
    BY <1>1, <2>1 DEF Content
  <2>3. o.lo + k \in bytes' <=> l.lo + k \in bytes
    BY <1>4
  <2> QED
    BY <2>2, <2>3
<1> QED
  BY <1>1, <1>2, <1>3, <1>4 DEF Contract!Resize, Content

(* The tail of a range is given up.                                         *)
LEMMA Trims ==
  ASSUME NEW l \in live, NEW o, live' = (live \ {l}) \cup {o}, o # l, bytes' = bytes,
         (o.lo .. o.hi) \subseteq (l.lo .. l.hi)
  PROVE  Contract!Trim
<1>1. l \in live \ live' /\ o \in live'
  OBVIOUS
<1>2. Content(bytes', live') \cap (o.lo .. o.hi) = Content(bytes, live) \cap (o.lo .. o.hi)
  <2>1. Content(bytes', live') \cap (o.lo .. o.hi) = bytes \cap (o.lo .. o.hi)
    BY <1>1, ContentOf
  <2>2. Content(bytes, live) \cap (l.lo .. l.hi) = bytes \cap (l.lo .. l.hi)
    BY ContentOf
  <2> QED
    BY <2>1, <2>2
<1>3. Contract!Untouched({l})
  BY ContractUntouched
<1> QED
  BY <1>1, <1>2, <1>3 DEF Contract!Trim, Contract!RangeOf, Content

(* memcpy changes the target alone, and the target starts as the source.    *)
LEMMA Copies ==
  ASSUME NEW B, NEW to \in Nat, NEW from \in Nat, NEW n \in Nat
  PROVE  /\ \A x : x \notin to .. (to + n - 1) => (x \in memcpy(B, to, from, n) <=> x \in B)
         /\ \A k \in 0 .. (n - 1) : to + k \in memcpy(B, to, from, n) <=> from + k \in B
<1>1. ASSUME NEW x, x \notin to .. (to + n - 1)
      PROVE  x \in memcpy(B, to, from, n) <=> x \in B
  <2>1. \A y \in Span(from, n) : to + (y - from) \in to .. (to + n - 1)
    BY DEF Span
  <2> QED
    BY <1>1, <2>1 DEF memcpy, Span
<1>2. ASSUME NEW k \in 0 .. (n - 1)
      PROVE  to + k \in memcpy(B, to, from, n) <=> from + k \in B
  <2>1. to + k \in Span(to, n) /\ from + k \in Span(from, n)
    BY DEF Span
  <2>2. \A y \in Span(from, n) : to + (y - from) = to + k <=> y = from + k
    BY DEF Span
  <2>3. to + (from + k - from) = to + k
    OBVIOUS
  <2> QED
    BY <2>1, <2>2, <2>3 DEF memcpy
<1> QED
  BY <1>1, <1>2

LEMMA ReallocResizes ==
  ASSUME NEW n \in Sizes, NEW l \in live, SizesFit, ContractInv, Realloc(l, n),
         HeapOK(heap'), Backed(heap', live')
  PROVE  Contract!Resize \/ UNCHANGED <<live, bytes>>
<1>1. /\ HeapOK(heap) /\ Backed(heap, live) /\ Sized(heap, live)
      /\ n \in Nat /\ RequestFits(n)
      /\ l.lo \in Nat /\ l.hi \in Nat /\ HeaderSize \in Nat \ {0}
      /\ DEFAULT_ALIGNMENT \in RequestAlignments
      /\ \A m \in live \ {l} : m.lo # l.lo
  BY Before DEF Backed
<1>2. CASE ReallocInPlace(l, n)
  <2> DEFINE o == Owned(l.lo, n, "malloc", Unspecified)
  <2>1. live' = (live \ {l}) \cup {o} /\ bytes' = bytes /\ n # 0
    BY <1>2 DEF ReallocInPlace
  <2>2. o.lo = l.lo /\ o.hi = l.lo + n - 1 /\ o.hi \in Nat
    BY <1>1, <2>1 DEF Owned
  <2> HIDE DEF o
  <2>3. CASE o = l
    BY <2>1, <2>3
  <2>4. CASE o # l
    <3>1. \A m \in live \ {l} : m.lo # o.lo
      BY <1>1, <2>2
    <3>2. \A m \in live \ {l} : bytes' \cap (m.lo .. m.hi) = bytes \cap (m.lo .. m.hi)
      BY <2>1
    <3>3. \A k \in 0 .. (l.hi - l.lo) :
            o.lo + k <= o.hi => (o.lo + k \in bytes' <=> l.lo + k \in bytes)
      BY <2>1, <2>2
    <3> QED
      BY <1>1, <2>1, <2>2, <2>4, <3>1, <3>2, <3>3, Resizes
  <2> QED
    BY <2>3, <2>4
<1>3. CASE ReallocMove(l, n)
  <2> DEFINE r == malloc(heap, n)
             o == Owned(r.ptr, n, "malloc", Unspecified)
             old_size == heap.header[l.lo - HeaderSize].size
             len == AtMost(old_size, n)
  <2>1. /\ r.ptr # NULL /\ live' = (live \ {l}) \cup {o} /\ n # 0
        /\ bytes' = memcpy(bytes, r.ptr, l.lo, len)
    BY <1>3 DEF ReallocMove
  <2>2. HeapOK(r.heap) /\ Handed(heap, r, n)
    BY <1>1, EveryRequest DEF malloc
  <2> HIDE DEF r
  <2>3. r.ptr \in Nat \ {0}
    BY <2>1, <2>2 DEF Handed, NULL
  <2>4. o \in OwnedTypes /\ o.lo = r.ptr /\ o.hi = r.ptr + n - 1 /\ o.hi \in Nat
    BY <1>1, <2>1, <2>3 DEF Owned, OwnedTypes, Unspecified
  <2> HIDE DEF o
  <2>5. \A m \in live : m.lo # o.lo
    <3>1. /\ HeapOK(heap) /\ HeapOK(r.heap) /\ Backed(heap, live)
          /\ Handed(heap, r, n) /\ r.ptr # NULL /\ n \in Nat
      BY <1>1, <2>1, <2>2
    <3>2. o \in OwnedTypes /\ o.lo = r.ptr /\ o.hi = r.ptr + n - 1
      BY <2>4
    <3> QED
      BY <3>1, <3>2, HandedBacked
  <2>6. old_size \in Nat /\ l.hi < l.lo + old_size
    BY <1>1 DEF Backed, HeapOK, HeapTypeOK, BlockTypes, Sized
  <2> HIDE DEF old_size
  <2>7. /\ len \in Nat /\ len <= n
        /\ \A k \in 0 .. (l.hi - l.lo) : k < n => k \in 0 .. (len - 1)
    BY <1>1, <2>6 DEF AtMost
  <2> HIDE DEF len
  <2>8. \A x : x \notin o.lo .. o.hi => (x \in bytes' <=> x \in bytes)
    <3>1. o.lo .. (o.lo + len - 1) \subseteq o.lo .. o.hi
      BY <1>1, <2>3, <2>4, <2>7
    <3>2. \A x : x \notin o.lo .. (o.lo + len - 1) => (x \in bytes' <=> x \in bytes)
      BY <1>1, <2>1, <2>3, <2>4, <2>7, Copies
    <3> QED
      BY <3>1, <3>2
  <2>9. \A m \in live \ {l} : bytes' \cap (m.lo .. m.hi) = bytes \cap (m.lo .. m.hi)
    BY <2>1, <2>5, <2>8, OthersKept
  <2>10. ASSUME NEW k \in 0 .. (l.hi - l.lo), o.lo + k <= o.hi
         PROVE  o.lo + k \in bytes' <=> l.lo + k \in bytes
    <3>1. k < n /\ k \in Nat
      BY <1>1, <2>3, <2>4, <2>10
    <3>2. k \in 0 .. (len - 1)
      BY <2>7, <3>1
    <3> QED
      BY <1>1, <2>1, <2>3, <2>4, <2>7, <3>2, Copies
  <2> QED
    BY <1>1, <2>1, <2>3, <2>4, <2>5, <2>9, <2>10, Resizes
<1> QED
  BY <1>2, <1>3 DEF Realloc

LEMMA MapFileGrants ==
  ASSUME NEW n \in Sizes, NEW f \in Files \cup {NoFile}, NEW off \in Offsets,
         MmapFile(n, f, off), SizesFit, ContractInv, HeapOK(heap'), Backed(heap', live')
  PROVE  Contract!Grant \/ UNCHANGED <<live, bytes>>
<1> DEFINE available == AtMost(f - off, n)
           r == map_pages(rounded(n))
<1>1. /\ n \in Nat /\ rounded(n) \in Nat /\ RequestFits(rounded(n))
      /\ MMAP_ALIGNMENT \in RequestAlignments
  BY Before DEF RequestFits
<1>2. /\ rounded(n) # 0 /\ off \in Nat /\ f \in Nat /\ off <= f
      /\ Hand(r, rounded(n), "mmap", available)
      /\ bytes' = IF r.ptr = NULL THEN bytes
                  ELSE memset(bytes, r.ptr, rounded(n)) \cup Span(r.ptr, available)
  BY ConstantsAssumption DEF MmapFile
<1>3. n <= rounded(n)
  <2> DEFINE d == align_down(Word(n + MMAP_ALIGNMENT - 1), MMAP_ALIGNMENT)
  <2>1. d \in Int
    <3>1. n + MMAP_ALIGNMENT - 1 \in Int /\ MMAP_ALIGNMENT \in Nat \ {0}
      BY <1>1, ConstantsAssumption
    <3>2. Word(n + MMAP_ALIGNMENT - 1) \in Int
      BY <3>1, WordArithmetic
    <3> HIDE DEF d
    <3> QED
      BY <3>1, <3>2 DEF align_down, d
  <2>2. rounded(n) = IF d < n THEN 0 ELSE d
    BY DEF rounded
  <2> HIDE DEF d
  <2> QED
    BY <1>1, <1>2, <2>1, <2>2
<1>4. available \in 0 .. rounded(n)
  BY <1>1, <1>2, <1>3 DEF AtMost
<1> HIDE DEF available
<1>5. r = arena_alloc(heap, rounded(n), MMAP_ALIGNMENT)
  BY DEF map_pages
<1> HIDE DEF r
<1>6. r.ptr \in Nat
  BY <1>1, <1>5, Before, EveryRequest DEF Handed, NULL
<1>7. Span(r.ptr, available) \subseteq Span(r.ptr, rounded(n))
  BY <1>1, <1>4, <1>6 DEF Span
<1>8. /\ r.ptr # NULL => \A x : x \notin Span(r.ptr, rounded(n)) =>
                                  (x \in bytes' <=> x \in bytes)
      /\ r.ptr # NULL => bytes' \cap Span(r.ptr, rounded(n)) = Span(r.ptr, available)
  BY <1>2, <1>7 DEF memset
<1>9. available \in Int
  BY <1>4
<1> QED
  BY <1>1, <1>2, <1>5, <1>8, <1>9, HandGrants

LEMMA ContractStep ==
  ASSUME SizesFit, HeadTrims = FALSE, ContractInv, [Next]_vars
  PROVE  Contract!ContractNext \/ UNCHANGED <<live, bytes>>
<1>1. HeapOK(heap') /\ Backed(heap', live')
  BY OwnershipStep DEF ContractInv
<1>2. /\ \A l \in live : l.lo \in Nat /\ l.hi \in Nat
      /\ MMAP_ALIGNMENT \in Nat \ {0}
      /\ DEFAULT_ALIGNMENT \in RequestAlignments
      /\ MMAP_ALIGNMENT \in RequestAlignments
      /\ Alignments \subseteq RequestAlignments
      /\ Unspecified \in Int
      /\ \A n \in Sizes : /\ RequestFits(n)
                          /\ \A c \in Counts : RequestFits(Word(c * n))
                          /\ RequestFits(rounded(n))
  BY Before DEF Unspecified
<1>3. ASSUME NEW n, NEW align \in RequestAlignments, RequestFits(n),
             Hand(arena_alloc(heap, n, align), n, "malloc", Unspecified),
             bytes' = bytes
      PROVE  Contract!Grant \/ UNCHANGED <<live, bytes>>
  BY <1>1, <1>2, <1>3, HandGrants
<1>4. ASSUME NEW n, NEW align \in RequestAlignments, RequestFits(n),
             NEW kind \in {"malloc", "mmap"}, NEW r, r = arena_alloc(heap, n, align),
             Hand(r, n, kind, 0),
             bytes' = IF r.ptr = NULL THEN bytes ELSE memset(bytes, r.ptr, n)
      PROVE  Contract!Grant \/ UNCHANGED <<live, bytes>>
  <2>1. r.ptr \in Nat
    BY <1>4, Before, EveryRequest DEF Handed, NULL
  <2>2. Span(r.ptr, 0) = {}
    BY <2>1 DEF Span
  <2>3. \A x : x \notin Span(r.ptr, n) => (x \in bytes' <=> x \in bytes)
    BY <1>4 DEF memset
  <2>4. r.ptr # NULL => bytes' \cap Span(r.ptr, n) = Span(r.ptr, 0)
    BY <1>4, <2>2 DEF memset
  <2> QED
    BY <1>1, <1>4, <2>3, <2>4, HandGrants
<1>5. ASSUME NEW n \in Sizes, Malloc(n)
      PROVE  Contract!Grant \/ UNCHANGED <<live, bytes>>
  BY <1>2, <1>3, <1>5 DEF Malloc, malloc
<1>6. ASSUME NEW n \in Sizes, NEW a \in Alignments, PosixMemalign(a, n) \/ AlignedAlloc(a, n)
      PROVE  Contract!Grant \/ UNCHANGED <<live, bytes>>
  BY <1>2, <1>3, <1>6 DEF PosixMemalign, AlignedAlloc
<1>7. ASSUME NEW n \in Sizes, NEW c \in Counts, Calloc(c, n)
      PROVE  Contract!Grant \/ UNCHANGED <<live, bytes>>
  BY <1>2, <1>4, <1>7 DEF Calloc, malloc
<1>8. ASSUME NEW n \in Sizes, Mmap(n)
      PROVE  Contract!Grant \/ UNCHANGED <<live, bytes>>
  BY <1>2, <1>4, <1>8 DEF Mmap, map_pages
<1>9. ASSUME NEW n \in Sizes, NEW f \in Files \cup {NoFile}, NEW o \in Offsets,
             MmapFile(n, f, o)
      PROVE  Contract!Grant \/ UNCHANGED <<live, bytes>>
  BY <1>1, <1>9, MapFileGrants
<1>10. ASSUME NEW n \in Sizes, NEW l \in live, Realloc(l, n)
       PROVE  Contract!Resize \/ UNCHANGED <<live, bytes>>
  BY <1>1, <1>10, ReallocResizes
<1>11. ASSUME NEW l \in live, FreeHeap(l) \/ UnmapWhole(l)
       PROVE  Contract!Release
  BY <1>11, Releases DEF FreeHeap, UnmapWhole
<1>12. ASSUME NEW l \in live, UnmapTail(l, MMAP_ALIGNMENT)
       PROVE  Contract!Trim
  <2> DEFINE o == [l EXCEPT !.hi = @ - MMAP_ALIGNMENT]
  <2>1. live' = (live \ {l}) \cup {o} /\ bytes' = bytes
    BY <1>12 DEF UnmapTail
  <2>2. o.lo = l.lo /\ o.hi = l.hi - MMAP_ALIGNMENT
    <3>1. l \in OwnedTypes
      BY Before
    <3> QED
      BY <3>1 DEF OwnedTypes
  <2> HIDE DEF o
  <2>3. o # l /\ (o.lo .. o.hi) \subseteq (l.lo .. l.hi)
    BY <1>2, <2>2
  <2> QED
    BY <2>1, <2>3, Trims
<1>13. ASSUME NEW l \in live, UnmapHead(l, MMAP_ALIGNMENT)
       PROVE  FALSE
  BY <1>13 DEF UnmapHead
<1>14. ASSUME NEW l \in live, Write(l)
       PROVE  Contract!Scribble
  <2>1. live' = live /\ bytes' = bytes \cup (l.lo .. l.hi)
    BY <1>14 DEF Write
  <2>2. \A x : x \notin l.lo .. l.hi => (x \in bytes' <=> x \in bytes)
    BY <2>1
  <2>3. \A m \in live \ {l} : bytes' \cap (m.lo .. m.hi) = bytes \cap (m.lo .. m.hi)
    BY <2>2, Before, OthersKept
  <2>4. Contract!Untouched({l})
    BY <2>1, <2>3, ContractUntouched
  <2> QED
    BY <2>1, <2>4 DEF Contract!Scribble
<1>15. ASSUME NEW p, FreeStray(p)
       PROVE  UNCHANGED <<live, bytes>>
  BY <1>15 DEF FreeStray
<1>16. CASE UNCHANGED vars
  BY <1>16 DEF vars
<1> QED
  BY <1>5, <1>6, <1>7, <1>8, <1>9, <1>10, <1>11, <1>12, <1>13, <1>14, <1>15, <1>16
     DEF Next, Contract!ContractNext

(* The allocator implements what its callers rely on: ranges never overlap, *)
(* mappings and calloc read as zero or as the file, realloc keeps the       *)
(* prefix, and no call disturbs a byte that somebody else owns, as long as  *)
(* no mapping loses its head (ruby_alloc.c:119-232, 234-422).               *)
THEOREM ImplementsContract ==
  ASSUME SizesFit, HeadTrims = FALSE
  PROVE  Spec => KeepsContract
<1>1. Init => ContractInv /\ Contract!ContractInit
  <2> SUFFICES ASSUME Init PROVE ContractInv /\ Contract!ContractInit
    OBVIOUS
  <2>1. HeapOK(heap)
    BY HeapInit
  <2>2. live = {} /\ bytes = {}
    BY DEF Init
  <2>3. ContractInv
    BY <2>1, <2>2 DEF ContractInv, OwnershipInv, Backed, Sized
  <2> QED
    BY <2>2, <2>3 DEF Contract!ContractInit
<1>2. ContractInv /\ [Next]_vars => ContractInv'
  <2> SUFFICES ASSUME ContractInv, [Next]_vars
               PROVE  ContractInv'
    OBVIOUS
  <2>1. HeapOK(heap') /\ Backed(heap', live') /\ bytes' \subseteq Nat
    BY OwnershipStep DEF ContractInv
  <2>2. Sized(heap', live')
    BY SizedStep
  <2>3. OwnershipInv'
    BY <2>1 DEF OwnershipInv, Backed, HeapOK, HeapTypeOK, BlocksApart, BlockEnd,
                FreeListOfFree
  <2> QED
    BY <2>2, <2>3 DEF ContractInv, Sized
<1>3. ContractInv /\ [Next]_vars => [Contract!ContractNext]_(Contract!contractVars)
  BY ContractStep DEF Contract!contractVars
<1> QED
  BY <1>1, <1>2, <1>3, PTL DEF Spec, KeepsContract, Contract!Spec
=============================================================================
