--------------------------- MODULE RubyAllocProofs ---------------------------
(***************************************************************************)
(* Proofs about the allocator for every arena, word size, page size and     *)
(* set of request sizes that stay clear of the top of the address space.    *)
(***************************************************************************)
EXTENDS RubyAlloc, SequenceTheorems, WellFoundedInduction, TLAPS

(* A size with room for a header below the largest size_t.                  *)
RequestFits(n) == n \in Nat /\ n + HeaderSize < WordSize

(* Every size that can reach arena_alloc fits: plain requests, calloc       *)
(* products and page-rounded lengths.  The finding about sizes that wrap    *)
(* shows that the results below need it.                                    *)
SizesFit ==
  \A n \in Sizes :
    /\ n + HeaderSize < WordSize
    /\ \A c \in Counts : Word(c * n) + HeaderSize < WordSize
    /\ rounded(n) + HeaderSize < WordSize

RequestAlignments == Alignments \cup {DEFAULT_ALIGNMENT, MMAP_ALIGNMENT}

HeapOK(h) == HeapTypeOK(h) /\ BlocksApart(h) /\ FreeListOfFree(h)

(* Headers lie at natural numbers and say how much their blocks hold.       *)
LEMMA HeaderTypes ==
  ASSUME NEW h, HeapOK(h), NEW c \in DOMAIN h.header
  PROVE  c \in Nat /\ h.header[c].capacity \in Nat
<1>1. c \in Nat /\ h.header[c] \in BlockTypes
  BY DEF HeapOK, HeapTypeOK
<1> QED
  BY <1>1 DEF BlockTypes

-----------------------------------------------------------------------------
(* Arithmetic.                                                              *)

(* The remainder lies below the modulus, and a word is its own remainder.   *)
LEMMA WordArithmetic ==
  /\ \A x \in Int : Word(x) \in 0 .. (WordSize - 1)
  /\ \A x \in 0 .. (WordSize - 1) : Word(x) = x
  /\ \A x \in WordSize .. (2 * WordSize - 1) : Word(x) = x - WordSize
BY ConstantsAssumption DEF Word

(* Aligning upwards never moves an address down when it does not wrap.      *)
LEMMA AlignUp ==
  ASSUME NEW v \in Nat, NEW a \in Nat \ {0}, v + a - 1 < WordSize
  PROVE  /\ align_up(v, a) \in Nat
         /\ v <= align_up(v, a)
         /\ align_up(v, a) <= v + a - 1
<1> DEFINE x == v + a - 1
<1>1. x \in Nat /\ Word(x) = x
  BY WordArithmetic, ConstantsAssumption
<1>2. x % a \in 0 .. (a - 1) /\ x % a <= x
  BY <1>1
<1>3. align_up(v, a) = x - (x % a)
  BY <1>1 DEF align_up, align_down
<1> QED
  BY <1>1, <1>2, <1>3

(* The numbers that a divides are those whose remainder is 0, and between   *)
(* two of them there is a distance of a.                                    *)
LEMMA Multiples ==
  ASSUME NEW a \in Nat \ {0}, NEW x \in Nat, NEW y \in Nat
  PROVE  /\ (x - (x % a)) % a = 0
         /\ x % a = 0 /\ y % a = 0 /\ x < y => x <= y - a
<1> DEFINE j == x \div a
           k == y \div a
<1>1. /\ j \in Nat /\ x % a \in 0 .. (a - 1) /\ x = a * j + (x % a)
      /\ k \in Nat /\ y % a \in 0 .. (a - 1) /\ y = a * k + (y % a)
  OBVIOUS
<1> HIDE DEF j, k
<1>2. (a * j) % a = 0
  <2> DEFINE m == a * j
             d == m \div a
             r == m % a
  <2>1. m \in Nat /\ d \in Nat /\ r \in 0 .. (a - 1) /\ m = a * d + r
    BY <1>1
  <2>2. m = a * j
    OBVIOUS
  <2> HIDE DEF m, d, r
  <2>3. r = a * j - a * d
    BY <1>1, <2>1, <2>2
  <2>4. CASE j = d
    BY <1>1, <2>1, <2>3, <2>4 DEF m, r
  <2>5. CASE j >= d + 1
    <3>1. a * j >= a * (d + 1) /\ a * (d + 1) = a * d + a
      BY <1>1, <2>1, <2>5
    <3> QED
      BY <1>1, <2>1, <2>3, <3>1
  <2>6. CASE d >= j + 1
    <3>1. a * d >= a * (j + 1) /\ a * (j + 1) = a * j + a
      BY <1>1, <2>1, <2>6
    <3> QED
      BY <1>1, <2>1, <2>3, <3>1
  <2> QED
    BY <1>1, <2>1, <2>4, <2>5, <2>6
<1>3. (x - (x % a)) % a = 0
  <2>1. x - (x % a) = a * j
    BY <1>1
  <2> QED
    BY <1>2, <2>1
<1>4. ASSUME x % a = 0, y % a = 0, x < y
      PROVE  x <= y - a
  <2>1. x = a * j /\ y = a * k
    BY <1>1, <1>4
  <2>2. j < k
    BY <1>1, <1>4, <2>1
  <2>3. a * (j + 1) <= a * k
    BY <1>1, <2>2
  <2>4. a * (j + 1) = a * j + a
    BY <1>1
  <2> QED
    BY <1>1, <2>1, <2>3, <2>4
<1> QED
  BY <1>3, <1>4

(* Aligning upwards finds the first address that is aligned.                *)
LEMMA AlignsLeast ==
  ASSUME NEW v \in Nat, NEW a \in Nat \ {0}, v + a - 1 < WordSize
  PROVE  /\ align_up(v, a) % a = 0
         /\ \A p \in Nat : v <= p /\ p % a = 0 => align_up(v, a) <= p
<1> DEFINE x == v + a - 1
           q == align_up(v, a)
<1>1. x \in Nat /\ Word(x) = x
  BY WordArithmetic, ConstantsAssumption
<1>2. q = x - (x % a) /\ q \in Nat /\ q <= x
  BY <1>1, AlignUp DEF align_up, align_down
<1>3. q % a = 0
  BY <1>1, <1>2, Multiples
<1>4. ASSUME NEW p \in Nat, v <= p, p % a = 0, p < q
      PROVE  FALSE
  <2> HIDE DEF q, x
  <2>1. p <= q - a
    BY <1>2, <1>3, <1>4, Multiples
  <2> QED
    BY <1>2, <1>4, <2>1 DEF x
<1> HIDE DEF q
<1>5. \A p \in Nat : v <= p /\ p % a = 0 => q <= p
  BY <1>2, <1>4
<1> QED
  BY <1>3, <1>5 DEF q

(* The header goes at or after the first byte not yet handed out.           *)
LEMMA HeaderPlace ==
  ASSUME NEW h, h.offset \in 0 .. ArenaSize,
         NEW a \in RequestAlignments, a # 0
  PROVE  /\ header_for(h, a) \in 0 .. (WordSize - 1)
         /\ header_for(h, a) >= ArenaBase + h.offset
         /\ header_for(h, a) =
              align_up(ArenaBase + h.offset + HeaderSize, a) - HeaderSize
<1> DEFINE v == ArenaBase + h.offset + HeaderSize
<1>1. a \in Nat \ {0} /\ v \in Nat /\ v + a <= WordSize
  BY ConstantsAssumption, PlacementAssumption DEF RequestAlignments, DEFAULT_ALIGNMENT
<1>2. Word(v) = v
  BY <1>1, WordArithmetic, ConstantsAssumption
<1>3. align_up(v, a) \in Nat /\ v <= align_up(v, a) /\ align_up(v, a) < WordSize
  BY <1>1, AlignUp, ConstantsAssumption
<1>4. align_up(v, a) - HeaderSize \in 0 .. (WordSize - 1)
  BY <1>1, <1>3, ConstantsAssumption
<1>5. header_for(h, a) = align_up(v, a) - HeaderSize
  BY <1>2, <1>4, WordArithmetic DEF header_for
<1> QED
  BY <1>3, <1>4, <1>5, ConstantsAssumption

-----------------------------------------------------------------------------
(* Sequences.                                                               *)

(* What is left of a sequence when one position is removed.                 *)
LEMMA RemoveAtProperties ==
  ASSUME NEW S, NEW s \in Seq(S), NEW i \in 1 .. Len(s)
  PROVE  /\ RemoveAt(s, i) \in Seq(S)
         /\ Len(RemoveAt(s, i)) = Len(s) - 1
         /\ \A j \in 1 .. (Len(s) - 1) :
              RemoveAt(s, i)[j] = IF j < i THEN s[j] ELSE s[j + 1]
<1> DEFINE p == SubSeq(s, 1, i - 1)
           q == SubSeq(s, i + 1, Len(s))
<1>1. Len(s) \in Nat /\ \A j \in 1 .. Len(s) : s[j] \in S
  BY LenProperties, ElementOfSeq
<1>2. /\ p \in Seq(S) /\ Len(p) = i - 1
      /\ \A j \in 1 .. (i - 1) : p[j] = s[j]
  <2>1. \A j \in 1 .. (i - 1) : s[j] \in S
    BY <1>1
  <2> QED
    BY <1>1, <2>1, SubSeqProperties
<1>3. /\ q \in Seq(S) /\ Len(q) = Len(s) - i
      /\ \A j \in 1 .. (Len(s) - i) : q[j] = s[j + i]
  <2>1. \A j \in (i + 1) .. Len(s) : s[j] \in S
    BY <1>1
  <2> QED
    BY <1>1, <2>1, SubSeqProperties
<1>4. RemoveAt(s, i) = p \o q
  BY DEF RemoveAt
<1> HIDE DEF p, q
<1>5. /\ p \o q \in Seq(S)
      /\ Len(p \o q) = Len(p) + Len(q)
      /\ \A j \in 1 .. (Len(p) + Len(q)) :
           (p \o q)[j] = IF j <= Len(p) THEN p[j] ELSE q[j - Len(p)]
  BY <1>2, <1>3, ConcatProperties
<1>6. ASSUME NEW j \in 1 .. (Len(s) - 1)
      PROVE  (p \o q)[j] = IF j < i THEN s[j] ELSE s[j + 1]
  <2>1. CASE j < i
    BY <1>1, <1>2, <1>3, <1>5, <2>1
  <2>2. CASE ~(j < i)
    <3>1. j - (i - 1) \in 1 .. (Len(s) - i)
      BY <1>1, <2>2
    <3>2. q[j - (i - 1)] = s[j + 1]
      BY <1>1, <1>3, <3>1
    <3> QED
      BY <1>1, <1>2, <1>3, <1>5, <2>2, <3>2
  <2> QED
    BY <2>1, <2>2
<1> QED
  BY <1>1, <1>2, <1>3, <1>4, <1>5, <1>6

(* A set of numbers that is not empty has a least element.                  *)
LEMMA LeastNumber ==
  ASSUME NEW T, T \subseteq Nat, T # {}
  PROVE  \E x \in T : \A y \in T : x <= y
<1>1. PICK x \in T : \A y \in T : ~(<<y, x>> \in OpToRel(<, Nat))
  BY NatLessThanWellFounded, WFMin
<1>2. ASSUME NEW y \in T
      PROVE  ~(y < x)
  <2>1. x \in Nat /\ y \in Nat
    OBVIOUS
  <2>2. ~(<<y, x>> \in OpToRel(<, Nat))
    BY <1>1
  <2> QED
    BY <2>1, <2>2, Zenon DEF OpToRel
<1> QED
  BY <1>2

(* What the walk over the free list finds is on it and fits.                *)
LEMMA FirstFit ==
  ASSUME NEW h, h.free_list \in Seq(Nat), NEW size, NEW alignment,
         first_fit(h, size, alignment) # 0
  PROVE  /\ first_fit(h, size, alignment) \in 1 .. Len(h.free_list)
         /\ block_matches(h, h.free_list[first_fit(h, size, alignment)],
                          size, alignment)
<1> DEFINE T == {i \in 1 .. Len(h.free_list) :
                   block_matches(h, h.free_list[i], size, alignment)}
<1>1. first_fit(h, size, alignment) = IF T # {} THEN Min(T) ELSE 0
  BY DEF first_fit, SelectInSeq
<1>2. T # {} /\ first_fit(h, size, alignment) = Min(T)
  BY <1>1
<1>3. T \subseteq Nat
  BY LenProperties
<1>4. Min(T) \in T
  BY <1>2, <1>3, LeastNumber DEF Min
<1> QED
  BY <1>2, <1>4

(* No block on the free list fits when the walk comes to its end.           *)
LEMMA NoFit ==
  ASSUME NEW h, h.free_list \in Seq(Nat), NEW size, NEW alignment,
         first_fit(h, size, alignment) = 0
  PROVE  \A i \in 1 .. Len(h.free_list) :
           ~block_matches(h, h.free_list[i], size, alignment)
<1> DEFINE T == {i \in 1 .. Len(h.free_list) :
                   block_matches(h, h.free_list[i], size, alignment)}
<1>1. first_fit(h, size, alignment) = IF T # {} THEN Min(T) ELSE 0
  BY DEF first_fit, SelectInSeq
<1>2. ASSUME T # {}
      PROVE  FALSE
  <2>1. T \subseteq Nat \ {0}
    BY LenProperties
  <2>2. Min(T) \in T
    BY <1>2, <2>1, LeastNumber DEF Min
  <2> QED
    BY <1>1, <1>2, <2>1, <2>2
<1> QED
  BY <1>2

-----------------------------------------------------------------------------
(* The heap operations.                                                     *)

(* The fields of a heap and of the result of an allocation.                 *)
LEMMA Fields ==
  /\ \A h, p : Result(h, p).heap = h /\ Result(h, p).ptr = p
  /\ \A o, hd, fl : /\ Heap(o, hd, fl).offset = o
                    /\ Heap(o, hd, fl).header = hd
                    /\ Heap(o, hd, fl).free_list = fl
  /\ \A size, capacity, is_free :
       /\ Block(size, capacity, is_free).size = size
       /\ Block(size, capacity, is_free).capacity = capacity
       /\ Block(size, capacity, is_free).is_free = is_free
BY DEF Result, Heap, Block

(* The result of an allocation: either nothing changed, or a block of its   *)
(* own, that no one else held, was taken into use.                          *)
Handed(h, r, size) ==
  \/ r.ptr = NULL /\ r.heap = h
  \/ /\ r.ptr \in Nat \ {NULL}
     /\ r.ptr - HeaderSize \in DOMAIN r.heap.header
     /\ ~r.heap.header[r.ptr - HeaderSize].is_free
     /\ r.heap.header[r.ptr - HeaderSize].capacity >= size
     /\ \A a \in DOMAIN h.header : ~h.header[a].is_free =>
          /\ a # r.ptr - HeaderSize
          /\ a \in DOMAIN r.heap.header
          /\ r.heap.header[a] = h.header[a]

(* A fresh block is placed behind all the others, or not at all.            *)
LEMMA CarveOK ==
  ASSUME NEW h, HeapOK(h),
         NEW size \in 1 .. (WordSize - 1), size + HeaderSize < WordSize,
         NEW at \in 0 .. (WordSize - 1), at >= ArenaBase + h.offset
  PROVE  /\ HeapOK(carve_at(h, at, size).heap)
         /\ Handed(h, carve_at(h, at, size), size)
<1> DEFINE next == Word(at + HeaderSize + size)
           g == carve_at(h, at, size).heap
<1>1. /\ WordSize \in Nat \ {0} /\ ArenaBase \in Nat \ {0}
      /\ ArenaSize \in Nat \ {0} /\ HeaderSize \in Nat \ {0}
  BY ConstantsAssumption
<1>2. CASE next < at \/ next > ArenaEnd
  <2>1. carve_at(h, at, size) = [heap |-> h, ptr |-> NULL]
    BY <1>2 DEF carve_at, Result
  <2>2. carve_at(h, at, size).heap = h /\ carve_at(h, at, size).ptr = NULL
    BY <2>1
  <2> QED
    BY <2>2 DEF Handed
<1>3. CASE ~(next < at \/ next > ArenaEnd)
  <2> DEFINE hd == [a \in DOMAIN h.header \cup {at} |->
                     IF a = at THEN Block(size, size, FALSE) ELSE h.header[a]]
  <2>1. carve_at(h, at, size) =
          Result(Heap(next - ArenaBase, hd, h.free_list), at + HeaderSize)
    BY <1>3 DEF carve_at, offset_of
  <2> HIDE DEF hd, next
  <2>2. /\ g.offset = next - ArenaBase /\ g.header = hd
        /\ g.free_list = h.free_list
        /\ carve_at(h, at, size).ptr = at + HeaderSize
    BY <2>1, Fields
  <2>3. next = at + HeaderSize + size /\ next <= ArenaBase + ArenaSize
    <3>1. at + HeaderSize + size \in 0 .. (2 * WordSize - 1)
      BY <1>1
    <3>2. CASE at + HeaderSize + size < WordSize
      BY <1>1, <1>3, <3>1, <3>2, WordArithmetic DEF ArenaEnd, next
    <3>3. CASE at + HeaderSize + size >= WordSize
      <4>1. next = at + HeaderSize + size - WordSize
        BY <1>1, <3>1, <3>3, WordArithmetic DEF next
      <4>2. next < at
        BY <1>1, <4>1
      <4> QED
        BY <1>3, <4>2
    <3> QED
      BY <1>1, <3>1, <3>2, <3>3
  <2>4. /\ h.offset \in 0 .. ArenaSize /\ DOMAIN h.header \subseteq Nat
        /\ \A a \in DOMAIN h.header : h.header[a] \in BlockTypes
        /\ h.free_list \in Seq(Nat)
    BY DEF HeapOK, HeapTypeOK
  <2>5. \A a \in DOMAIN h.header : a >= ArenaBase /\ BlockEnd(h, a) <= at /\ a < at
    <3> SUFFICES ASSUME NEW a \in DOMAIN h.header
                 PROVE  a >= ArenaBase /\ BlockEnd(h, a) <= at /\ a < at
      OBVIOUS
    <3>1. a \in Nat /\ h.header[a].capacity \in Nat
      BY <1>1, <2>4 DEF BlockTypes
    <3>2. a >= ArenaBase /\ BlockEnd(h, a) <= ArenaBase + h.offset
      BY DEF HeapOK, BlocksApart
    <3>3. BlockEnd(h, a) \in Nat /\ BlockEnd(h, a) > a
      BY <1>1, <3>1 DEF BlockEnd
    <3>4. ArenaBase + h.offset \in Nat
      BY <1>1, <2>4
    <3> QED
      BY <3>1, <3>2, <3>3, <3>4
  <2>6. DOMAIN hd = DOMAIN h.header \cup {at} /\ at \notin DOMAIN h.header
    <3>1. DOMAIN hd = DOMAIN h.header \cup {at}
      BY DEF hd
    <3>2. ~(at < at)
      OBVIOUS
    <3>3. at \notin DOMAIN h.header
      BY <2>5, <3>2
    <3> QED
      BY <3>1, <3>3
  <2>7. /\ hd[at] = Block(size, size, FALSE)
        /\ \A a \in DOMAIN h.header : hd[a] = h.header[a]
    BY <2>6 DEF hd
  <2> HIDE DEF g
  <2>8. HeapTypeOK(g)
    <3>1. next - ArenaBase \in 0 .. ArenaSize
      BY <1>1, <2>3, <2>4
    <3>2. Block(size, size, FALSE) \in BlockTypes
      BY DEF Block, BlockTypes
    <3>3. DOMAIN g.header \subseteq Nat
      BY <2>2, <2>4, <2>6
    <3>4. \A a \in DOMAIN g.header : g.header[a] \in BlockTypes
      BY <2>2, <2>4, <2>6, <2>7, <3>2
    <3> QED
      BY <2>2, <2>4, <3>1, <3>3, <3>4 DEF HeapTypeOK
  <2>9. BlocksApart(g)
    <3>1. BlockEnd(g, at) = next
      BY <1>1, <2>2, <2>3, <2>7 DEF BlockEnd, Block
    <3>2. \A a \in DOMAIN h.header : BlockEnd(g, a) = BlockEnd(h, a)
      BY <2>2, <2>7 DEF BlockEnd
    <3>3. next > at /\ ArenaBase + g.offset = next /\ at >= ArenaBase
      BY <1>1, <2>2, <2>3, <2>4
    <3>4. ASSUME NEW a \in DOMAIN g.header
          PROVE  a >= ArenaBase /\ BlockEnd(g, a) <= ArenaBase + g.offset
      <4>1. CASE a = at
        BY <1>1, <2>3, <3>1, <3>3, <4>1
      <4>2. CASE a \in DOMAIN h.header
        <5>1. BlockEnd(h, a) \in Int
          BY <1>1, <2>4, <4>2 DEF BlockEnd, BlockTypes
        <5> QED
          BY <1>1, <2>3, <2>5, <3>2, <3>3, <4>2, <5>1
      <4> QED
        BY <2>2, <2>6, <4>1, <4>2
    <3>5. ASSUME NEW a \in DOMAIN g.header, NEW b \in DOMAIN g.header, a # b
          PROVE  BlockEnd(g, a) <= b \/ BlockEnd(g, b) <= a
      <4>1. CASE a \in DOMAIN h.header /\ b \in DOMAIN h.header
        BY <3>2, <3>5, <4>1 DEF HeapOK, BlocksApart
      <4>2. CASE a = at \/ b = at
        BY <2>2, <2>5, <2>6, <3>2, <3>5, <4>2
      <4> QED
        BY <2>2, <2>6, <4>1, <4>2
    <3> QED
      BY <3>4, <3>5 DEF BlocksApart
  <2>10. FreeListOfFree(g)
    <3>1. ~hd[at].is_free
      BY <2>7 DEF Block
    <3>2. FreeListOfFree(h)
      BY DEF HeapOK
    <3>3. \A i \in DOMAIN h.free_list : h.free_list[i] # at
      BY <2>6, <3>2 DEF FreeListOfFree
    <3>4. \A a \in DOMAIN h.header :
            hd[a].is_free <=> \E i \in DOMAIN h.free_list : h.free_list[i] = a
      BY <2>7, <3>2 DEF FreeListOfFree
    <3>5. \A a \in DOMAIN hd :
            hd[a].is_free <=> \E i \in DOMAIN h.free_list : h.free_list[i] = a
      BY <2>6, <3>1, <3>3, <3>4
    <3>6. \A i \in DOMAIN h.free_list : h.free_list[i] \in DOMAIN hd
      BY <2>6, <3>2 DEF FreeListOfFree
    <3> QED
      BY <2>2, <3>2, <3>5, <3>6 DEF FreeListOfFree
  <2>11. Handed(h, carve_at(h, at, size), size)
    <3>1. /\ at + HeaderSize \in Nat \ {NULL}
          /\ (at + HeaderSize) - HeaderSize = at
      BY <1>1 DEF NULL
    <3>2. hd[at].capacity >= size /\ ~hd[at].is_free
      BY <2>7 DEF Block
    <3>3. carve_at(h, at, size).heap.header = hd
      BY <2>2 DEF g
    <3>4. \A a \in DOMAIN h.header : a # at /\ a \in DOMAIN hd /\ hd[a] = h.header[a]
      BY <2>6, <2>7
    <3>5. at \in DOMAIN hd
      BY <2>6
    <3> QED
      BY <2>2, <3>1, <3>2, <3>3, <3>4, <3>5 DEF Handed
  <2> QED
    BY <2>8, <2>9, <2>10, <2>11 DEF HeapOK, g
<1> QED
  BY <1>2, <1>3

(* Changing the size and the mark of a block disturbs no block's extent.    *)
LEMMA SameExtents ==
  ASSUME NEW h, HeapOK(h), NEW g,
         g.offset = h.offset, DOMAIN g.header = DOMAIN h.header,
         \A a \in DOMAIN h.header : g.header[a].capacity = h.header[a].capacity
  PROVE  BlocksApart(g)
<1>1. \A a \in DOMAIN h.header : BlockEnd(g, a) = BlockEnd(h, a)
  BY DEF BlockEnd
<1> QED
  BY <1>1 DEF HeapOK, BlocksApart

(* A block taken off the free list becomes somebody's, and only that one.   *)
LEMMA ReuseOK ==
  ASSUME NEW h, HeapOK(h),
         NEW i \in 1 .. Len(h.free_list),
         NEW size \in 1 .. (WordSize - 1),
         h.header[h.free_list[i]].capacity >= size
  PROVE  /\ HeapOK(reuse_free_block(h, i, size).heap)
         /\ Handed(h, reuse_free_block(h, i, size), size)
<1> DEFINE fl == h.free_list
           b  == h.free_list[i]
           r  == reuse_free_block(h, i, size)
           hd == [h.header EXCEPT ![b] = Block(size, @.capacity, FALSE)]
           rest == RemoveAt(h.free_list, i)
<1>1. /\ HeaderSize \in Nat \ {0} /\ h.offset \in 0 .. ArenaSize
      /\ DOMAIN h.header \subseteq Nat
      /\ \A a \in DOMAIN h.header : h.header[a] \in BlockTypes
      /\ fl \in Seq(Nat) /\ DOMAIN fl = 1 .. Len(fl) /\ Len(fl) \in Nat
  BY ConstantsAssumption, LenProperties DEF HeapOK, HeapTypeOK
<1>2. /\ b \in DOMAIN h.header /\ h.header[b].is_free
      /\ \A k, j \in 1 .. Len(fl) : fl[k] = fl[j] => k = j
      /\ \A j \in 1 .. Len(fl) : fl[j] \in DOMAIN h.header
      /\ \A a \in DOMAIN h.header :
           h.header[a].is_free <=> \E j \in 1 .. Len(fl) : fl[j] = a
  BY <1>1 DEF HeapOK, FreeListOfFree
<1>3. /\ rest \in Seq(Nat) /\ DOMAIN rest = 1 .. (Len(fl) - 1)
      /\ \A j \in 1 .. (Len(fl) - 1) : rest[j] = IF j < i THEN fl[j] ELSE fl[j + 1]
  <2>1. rest \in Seq(Nat) /\ Len(rest) = Len(fl) - 1
        /\ \A j \in 1 .. (Len(fl) - 1) : rest[j] = IF j < i THEN fl[j] ELSE fl[j + 1]
    BY <1>1, RemoveAtProperties
  <2> HIDE DEF rest
  <2> QED
    BY <2>1, LenProperties
<1>4. /\ DOMAIN hd = DOMAIN h.header
      /\ hd[b] = Block(size, h.header[b].capacity, FALSE)
      /\ \A a \in DOMAIN h.header : a # b => hd[a] = h.header[a]
  BY <1>2
<1> HIDE DEF hd, rest
<1>5. /\ r.heap.offset = h.offset /\ r.heap.header = hd /\ r.heap.free_list = rest
      /\ r.ptr = b + HeaderSize
  <2>1. r = Result(Heap(h.offset, hd, rest), b + HeaderSize)
    BY DEF reuse_free_block, hd, rest
  <2> QED
    BY <2>1, Fields
<1> HIDE DEF fl, b, r
<1>6. HeapTypeOK(r.heap)
  <2>1. hd[b] \in BlockTypes
    BY <1>1, <1>2, <1>4 DEF Block, BlockTypes
  <2>2. \A a \in DOMAIN hd : hd[a] \in BlockTypes
    BY <1>1, <1>4, <2>1
  <2> QED
    BY <1>1, <1>3, <1>4, <1>5, <2>2 DEF HeapTypeOK
<1>7. BlocksApart(r.heap)
  <2>1. \A a \in DOMAIN h.header : hd[a].capacity = h.header[a].capacity
    BY <1>4 DEF Block
  <2> QED
    BY <1>4, <1>5, <2>1, SameExtents
<1>8. FreeListOfFree(r.heap)
  <2>1. ASSUME NEW j \in 1 .. (Len(fl) - 1)
        PROVE  \E k \in 1 .. Len(fl) : k # i /\ rest[j] = fl[k]
    <3>1. i \in 1 .. Len(fl) /\ j \in 1 .. Len(fl) /\ j + 1 \in 1 .. Len(fl)
      BY <1>1 DEF fl
    <3>2. CASE j < i
      <4>1. rest[j] = fl[j] /\ j # i
        BY <1>1, <1>3, <3>2
      <4> QED
        BY <3>1, <4>1
    <3>3. CASE ~(j < i)
      <4>1. j + 1 # i /\ rest[j] = fl[j + 1]
        BY <1>3, <3>1, <3>3
      <4> QED
        BY <3>1, <4>1
    <3> QED
      BY <3>2, <3>3
  <2>2. \A k \in 1 .. Len(fl) : k # i =>
          \E j \in 1 .. (Len(fl) - 1) : rest[j] = fl[k]
    <3> SUFFICES ASSUME NEW k \in 1 .. Len(fl), k # i
                 PROVE  \E j \in 1 .. (Len(fl) - 1) : rest[j] = fl[k]
      OBVIOUS
    <3>1. CASE k < i
      <4>1. k \in 1 .. (Len(fl) - 1)
        BY <1>1, <3>1 DEF fl
      <4> QED
        BY <1>3, <3>1, <4>1
    <3>2. CASE k > i
      <4>1. k - 1 \in 1 .. (Len(fl) - 1) /\ ~(k - 1 < i) /\ (k - 1) + 1 = k
        BY <1>1, <3>2 DEF fl
      <4> QED
        BY <1>3, <4>1
    <3> QED
      BY <1>1, <3>1, <3>2 DEF fl
  <2>3. \A j, k \in 1 .. (Len(fl) - 1) : rest[j] = rest[k] => j = k
    <3> SUFFICES ASSUME NEW j \in 1 .. (Len(fl) - 1), NEW k \in 1 .. (Len(fl) - 1),
                        rest[j] = rest[k]
                 PROVE  j = k
      OBVIOUS
    <3>1. j \in 1 .. Len(fl) /\ k \in 1 .. Len(fl)
          /\ j + 1 \in 1 .. Len(fl) /\ k + 1 \in 1 .. Len(fl)
      BY <1>1
    <3>2. (IF j < i THEN j ELSE j + 1) = (IF k < i THEN k ELSE k + 1)
      <4> DEFINE J == IF j < i THEN j ELSE j + 1
                 K == IF k < i THEN k ELSE k + 1
      <4>1. J \in 1 .. Len(fl) /\ K \in 1 .. Len(fl)
        BY <3>1
      <4>2. fl[J] = fl[K]
        BY <1>3
      <4> HIDE DEF J, K
      <4>3. J = K
        BY <1>2, <4>1, <4>2
      <4> QED
        BY <4>3 DEF J, K
    <3> QED
      BY <1>1, <3>1, <3>2 DEF fl
  <2>4. \A j \in 1 .. (Len(fl) - 1) : rest[j] \in DOMAIN hd /\ rest[j] # b
    <3> SUFFICES ASSUME NEW j \in 1 .. (Len(fl) - 1)
                 PROVE  rest[j] \in DOMAIN hd /\ rest[j] # b
      OBVIOUS
    <3>1. PICK k \in 1 .. Len(fl) : k # i /\ rest[j] = fl[k]
      BY <2>1
    <3>2. i \in 1 .. Len(fl) /\ b = fl[i]
      BY DEF fl, b
    <3> QED
      BY <1>2, <1>4, <3>1, <3>2
  <2>5. ~hd[b].is_free
    BY <1>4 DEF Block
  <2>6. \A a \in DOMAIN hd :
          hd[a].is_free <=> \E j \in 1 .. (Len(fl) - 1) : rest[j] = a
    <3> SUFFICES ASSUME NEW a \in DOMAIN hd
                 PROVE  hd[a].is_free <=> \E j \in 1 .. (Len(fl) - 1) : rest[j] = a
      OBVIOUS
    <3>1. CASE a = b
      BY <2>4, <2>5, <3>1
    <3>2. CASE a # b
      <4>1. hd[a].is_free <=> \E k \in 1 .. Len(fl) : fl[k] = a
        BY <1>2, <1>4, <3>2
      <4>2. \A k \in 1 .. Len(fl) : fl[k] = a => k # i
        BY <3>2 DEF b, fl
      <4> QED
        BY <2>1, <2>2, <4>1, <4>2
    <3> QED
      BY <3>1, <3>2
  <2> QED
    BY <1>3, <1>5, <2>3, <2>4, <2>6 DEF FreeListOfFree
<1>9. Handed(h, r, size)
  <2>1. /\ b + HeaderSize \in Nat \ {NULL} /\ (b + HeaderSize) - HeaderSize = b
    <3>1. b \in Nat
      BY <1>1, <1>2
    <3> QED
      BY <1>1, <3>1 DEF NULL
  <2>2. hd[b].capacity >= size /\ ~hd[b].is_free
    BY <1>4 DEF b, Block
  <2>3. \A a \in DOMAIN h.header : ~h.header[a].is_free =>
          a # b /\ a \in DOMAIN hd /\ hd[a] = h.header[a]
    BY <1>2, <1>4
  <2> QED
    <3>1. r.ptr \in Nat \ {NULL} /\ r.ptr - HeaderSize = b
      BY <1>5, <2>1
    <3>2. b \in DOMAIN r.heap.header
      BY <1>2, <1>4, <1>5
    <3>3. ~r.heap.header[b].is_free /\ r.heap.header[b].capacity >= size
      BY <1>5, <2>2
    <3>4. \A a \in DOMAIN h.header : ~h.header[a].is_free =>
            a # b /\ a \in DOMAIN r.heap.header /\ r.heap.header[a] = h.header[a]
      BY <1>5, <2>3
    <3> QED
      BY <3>1, <3>2, <3>3, <3>4 DEF Handed
<1> QED
  BY <1>6, <1>7, <1>8, <1>9 DEF HeapOK, r

(* Whatever is asked for, arena_alloc keeps the heap sound and hands out a  *)
(* block that nobody else holds.                                            *)
LEMMA AllocOK ==
  ASSUME NEW h, HeapOK(h),
         NEW n \in Nat, n + HeaderSize < WordSize, 1 + HeaderSize < WordSize,
         NEW align \in RequestAlignments
  PROVE  /\ HeapOK(arena_alloc(h, n, align).heap)
         /\ Handed(h, arena_alloc(h, n, align), n)
<1> DEFINE size == IF n = 0 THEN 1 ELSE n
           alignment == IF align < DEFAULT_ALIGNMENT THEN DEFAULT_ALIGNMENT ELSE align
           fit == first_fit(h, size, alignment)
           r == arena_alloc(h, n, align)
<1>1. /\ WordSize \in Nat /\ HeaderSize \in Nat
      /\ size \in 1 .. (WordSize - 1) /\ size + HeaderSize < WordSize /\ size >= n
  BY ConstantsAssumption
<1>2. alignment \in RequestAlignments /\ alignment # 0
  <2>1. DEFAULT_ALIGNMENT \in Nat \ {0} /\ align \in Nat
    BY ConstantsAssumption DEF DEFAULT_ALIGNMENT, RequestAlignments
  <2>2. DEFAULT_ALIGNMENT \in RequestAlignments
    BY DEF RequestAlignments
  <2> QED
    BY <2>1, <2>2
<1>3. r = IF ~is_power_of_two(alignment) THEN Result(h, NULL)
          ELSE IF fit # 0 THEN reuse_free_block(h, fit, size)
          ELSE carve_at(h, header_for(h, alignment), size)
  BY DEF arena_alloc
<1>4. h.offset \in 0 .. ArenaSize /\ h.free_list \in Seq(Nat)
  BY DEF HeapOK, HeapTypeOK
<1> HIDE DEF size, alignment, fit, r
<1>5. HeapOK(r.heap) /\ Handed(h, r, size)
  <2>1. CASE ~is_power_of_two(alignment)
    BY <1>3, <2>1, Fields DEF Handed
  <2>2. CASE is_power_of_two(alignment) /\ fit # 0
    <3>1. /\ fit \in 1 .. Len(h.free_list)
          /\ block_matches(h, h.free_list[fit], size, alignment)
      BY <1>4, <2>2, FirstFit DEF fit
    <3> QED
      BY <1>1, <1>3, <2>2, <3>1, ReuseOK DEF block_matches
  <2>3. CASE is_power_of_two(alignment) /\ fit = 0
    <3>1. /\ header_for(h, alignment) \in 0 .. (WordSize - 1)
          /\ header_for(h, alignment) >= ArenaBase + h.offset
      BY <1>2, <1>4, HeaderPlace
    <3> QED
      BY <1>1, <1>3, <2>3, <3>1, CarveOK
  <2> QED
    BY <2>1, <2>2, <2>3
<1>6. Handed(h, r, n)
  <2>1. CASE r.ptr = NULL /\ r.heap = h
    BY <2>1 DEF Handed
  <2>2. CASE ~(r.ptr = NULL /\ r.heap = h)
    <3>1. /\ r.ptr - HeaderSize \in DOMAIN r.heap.header
          /\ r.heap.header[r.ptr - HeaderSize].capacity >= size
      BY <1>5, <2>2 DEF Handed
    <3>2. r.heap.header[r.ptr - HeaderSize].capacity \in Nat
      BY <1>1, <1>5, <3>1 DEF HeapOK, HeapTypeOK, BlockTypes
    <3>3. r.heap.header[r.ptr - HeaderSize].capacity >= n
      BY <1>1, <3>1, <3>2
    <3> QED
      BY <1>5, <2>2, <3>3 DEF Handed
  <2> QED
    BY <2>1, <2>2
<1> QED
  BY <1>5, <1>6 DEF r

(* free puts one block on the free list at most, and leaves the others be.  *)
LEMMA FreeOK ==
  ASSUME NEW h, HeapOK(h), NEW p
  PROVE  /\ HeapOK(free(h, p))
         /\ DOMAIN free(h, p).header = DOMAIN h.header
         /\ \A a \in DOMAIN h.header :
              a # p - HeaderSize => free(h, p).header[a] = h.header[a]
<1> DEFINE b  == p - HeaderSize
           g  == free(h, p)
           hd == [h.header EXCEPT ![b] = Block(@.size, @.capacity, TRUE)]
           fl == <<b>> \o h.free_list
<1>1. CASE p = NULL \/ ~is_ours(h, p) \/ h.header[b].is_free
  <2>1. g = h
    BY <1>1 DEF free
  <2> QED
    BY <2>1
<1>2. CASE ~(p = NULL \/ ~is_ours(h, p) \/ h.header[b].is_free)
  <2>1. g = Heap(h.offset, hd, fl)
    BY <1>2 DEF free
  <2>2. b \in DOMAIN h.header /\ ~h.header[b].is_free
    BY <1>2 DEF is_ours
  <2>3. /\ DOMAIN h.header \subseteq Nat
        /\ \A a \in DOMAIN h.header : h.header[a] \in BlockTypes
        /\ h.free_list \in Seq(Nat)
        /\ h.offset \in 0 .. ArenaSize
    BY DEF HeapOK, HeapTypeOK
  <2>4. /\ DOMAIN hd = DOMAIN h.header
        /\ hd[b] = Block(h.header[b].size, h.header[b].capacity, TRUE)
        /\ \A a \in DOMAIN h.header : a # b => hd[a] = h.header[a]
    BY <2>2
  <2> HIDE DEF hd
  <2>5. /\ fl \in Seq(Nat)
        /\ DOMAIN fl = 1 .. (Len(h.free_list) + 1)
        /\ Len(h.free_list) \in Nat
        /\ fl[1] = b
        /\ \A j \in 1 .. Len(h.free_list) : fl[j + 1] = h.free_list[j]
    <3> DEFINE s == <<b>>
    <3>1. s \in Seq(Nat) /\ Len(s) = 1 /\ s[1] = b
      BY <2>2, <2>3
    <3>2. Len(h.free_list) \in Nat
      BY <2>3, LenProperties
    <3> HIDE DEF s, b
    <3>3. /\ s \o h.free_list \in Seq(Nat)
          /\ Len(s \o h.free_list) = Len(h.free_list) + 1
          /\ \A j \in 1 .. (1 + Len(h.free_list)) :
               (s \o h.free_list)[j] =
                 IF j <= 1 THEN s[j] ELSE h.free_list[j - 1]
      <4>1. /\ s \o h.free_list \in Seq(Nat)
            /\ Len(s \o h.free_list) = Len(s) + Len(h.free_list)
            /\ \A j \in 1 .. (Len(s) + Len(h.free_list)) :
                 (s \o h.free_list)[j] =
                   IF j <= Len(s) THEN s[j] ELSE h.free_list[j - Len(s)]
        BY <2>3, <3>1, ConcatProperties
      <4> QED
        BY <3>1, <3>2, <4>1
    <3>4. DOMAIN (s \o h.free_list) = 1 .. (Len(h.free_list) + 1)
      BY <3>3, LenProperties
    <3>5. fl = s \o h.free_list
      BY DEF s
    <3> HIDE DEF fl
    <3>6. fl[1] = b
      BY <3>1, <3>2, <3>3, <3>5
    <3>7. ASSUME NEW j \in 1 .. Len(h.free_list)
          PROVE  fl[j + 1] = h.free_list[j]
      <4>1. j + 1 \in 1 .. (1 + Len(h.free_list)) /\ ~(j + 1 <= 1) /\ (j + 1) - 1 = j
        BY <3>2
      <4> QED
        BY <3>3, <3>5, <4>1
    <3> QED
      BY <3>2, <3>3, <3>4, <3>5, <3>6, <3>7
  <2> HIDE DEF fl, g, b
  <2>6. g.offset = h.offset /\ g.header = hd /\ g.free_list = fl
    BY <2>1, Fields
  <2>7. HeapTypeOK(g)
    <3>1. hd[b] \in BlockTypes
      BY <2>2, <2>3, <2>4 DEF Block, BlockTypes
    <3>2. \A a \in DOMAIN hd : hd[a] \in BlockTypes
      BY <2>3, <2>4, <3>1
    <3> QED
      BY <2>3, <2>4, <2>5, <2>6, <3>2 DEF HeapTypeOK
  <2>8. BlocksApart(g)
    <3>1. \A a \in DOMAIN h.header : hd[a].capacity = h.header[a].capacity
      BY <2>4 DEF Block
    <3> QED
      BY <2>4, <2>6, <3>1, SameExtents
  <2>9. FreeListOfFree(g)
    <3> DEFINE L == Len(h.free_list)
    <3>1. /\ \A i, j \in 1 .. L : h.free_list[i] = h.free_list[j] => i = j
          /\ \A i \in 1 .. L : h.free_list[i] \in DOMAIN h.header
          /\ \A a \in DOMAIN h.header :
               h.header[a].is_free <=> \E i \in 1 .. L : h.free_list[i] = a
      <4>1. DOMAIN h.free_list = 1 .. L
        BY <2>3, LenProperties
      <4> QED
        BY <4>1 DEF HeapOK, FreeListOfFree
    <3>2. L \in Nat
      BY <2>5
    <3> HIDE DEF L
    <3>3. \A i \in 1 .. L : h.free_list[i] # b
      BY <2>2, <3>1
    <3>4. \A i \in 1 .. (L + 1) :
            \/ i = 1 /\ fl[i] = b
            \/ i - 1 \in 1 .. L /\ fl[i] = h.free_list[i - 1]
      <4> SUFFICES ASSUME NEW i \in 1 .. (L + 1), i # 1
                   PROVE  i - 1 \in 1 .. L /\ fl[i] = h.free_list[i - 1]
        BY <2>5
      <4>1. i - 1 \in 1 .. L /\ (i - 1) + 1 = i
        BY <3>2
      <4>2. fl[(i - 1) + 1] = h.free_list[i - 1]
        BY <2>5, <4>1 DEF L
      <4> QED
        BY <4>1, <4>2
    <3>5. ASSUME NEW i \in 1 .. (L + 1), NEW j \in 1 .. (L + 1), fl[i] = fl[j]
          PROVE  i = j
      <4>1. CASE i = 1 \/ j = 1
        <5>1. fl[i] = b /\ fl[j] = b
          BY <2>5, <3>5, <4>1
        <5>2. ~(i - 1 \in 1 .. L /\ fl[i] = h.free_list[i - 1])
          BY <3>3, <5>1
        <5>3. ~(j - 1 \in 1 .. L /\ fl[j] = h.free_list[j - 1])
          BY <3>3, <5>1
        <5> QED
          BY <3>4, <5>2, <5>3
      <4>2. CASE i # 1 /\ j # 1
        <5>1. i - 1 \in 1 .. L /\ j - 1 \in 1 .. L
              /\ h.free_list[i - 1] = h.free_list[j - 1]
          BY <3>4, <3>5, <4>2
        <5>2. i - 1 = j - 1
          BY <3>1, <5>1
        <5> QED
          BY <3>2, <5>2
      <4> QED
        BY <4>1, <4>2
    <3>6. \A i \in 1 .. (L + 1) : fl[i] \in DOMAIN hd
      BY <2>2, <2>4, <3>1, <3>4
    <3>7. ASSUME NEW a \in DOMAIN hd
          PROVE  hd[a].is_free <=> \E i \in 1 .. (L + 1) : fl[i] = a
      <4>1. CASE a = b
        <5>1. hd[b].is_free
          BY <2>4 DEF Block
        <5>2. 1 \in 1 .. (L + 1)
          BY <3>2
        <5> QED
          BY <2>5, <4>1, <5>1, <5>2
      <4>2. CASE a # b
        <5>1. hd[a].is_free <=> \E i \in 1 .. L : h.free_list[i] = a
          BY <2>4, <3>1, <3>7, <4>2
        <5>2. \A i \in 1 .. L : i + 1 \in 1 .. (L + 1) /\ fl[i + 1] = h.free_list[i]
          BY <2>5, <3>2 DEF L
        <5> QED
          BY <3>4, <4>2, <5>1, <5>2
      <4> QED
        BY <4>1, <4>2
    <3>8. DOMAIN fl = 1 .. (L + 1)
      BY <2>5 DEF L
    <3> QED
      BY <2>6, <3>5, <3>6, <3>7, <3>8 DEF FreeListOfFree
  <2>10. \A a \in DOMAIN h.header : a # p - HeaderSize => hd[a] = h.header[a]
    BY <2>4 DEF b
  <2> QED
    BY <2>4, <2>6, <2>7, <2>8, <2>9, <2>10 DEF HeapOK, g
<1> QED
  BY <1>1, <1>2

(* Resizing inside the capacity of a block keeps the heap sound.            *)
LEMMA InPlaceOK ==
  ASSUME NEW h, HeapOK(h), NEW p, NEW n \in 1 .. (WordSize - 1)
  PROVE  /\ HeapOK(realloc_in_place(h, p, n))
         /\ DOMAIN realloc_in_place(h, p, n).header = DOMAIN h.header
         /\ \A a \in DOMAIN h.header :
              /\ realloc_in_place(h, p, n).header[a].capacity = h.header[a].capacity
              /\ realloc_in_place(h, p, n).header[a].is_free = h.header[a].is_free
<1> DEFINE b  == p - HeaderSize
           g  == realloc_in_place(h, p, n)
           hd == [h.header EXCEPT ![b] = Block(n, @.capacity, @.is_free)]
<1>1. g = Heap(h.offset, hd, h.free_list)
  BY DEF realloc_in_place
<1>2. /\ DOMAIN hd = DOMAIN h.header
      /\ \A a \in DOMAIN h.header :
           hd[a] = IF a = b THEN Block(n, h.header[a].capacity, h.header[a].is_free)
                   ELSE h.header[a]
  OBVIOUS
<1> HIDE DEF hd, g, b
<1>3. g.offset = h.offset /\ g.header = hd /\ g.free_list = h.free_list
  BY <1>1, Fields
<1>4. \A a \in DOMAIN h.header : /\ hd[a].capacity = h.header[a].capacity
                                /\ hd[a].is_free = h.header[a].is_free
  <2> SUFFICES ASSUME NEW a \in DOMAIN h.header
               PROVE  /\ hd[a].capacity = h.header[a].capacity
                      /\ hd[a].is_free = h.header[a].is_free
    OBVIOUS
  <2>1. CASE a = b
    <3>1. hd[a] = Block(n, h.header[a].capacity, h.header[a].is_free)
      BY <1>2, <2>1
    <3>2. Block(n, h.header[a].capacity, h.header[a].is_free).is_free
            = h.header[a].is_free
      BY Zenon DEF Block
    <3>3. Block(n, h.header[a].capacity, h.header[a].is_free).capacity
            = h.header[a].capacity
      BY Zenon DEF Block
    <3> QED
      BY <3>1, <3>2, <3>3, Zenon
  <2>2. CASE a # b
    BY <1>2, <2>2
  <2> QED
    BY <2>1, <2>2
<1>5. HeapTypeOK(h)
  BY DEF HeapOK
<1>6. \A a \in DOMAIN hd : hd[a] \in BlockTypes
  <2>1. ASSUME NEW a \in DOMAIN hd
        PROVE  hd[a] \in BlockTypes
    <3>1. h.header[a] \in BlockTypes
      BY <1>2, <1>5 DEF HeapTypeOK
    <3>2. h.header[a].capacity \in 1 .. (WordSize - 1) /\ h.header[a].is_free \in BOOLEAN
      BY <3>1, Zenon DEF BlockTypes
    <3>3. Block(n, h.header[a].capacity, h.header[a].is_free) \in BlockTypes
      BY <3>2, Zenon DEF Block, BlockTypes
    <3>4. CASE a = b
      <4>1. a \in DOMAIN h.header
        BY <1>2, <2>1
      <4>2. hd[a] = Block(n, h.header[a].capacity, h.header[a].is_free)
        BY <1>2, <3>4, <4>1, Zenon
      <4> QED
        BY <3>3, <4>2, Zenon
    <3>5. CASE a # b
      BY <1>2, <2>1, <3>1, <3>5
    <3> QED
      BY <3>4, <3>5
  <2> QED
    BY <2>1
<1>7. HeapTypeOK(g)
  BY <1>2, <1>3, <1>5, <1>6 DEF HeapTypeOK
<1>8. BlocksApart(g)
  BY <1>2, <1>3, <1>4, SameExtents
<1>9. FreeListOfFree(g)
  BY <1>2, <1>3, <1>4 DEF HeapOK, FreeListOfFree
<1> QED
  BY <1>2, <1>3, <1>4, <1>7, <1>8, <1>9 DEF HeapOK, g

-----------------------------------------------------------------------------
(* The heap stays sound.                                                    *)

(* Requests are words, and small enough to leave room for a header.         *)
LEMMA RequestBounds ==
  ASSUME SizesFit
  PROVE  /\ 1 + HeaderSize < WordSize
         /\ \A n \in Sizes :
              /\ RequestFits(n)
              /\ \A c \in Counts : RequestFits(Word(c * n))
              /\ RequestFits(rounded(n))
<1>1. /\ WordSize \in Nat \ {0} /\ HeaderSize \in Nat \ {0}
      /\ MMAP_ALIGNMENT \in Nat \ {0} /\ PointerSize \in Nat \ {0}
      /\ ArenaBase \in Nat \ {0} /\ ArenaSize \in Nat \ {0}
      /\ Sizes \subseteq Nat /\ Counts \subseteq Nat
  BY ConstantsAssumption
<1>2. 1 + HeaderSize < WordSize
  BY <1>1, PlacementAssumption DEF DEFAULT_ALIGNMENT
<1>3. \A c \in Counts, n \in Sizes : Word(c * n) \in Nat
  <2> SUFFICES ASSUME NEW c \in Counts, NEW n \in Sizes
               PROVE  Word(c * n) \in Nat
    OBVIOUS
  <2>1. c * n \in Int
    BY <1>1
  <2> QED
    BY <1>1, <2>1, WordArithmetic
<1>4. \A n \in Sizes : rounded(n) \in Nat
  <2> SUFFICES ASSUME NEW n \in Sizes
               PROVE  rounded(n) \in Nat
    OBVIOUS
  <2> DEFINE w == Word(n + MMAP_ALIGNMENT - 1)
  <2>1. w \in Nat
    BY <1>1, WordArithmetic
  <2> HIDE DEF w
  <2>2. w - (w % MMAP_ALIGNMENT) \in Nat
    BY <1>1, <2>1
  <2> QED
    BY <2>2 DEF rounded, align_down, w
<1> QED
  BY <1>1, <1>2, <1>3, <1>4 DEF SizesFit, RequestFits

(* Each of the calls that allocate is an arena_alloc of a request size.     *)
LEMMA EveryRequest ==
  ASSUME SizesFit, HeapOK(heap)
  PROVE  \A n, a : RequestFits(n) /\ a \in RequestAlignments =>
           /\ HeapOK(arena_alloc(heap, n, a).heap)
           /\ Handed(heap, arena_alloc(heap, n, a), n)
BY RequestBounds, AllocOK DEF RequestFits

(* The empty heap is sound.                                                 *)
LEMMA HeapInit ==
  ASSUME Init
  PROVE  HeapOK(heap)
<1>1. /\ heap.offset = 0 /\ heap.free_list = <<>>
      /\ heap.header = [a \in {} |-> Block(0, 0, FALSE)]
  BY Fields DEF Init
<1>2. DOMAIN heap.header = {}
  BY <1>1
<1>3. heap.free_list \in Seq(Nat) /\ DOMAIN heap.free_list = {}
  BY <1>1
<1> QED
  BY <1>1, <1>2, <1>3, ConstantsAssumption
  DEF HeapOK, HeapTypeOK, BlocksApart, FreeListOfFree

(* Every call keeps the heap sound.                                         *)
LEMMA HeapStep ==
  ASSUME SizesFit, HeapOK(heap), [Next]_vars
  PROVE  HeapOK(heap')
<1>1. /\ DEFAULT_ALIGNMENT \in RequestAlignments
      /\ MMAP_ALIGNMENT \in RequestAlignments
      /\ Alignments \subseteq RequestAlignments
  BY DEF RequestAlignments
<1>2. \A n \in Sizes : /\ RequestFits(n)
                       /\ \A c \in Counts : RequestFits(Word(c * n))
                       /\ RequestFits(rounded(n))
  BY RequestBounds
<1>3. ASSUME NEW n \in Sizes, Malloc(n)
      PROVE  HeapOK(heap')
  BY <1>1, <1>2, <1>3, EveryRequest DEF Malloc, malloc, Hand
<1>4. ASSUME NEW n \in Sizes, Mmap(n)
      PROVE  HeapOK(heap')
  BY <1>1, <1>2, <1>4, EveryRequest DEF Mmap, map_pages, Hand
<1>5. ASSUME NEW n \in Sizes, NEW c \in Counts, Calloc(c, n)
      PROVE  HeapOK(heap')
  BY <1>1, <1>2, <1>5, EveryRequest DEF Calloc, malloc, Hand
<1>6. ASSUME NEW n \in Sizes, NEW a \in Alignments,
             PosixMemalign(a, n) \/ AlignedAlloc(a, n)
      PROVE  HeapOK(heap')
  BY <1>1, <1>2, <1>6, EveryRequest DEF PosixMemalign, AlignedAlloc, Hand
<1>7. ASSUME NEW n \in Sizes, NEW f, NEW o, MmapFile(n, f, o)
      PROVE  HeapOK(heap')
  BY <1>1, <1>2, <1>7, EveryRequest DEF MmapFile, map_pages, Hand
<1>8. ASSUME NEW n \in Sizes, NEW l \in live, Realloc(l, n)
      PROVE  HeapOK(heap')
  <2>1. CASE ReallocInPlace(l, n)
    <3>1. n \in 1 .. (WordSize - 1)
      BY <2>1, ConstantsAssumption DEF ReallocInPlace
    <3> QED
      BY <2>1, <3>1, InPlaceOK DEF ReallocInPlace
  <2>2. CASE ReallocMove(l, n)
    <3>1. HeapOK(malloc(heap, n).heap)
      BY <1>1, <1>2, EveryRequest DEF malloc
    <3> QED
      BY <2>2, <3>1, FreeOK DEF ReallocMove
  <2> QED
    BY <1>8, <2>1, <2>2 DEF Realloc
<1>9. ASSUME NEW l \in live, NEW cut,
             \/ FreeHeap(l)
             \/ UnmapWhole(l)
             \/ UnmapTail(l, cut)
             \/ UnmapHead(l, cut)
      PROVE  HeapOK(heap')
  BY <1>9, FreeOK DEF FreeHeap, UnmapWhole, UnmapTail, UnmapHead, munmap
<1>10. ASSUME NEW l \in live, Write(l)
       PROVE  HeapOK(heap')
  BY <1>10 DEF Write
<1>11. ASSUME NEW p, FreeStray(p)
       PROVE  HeapOK(heap')
  BY <1>11, FreeOK DEF FreeStray
<1>12. CASE UNCHANGED vars
  BY <1>12 DEF vars
<1> QED
  BY <1>3, <1>4, <1>5, <1>6, <1>7, <1>8, <1>9, <1>10, <1>11, <1>12 DEF Next

(* The allocator never carves overlapping blocks and never loses or         *)
(* repeats a block on its free list, whatever callers do                    *)
(* (ruby_alloc.c:94-185).                                                   *)
THEOREM HeapSound ==
  ASSUME SizesFit
  PROVE  Spec => [](BlocksDisjoint /\ FreeListExact)
<1>1. Init => HeapOK(heap)
  BY HeapInit
<1>2. HeapOK(heap) /\ [Next]_vars => HeapOK(heap)'
  BY HeapStep DEF HeapOK, HeapTypeOK, BlocksApart, BlockEnd, FreeListOfFree
<1>3. HeapOK(heap) => BlocksDisjoint /\ FreeListExact
  BY DEF HeapOK, BlocksDisjoint, FreeListExact
<1> QED
  BY <1>1, <1>2, <1>3, PTL DEF Spec

-----------------------------------------------------------------------------
(* What is found.                                                           *)

(* A block is carved exactly when the first aligned place leaves room.      *)
LEMMA CarveFits ==
  ASSUME NEW h, HeapOK(h), NEW a \in RequestAlignments, a # 0,
         NEW size \in 1 .. (WordSize - 1), size + HeaderSize < WordSize
  PROVE  LET p == carve_at(h, header_for(h, a), size).ptr
             q == align_up(ArenaBase + h.offset + HeaderSize, a)
         IN  /\ p # NULL => p = q
             /\ p # NULL <=> q + size <= ArenaEnd
<1> DEFINE v    == ArenaBase + h.offset + HeaderSize
           q    == align_up(v, a)
           p    == carve_at(h, header_for(h, a), size).ptr
           next == Word(q + size)
<1>1. /\ a \in Nat \ {0} /\ h.offset \in Nat /\ HeaderSize \in Nat \ {0}
      /\ WordSize \in Nat /\ ArenaBase \in Nat \ {0} /\ ArenaSize \in Nat
      /\ h.offset <= ArenaSize /\ ArenaBase + ArenaSize + HeaderSize + a <= WordSize
  BY ConstantsAssumption, PlacementAssumption
     DEF HeapOK, HeapTypeOK, RequestAlignments, DEFAULT_ALIGNMENT
<1>2. /\ q \in Nat /\ v <= q /\ q <= v + a - 1 /\ v \in Nat
  BY <1>1, AlignUp
<1>3. header_for(h, a) = q - HeaderSize
  BY <1>1, HeaderPlace DEF HeapOK, HeapTypeOK
<1>4. v = ArenaBase + h.offset + HeaderSize
  OBVIOUS
<1> HIDE DEF v, q
<1>5. q - HeaderSize + HeaderSize = q
  BY <1>1, <1>2
<1>6. p = IF next < q - HeaderSize \/ next > ArenaEnd THEN NULL ELSE q
  BY <1>3, <1>5, Fields DEF carve_at
<1> HIDE DEF p
<1>7. ASSUME q + size < WordSize
      PROVE  (p # NULL => p = q) /\ (p # NULL <=> q + size <= ArenaEnd)
  <2>1. next = q + size
    BY <1>1, <1>2, <1>7, WordArithmetic
  <2> QED
    BY <1>1, <1>2, <1>4, <1>6, <2>1 DEF ArenaEnd, NULL
<1>8. ASSUME q + size >= WordSize
      PROVE  (p # NULL => p = q) /\ (p # NULL <=> q + size <= ArenaEnd)
  <2>1. next = q + size - WordSize
    BY <1>1, <1>2, <1>4, <1>8, WordArithmetic
  <2> QED
    BY <1>1, <1>2, <1>4, <1>6, <1>8, <2>1 DEF ArenaEnd, NULL
<1>9. (p # NULL => p = q) /\ (p # NULL <=> q + size <= ArenaEnd)
  BY <1>1, <1>2, <1>7, <1>8
<1> QED
  BY <1>9 DEF p, q, v

(* arena_alloc finds room exactly when there is some, at the alignment that *)
(* was asked for.                                                           *)
LEMMA AllocFits ==
  ASSUME HeapOK(heap), NEW n \in Nat, n + HeaderSize < WordSize,
         1 + HeaderSize < WordSize, NEW a \in RequestAlignments,
         is_power_of_two(a), a >= DEFAULT_ALIGNMENT
  PROVE  LET p == arena_alloc(heap, n, a).ptr
         IN  /\ p # NULL <=> SomePlaceFits(IF n = 0 THEN 1 ELSE n, a)
             /\ p # NULL => p % a = 0
<1> DEFINE size == IF n = 0 THEN 1 ELSE n
           fit  == first_fit(heap, size, a)
           p    == arena_alloc(heap, n, a).ptr
           v    == ArenaBase + heap.offset + HeaderSize
           q    == align_up(v, a)
<1>1. /\ size \in 1 .. (WordSize - 1) /\ size + HeaderSize < WordSize
      /\ a \in Nat \ {0} /\ HeaderSize \in Nat \ {0} /\ heap.offset \in Nat
      /\ heap.free_list \in Seq(Nat) /\ DOMAIN heap.header \subseteq Nat
      /\ v \in Nat /\ v + a - 1 < WordSize /\ ArenaEnd \in Nat
  <2>1. /\ a \in Nat \ {0} /\ HeaderSize \in Nat \ {0} /\ WordSize \in Nat
        /\ ArenaBase \in Nat /\ ArenaSize \in Nat
        /\ ArenaBase + ArenaSize + HeaderSize + a <= WordSize
    BY ConstantsAssumption, PlacementAssumption DEF RequestAlignments, DEFAULT_ALIGNMENT
  <2>2. /\ heap.offset \in 0 .. ArenaSize /\ heap.free_list \in Seq(Nat)
        /\ DOMAIN heap.header \subseteq Nat
    BY DEF HeapOK, HeapTypeOK
  <2>3. /\ size \in 1 .. (WordSize - 1) /\ size + HeaderSize < WordSize
    BY <2>1
  <2> QED
    BY <2>1, <2>2, <2>3 DEF ArenaEnd
<1>2. p = IF fit # 0 THEN reuse_free_block(heap, fit, size).ptr
                     ELSE carve_at(heap, header_for(heap, a), size).ptr
  <2>1. (IF a < DEFAULT_ALIGNMENT THEN DEFAULT_ALIGNMENT ELSE a) = a
    BY <1>1, ConstantsAssumption DEF DEFAULT_ALIGNMENT
  <2> QED
    BY <2>1 DEF arena_alloc
<1> HIDE DEF size, fit, p
<1>3. CASE fit # 0
  <2> DEFINE b == heap.free_list[fit]
  <2>1. fit \in 1 .. Len(heap.free_list) /\ block_matches(heap, b, size, a)
    BY <1>1, <1>3, FirstFit DEF fit
  <2>2. b \in DOMAIN heap.header /\ heap.header[b].is_free
    <3>1. fit \in DOMAIN heap.free_list
      BY <1>1, <2>1, LenProperties
    <3>2. b \in DOMAIN heap.header
      BY <3>1 DEF HeapOK, FreeListOfFree
    <3> QED
      BY <3>1, <3>2 DEF HeapOK, FreeListOfFree
  <2>3. p = b + HeaderSize /\ b \in Nat
    BY <1>1, <1>2, <1>3, <2>2, Fields DEF reuse_free_block
  <2> HIDE DEF b
  <2>4. SomePlaceFits(size, a)
    BY <2>1, <2>2 DEF SomePlaceFits, block_matches
  <2>5. p # NULL /\ p % a = 0
    BY <1>1, <2>1, <2>3 DEF block_matches, NULL
  <2> QED
    BY <2>4, <2>5 DEF p, size
<1>4. CASE fit = 0
  <2>1. \A b \in DOMAIN heap.header :
          heap.header[b].is_free => ~block_matches(heap, b, size, a)
    <3>1. \A i \in 1 .. Len(heap.free_list) :
            ~block_matches(heap, heap.free_list[i], size, a)
      BY <1>1, <1>4, NoFit DEF fit
    <3>2. DOMAIN heap.free_list = 1 .. Len(heap.free_list)
      BY <1>1, LenProperties
    <3>3. \A b \in DOMAIN heap.header : heap.header[b].is_free =>
            \E i \in DOMAIN heap.free_list : heap.free_list[i] = b
      BY DEF HeapOK, FreeListOfFree
    <3> QED
      BY <3>1, <3>2, <3>3
  <2>2. SomePlaceFits(size, a) <=> \E x \in v .. (ArenaEnd - size) : x % a = 0
    BY <2>1 DEF SomePlaceFits, block_matches
  <2>3. (p # NULL => p = q) /\ (p # NULL <=> q + size <= ArenaEnd)
    BY <1>1, <1>2, <1>4, CarveFits
  <2>4. q \in Nat /\ v <= q /\ q % a = 0 /\ \A x \in Nat : v <= x /\ x % a = 0 => q <= x
    BY <1>1, AlignUp, AlignsLeast
  <2>5. size \in Nat
    BY <1>1
  <2> HIDE DEF q, v
  <2>6. q + size <= ArenaEnd <=> \E x \in v .. (ArenaEnd - size) : x % a = 0
    <3>1. ASSUME q + size <= ArenaEnd
          PROVE  \E x \in v .. (ArenaEnd - size) : x % a = 0
      <4>1. q \in v .. (ArenaEnd - size) /\ q % a = 0
        BY <1>1, <2>4, <2>5, <3>1
      <4> QED
        BY <4>1
    <3>2. ASSUME NEW x \in v .. (ArenaEnd - size), x % a = 0
          PROVE  q + size <= ArenaEnd
      <4>1. x \in Nat /\ v <= x /\ x <= ArenaEnd - size
        BY <1>1, <2>5
      <4>2. q <= x
        BY <2>4, <3>2, <4>1
      <4> QED
        BY <1>1, <2>4, <2>5, <4>1, <4>2
    <3> QED
      BY <3>1, <3>2
  <2> QED
    BY <2>2, <2>3, <2>4, <2>6 DEF p, size
<1> QED
  BY <1>3, <1>4

(* arena_alloc (ruby_alloc.c:119-162) never refuses a request for which the *)
(* free list or the rest of the arena has an aligned place, and never       *)
(* answers one for which they have not, whatever was freed and reused.      *)
THEOREM AllocationComplete ==
  ASSUME SizesFit
  PROVE  Spec => []AllocatesWhenItFits
<1>1. Init => HeapOK(heap)
  BY HeapInit
<1>2. HeapOK(heap) /\ [Next]_vars => HeapOK(heap)'
  BY HeapStep DEF HeapOK, HeapTypeOK, BlocksApart, BlockEnd, FreeListOfFree
<1>3. HeapOK(heap) => AllocatesWhenItFits
  BY AllocFits, RequestBounds DEF AllocatesWhenItFits, RequestAlignments, RequestFits
<1> QED
  BY <1>1, <1>2, <1>3, PTL DEF Spec

-----------------------------------------------------------------------------
(* Ownership.                                                               *)

(* The inductive form of LiveExclusive: every range that is owned lies in   *)
(* a block in use that it does not share.                                   *)
Backed(h, L) ==
  /\ L \subseteq OwnedTypes
  /\ \A l \in L :
       /\ l.lo - HeaderSize \in DOMAIN h.header
       /\ ~h.header[l.lo - HeaderSize].is_free
       /\ l.hi < l.lo + h.header[l.lo - HeaderSize].capacity
  /\ \A l, m \in L : l # m => l.lo # m.lo

(* Ranges that are backed do not overlap, because their blocks do not.      *)
LEMMA BackedApart ==
  ASSUME NEW h, NEW L, HeapOK(h), Backed(h, L), NEW l \in L, NEW m \in L, l # m
  PROVE  l.lo # m.lo /\ (l.hi < m.lo \/ m.hi < l.lo)
<1> DEFINE a == l.lo - HeaderSize
           b == m.lo - HeaderSize
<1>1. /\ HeaderSize \in Nat \ {0} /\ L \subseteq OwnedTypes
      /\ \A c \in DOMAIN h.header : c \in Nat /\ h.header[c].capacity \in Nat
  BY ConstantsAssumption, HeaderTypes DEF Backed
<1>2. l.lo \in Nat /\ m.lo \in Nat /\ l.hi \in Nat /\ m.hi \in Nat
  BY <1>1 DEF OwnedTypes
<1>3. /\ a \in DOMAIN h.header /\ l.hi < l.lo + h.header[a].capacity
      /\ b \in DOMAIN h.header /\ m.hi < m.lo + h.header[b].capacity
      /\ l.lo # m.lo
  BY DEF Backed
<1>4. a # b
  BY <1>1, <1>2, <1>3
<1>5. BlockEnd(h, a) <= b \/ BlockEnd(h, b) <= a
  BY <1>3, <1>4 DEF HeapOK, BlocksApart
<1> QED
  BY <1>1, <1>2, <1>3, <1>5 DEF BlockEnd

(* Owners that are backed share no byte.                                    *)
LEMMA BackedExclusive ==
  ASSUME HeapOK(heap), Backed(heap, live)
  PROVE  LiveExclusive
<1>1. \A l, m \in live : l # m => l.lo # m.lo /\ (l.hi < m.lo \/ m.hi < l.lo)
  BY BackedApart
<1>2. \A l \in live : /\ is_ours(heap, l.lo)
                      /\ ~heap.header[l.lo - HeaderSize].is_free
                      /\ l.hi < l.lo + malloc_usable_size(heap, l.lo)
  BY DEF Backed, is_ours, malloc_usable_size
<1> QED
  BY <1>1, <1>2 DEF LiveExclusive

(* A block handed out backs one more range and still backs the others.      *)
LEMMA HandedBacked ==
  ASSUME NEW h, NEW L, NEW r, NEW n \in Nat, NEW o,
         HeapOK(h), HeapOK(r.heap), Backed(h, L), Handed(h, r, n), r.ptr # NULL,
         o \in OwnedTypes, o.lo = r.ptr, o.hi = r.ptr + n - 1
  PROVE  /\ Backed(r.heap, L \cup {o})
         /\ \A l \in L : l.lo # o.lo
<1> DEFINE b == r.ptr - HeaderSize
           hd == r.heap.header
<1>1. /\ r.ptr \in Nat /\ b \in DOMAIN hd /\ ~hd[b].is_free /\ hd[b].capacity >= n
      /\ \A a \in DOMAIN h.header : ~h.header[a].is_free =>
           a # b /\ a \in DOMAIN hd /\ hd[a] = h.header[a]
  BY DEF Handed
<1>2. HeaderSize \in Nat /\ hd[b].capacity \in Nat
  BY <1>1, ConstantsAssumption, HeaderTypes
<1>3. o.hi < o.lo + hd[b].capacity
  <2> DEFINE c == hd[b].capacity
             q == r.ptr
  <2>1. q \in Nat /\ c \in Nat /\ c >= n
    BY <1>1, <1>2
  <2> HIDE DEF c, q
  <2>2. q + n - 1 < q + c
    BY <2>1
  <2> QED
    BY <2>2 DEF c, q
<1>4. ASSUME NEW l \in L
      PROVE  /\ l.lo - HeaderSize \in DOMAIN hd
             /\ ~hd[l.lo - HeaderSize].is_free
             /\ l.hi < l.lo + hd[l.lo - HeaderSize].capacity
             /\ l.lo # o.lo
  <2>1. /\ l.lo - HeaderSize \in DOMAIN h.header
        /\ ~h.header[l.lo - HeaderSize].is_free
        /\ l.hi < l.lo + h.header[l.lo - HeaderSize].capacity
    BY DEF Backed
  <2> QED
    BY <1>1, <2>1
<1>5. L \cup {o} \subseteq OwnedTypes
  BY DEF Backed
<1>6. \A l, m \in L \cup {o} : l # m => l.lo # m.lo
  BY <1>4 DEF Backed
<1>7. \A l \in L \cup {o} :
        /\ l.lo - HeaderSize \in DOMAIN hd
        /\ ~hd[l.lo - HeaderSize].is_free
        /\ l.hi < l.lo + hd[l.lo - HeaderSize].capacity
  BY <1>1, <1>3, <1>4
<1> QED
  BY <1>4, <1>5, <1>6, <1>7 DEF Backed

(* Freeing a pointer that starts none of the ranges leaves them backed.     *)
LEMMA FreeBacked ==
  ASSUME NEW h, NEW L, NEW p, HeapOK(h), Backed(h, L),
         \A l \in L : l.lo - HeaderSize # p - HeaderSize
  PROVE  Backed(free(h, p), L)
<1>1. /\ DOMAIN free(h, p).header = DOMAIN h.header
      /\ \A a \in DOMAIN h.header :
           a # p - HeaderSize => free(h, p).header[a] = h.header[a]
  BY FreeOK
<1>2. \A l \in L : /\ l.lo - HeaderSize \in DOMAIN h.header
                   /\ free(h, p).header[l.lo - HeaderSize]
                        = h.header[l.lo - HeaderSize]
  BY <1>1 DEF Backed
<1> QED
  BY <1>1, <1>2 DEF Backed

(* An address inside an owned range is not a block's payload, so munmap of  *)
(* the tail of a mapping changes nothing.                                   *)
LEMMA TailIsForeign ==
  ASSUME NEW h, NEW L, HeapOK(h), Backed(h, L), NEW l \in L, NEW p \in Nat,
         l.lo < p, p <= l.hi
  PROVE  free(h, p) = h
<1> DEFINE a == p - HeaderSize
           b == l.lo - HeaderSize
<1>1. /\ HeaderSize \in Nat \ {0} /\ l.lo \in Nat /\ l.hi \in Nat
      /\ \A c \in DOMAIN h.header : c \in Nat /\ h.header[c].capacity \in Nat
  BY ConstantsAssumption, HeaderTypes DEF Backed, OwnedTypes
<1>2. b \in DOMAIN h.header /\ l.hi < l.lo + h.header[b].capacity
  BY DEF Backed
<1>3. SUFFICES ASSUME a \in DOMAIN h.header PROVE FALSE
  BY DEF free, is_ours
<1>4. a # b
  BY <1>1
<1>5. BlockEnd(h, a) <= b \/ BlockEnd(h, b) <= a
  BY <1>2, <1>3, <1>4 DEF HeapOK, BlocksApart
<1> QED
  BY <1>1, <1>2, <1>3, <1>5 DEF BlockEnd

OwnershipInv == HeapOK(heap) /\ Backed(heap, live) /\ bytes \subseteq Nat

(* An allocation, whatever its outcome, keeps every range backed.           *)
LEMMA HandKeeps ==
  ASSUME NEW n, NEW align, NEW kind \in {"malloc", "mmap"}, NEW data \in Int,
         SizesFit, OwnershipInv, RequestFits(n), align \in RequestAlignments,
         Hand(arena_alloc(heap, n, align), n, kind, data)
  PROVE  /\ Backed(heap', live')
         /\ arena_alloc(heap, n, align).ptr \in Nat
<1> DEFINE r == arena_alloc(heap, n, align)
           o == Owned(r.ptr, n, kind, data)
<1>1. HeapOK(r.heap) /\ Handed(heap, r, n) /\ n \in Nat /\ Backed(heap, live)
  BY EveryRequest DEF OwnershipInv, RequestFits
<1>2. heap' = r.heap /\ live' = IF r.ptr = NULL THEN live ELSE live \cup {o}
  BY DEF Hand
<1> HIDE DEF r
<1>3. CASE r.ptr = NULL
  <2>1. r.heap = heap /\ r.ptr \in Nat
    BY <1>1, <1>3 DEF Handed, NULL
  <2> QED
    BY <1>1, <1>2, <1>3, <2>1 DEF r
<1>4. CASE r.ptr # NULL
  <2>1. r.ptr \in Nat \ {0}
    BY <1>1, <1>4 DEF Handed, NULL
  <2>2. o \in OwnedTypes /\ o.lo = r.ptr /\ o.hi = r.ptr + n - 1
    BY <1>1, <2>1 DEF Owned, OwnedTypes
  <2> HIDE DEF o
  <2>3. HeapOK(heap)
    BY DEF OwnershipInv
  <2>4. Backed(r.heap, live \cup {o})
    BY <1>1, <1>4, <2>2, <2>3, HandedBacked
  <2> QED
    BY <1>2, <1>4, <2>1, <2>4 DEF r
<1> QED
  BY <1>3, <1>4

(* Ownership survives realloc, in place or by moving, in any set of ranges  *)
(* that are backed.                                                         *)
LEMMA ReallocBacks ==
  ASSUME NEW L, NEW l \in L, NEW n \in Sizes, SizesFit, HeapOK(heap),
         Backed(heap, L), bytes \subseteq Nat, Realloc(l, n)
  PROVE  /\ \E o : /\ live' = (live \ {l}) \cup {o}
                  /\ Backed(heap', (L \ {l}) \cup {o})
         /\ bytes' \subseteq Nat
<1>1. /\ L \subseteq OwnedTypes
      /\ n \in Nat /\ RequestFits(n)
      /\ DEFAULT_ALIGNMENT \in RequestAlignments
  BY RequestBounds DEF OwnershipInv, Backed, RequestAlignments, RequestFits
<1>2. /\ l.lo \in Nat /\ HeaderSize \in Nat \ {0}
      /\ \A m \in L : m.lo \in Nat
      /\ \A m \in L \ {l} : m.lo # l.lo
  BY <1>1, ConstantsAssumption DEF Backed, OwnedTypes
<1>3. CASE ReallocInPlace(l, n)
  <2> DEFINE o == Owned(l.lo, n, "malloc", Unspecified)
             g == realloc_in_place(heap, l.lo, n)
             b == l.lo - HeaderSize
  <2>1. /\ n \in 1 .. (WordSize - 1) /\ heap.header[b].capacity >= n
        /\ heap' = g /\ live' = (live \ {l}) \cup {o} /\ bytes' = bytes
    BY <1>3, ConstantsAssumption DEF ReallocInPlace, malloc_usable_size
  <2>2. /\ DOMAIN g.header = DOMAIN heap.header
        /\ \A a \in DOMAIN heap.header :
             /\ g.header[a].capacity = heap.header[a].capacity
             /\ g.header[a].is_free = heap.header[a].is_free
    BY <1>1, <2>1, InPlaceOK
  <2>3. /\ b \in DOMAIN heap.header /\ ~heap.header[b].is_free
        /\ heap.header[b].capacity \in Nat
    BY <1>1 DEF Backed, HeapOK, HeapTypeOK, BlockTypes
  <2>4. o \in OwnedTypes /\ o.lo = l.lo /\ o.hi = l.lo + n - 1
    BY <1>1, <1>2, <2>1 DEF Owned, OwnedTypes, Unspecified
  <2> HIDE DEF o, g, b
  <2>5. (L \ {l}) \cup {o} \subseteq OwnedTypes
    BY <1>1, <2>4
  <2>6. \A k, m \in (L \ {l}) \cup {o} : k # m => k.lo # m.lo
    BY <1>1, <1>2, <2>4 DEF Backed
  <2>7. ASSUME NEW m \in (L \ {l}) \cup {o}
        PROVE  /\ m.lo - HeaderSize \in DOMAIN g.header
               /\ ~g.header[m.lo - HeaderSize].is_free
               /\ m.hi < m.lo + g.header[m.lo - HeaderSize].capacity
    <3>1. CASE m = o
      <4>1. m.lo - HeaderSize = b /\ m.hi = m.lo + n - 1 /\ m.lo \in Nat
        BY <1>2, <2>4, <3>1 DEF b
      <4> QED
        BY <2>1, <2>2, <2>3, <4>1
    <3>2. CASE m \in L
      <4>1. /\ m.lo - HeaderSize \in DOMAIN heap.header
            /\ ~heap.header[m.lo - HeaderSize].is_free
            /\ m.hi < m.lo + heap.header[m.lo - HeaderSize].capacity
        BY <1>1, <3>2 DEF Backed
      <4> QED
        BY <2>2, <4>1
    <3> QED
      BY <3>1, <3>2
  <2> QED
    BY <1>1, <2>1, <2>5, <2>6, <2>7 DEF Backed
<1>4. CASE ReallocMove(l, n)
  <2> DEFINE r == malloc(heap, n)
             o == Owned(r.ptr, n, "malloc", Unspecified)
             len == AtMost(heap.header[l.lo - HeaderSize].size, n)
  <2>1. /\ r.ptr # NULL /\ heap' = free(r.heap, l.lo)
        /\ live' = (live \ {l}) \cup {o}
        /\ bytes' = memcpy(bytes, r.ptr, l.lo, len)
    BY <1>4 DEF ReallocMove
  <2>2. HeapOK(r.heap) /\ Handed(heap, r, n)
    BY <1>1, EveryRequest DEF malloc
  <2> HIDE DEF r
  <2>3. r.ptr \in Nat \ {0}
    BY <2>1, <2>2 DEF Handed, NULL
  <2>4. o \in OwnedTypes /\ o.lo = r.ptr /\ o.hi = r.ptr + n - 1
    BY <1>1, <2>3 DEF Owned, OwnedTypes, Unspecified
  <2> HIDE DEF o
  <2> HIDE DEF len
  <2>5. Backed(r.heap, L \cup {o}) /\ l.lo # o.lo
    <3>1. HeapOK(heap) /\ HeapOK(r.heap) /\ Backed(heap, L)
      BY <1>1, <2>2
    <3>2. r.ptr # NULL /\ Handed(heap, r, n) /\ n \in Nat
      BY <1>1, <2>1, <2>2
    <3>3. Backed(r.heap, L \cup {o}) /\ \A m \in L : m.lo # o.lo
      BY <2>4, <3>1, <3>2, HandedBacked
    <3> QED
      BY <3>3
  <2>6. Backed(r.heap, (L \ {l}) \cup {o})
    BY <2>5 DEF Backed
  <2>7. \A m \in (L \ {l}) \cup {o} : m.lo - HeaderSize # l.lo - HeaderSize
    BY <1>2, <2>3, <2>4, <2>5
  <2>8. Backed(free(r.heap, l.lo), (L \ {l}) \cup {o})
    BY <2>2, <2>6, <2>7, FreeBacked
  <2>9. memcpy(bytes, r.ptr, l.lo, len) \subseteq Nat
    <3>1. len \in Nat
      <4>1. heap.header[l.lo - HeaderSize].size \in Nat
        BY <1>1 DEF Backed, HeapOK, HeapTypeOK, BlockTypes
      <4> QED
        BY <1>1, <4>1 DEF AtMost, len
    <3>2. \A x \in Span(l.lo, len) : r.ptr + (x - l.lo) \in Nat
      BY <1>2, <2>3, <3>1 DEF Span
    <3> QED
      BY <1>1, <3>2 DEF memcpy
  <2> QED
    BY <2>1, <2>8, <2>9
<1> QED
  BY <1>3, <1>4 DEF Realloc

(* Ownership survives realloc.                                              *)
LEMMA ReallocKeeps ==
  ASSUME NEW n \in Sizes, NEW l \in live, SizesFit, OwnershipInv, Realloc(l, n)
  PROVE  Backed(heap', live') /\ bytes' \subseteq Nat
<1>1. /\ \E o : /\ live' = (live \ {l}) \cup {o}
               /\ Backed(heap', (live \ {l}) \cup {o})
      /\ bytes' \subseteq Nat
  BY ReallocBacks DEF OwnershipInv
<1> QED
  BY <1>1

(* A freed block backs nothing any more, and the other ranges stay backed.  *)
LEMMA FreedBacked ==
  ASSUME NEW h, NEW L, NEW l \in L, HeapOK(h), Backed(h, L)
  PROVE  Backed(free(h, l.lo), L \ {l})
<1>1. Backed(h, L \ {l})
  BY DEF Backed
<1>2. /\ \A m \in L : m.lo \in Nat
      /\ \A m \in L \ {l} : m.lo # l.lo
      /\ HeaderSize \in Nat
  BY ConstantsAssumption DEF Backed, OwnedTypes
<1>3. \A m \in L \ {l} : m.lo - HeaderSize # l.lo - HeaderSize
  BY <1>2
<1> QED
  BY <1>1, <1>3, FreeBacked

(* Cutting the tail off a mapping frees nothing, and what is left of it     *)
(* stays backed.                                                            *)
LEMMA TailBacked ==
  ASSUME NEW h, NEW L, NEW l \in L, HeapOK(h), Backed(h, L),
         MMAP_ALIGNMENT < Length(l)
  PROVE  /\ free(h, l.hi + 1 - MMAP_ALIGNMENT) = h
         /\ Backed(h, (L \ {l}) \cup {[l EXCEPT !.hi = @ - MMAP_ALIGNMENT]})
<1> DEFINE p == l.hi + 1 - MMAP_ALIGNMENT
           o == [l EXCEPT !.hi = @ - MMAP_ALIGNMENT]
<1>1. /\ L \subseteq OwnedTypes
      /\ \A m \in L : m.lo \in Nat /\ m.hi \in Nat
      /\ HeaderSize \in Nat \ {0} /\ MMAP_ALIGNMENT \in Nat \ {0}
  BY ConstantsAssumption DEF Backed, OwnedTypes
<1>2. MMAP_ALIGNMENT < l.hi + 1 - l.lo
  BY DEF Length
<1>3. p \in Nat /\ l.lo < p /\ p <= l.hi
  BY <1>1, <1>2
<1>4. free(h, p) = h
  BY <1>1, <1>3, TailIsForeign
<1>5. o \in OwnedTypes /\ o.lo = l.lo /\ o.hi = l.hi - MMAP_ALIGNMENT
  <2>1. l \in OwnedTypes
    BY <1>1
  <2>2. l.hi - MMAP_ALIGNMENT \in Nat
    BY <1>1, <1>3
  <2> QED
    BY <2>1, <2>2 DEF OwnedTypes
<1> HIDE DEF o
<1>6. /\ o.lo - HeaderSize \in DOMAIN h.header
      /\ ~h.header[o.lo - HeaderSize].is_free
      /\ o.hi < o.lo + h.header[o.lo - HeaderSize].capacity
  <2>1. h.header[l.lo - HeaderSize].capacity \in Nat
    BY <1>1, HeaderTypes DEF Backed
  <2>2. /\ l.lo - HeaderSize \in DOMAIN h.header
        /\ ~h.header[l.lo - HeaderSize].is_free
        /\ l.hi < l.lo + h.header[l.lo - HeaderSize].capacity
    BY DEF Backed
  <2>3. l.hi - MMAP_ALIGNMENT < l.lo + h.header[l.lo - HeaderSize].capacity
    BY <1>1, <2>1, <2>2
  <2> QED
    BY <1>5, <2>2, <2>3
<1>7. Backed(h, (L \ {l}) \cup {o})
  BY <1>1, <1>5, <1>6 DEF Backed
<1> QED
  BY <1>4, <1>7 DEF o

(* Every step keeps what is owned backed, when no mapping loses its head.   *)
LEMMA OwnershipStep ==
  ASSUME SizesFit, HeadTrims = FALSE, OwnershipInv, [Next]_vars
  PROVE  HeapOK(heap') /\ Backed(heap', live') /\ bytes' \subseteq Nat
<1>a. HeapOK(heap')
  <2>1. HeapOK(heap)
    BY DEF OwnershipInv
  <2> QED
    BY <2>1, HeapStep
<1>b. SUFFICES Backed(heap', live') /\ bytes' \subseteq Nat
  BY <1>a
<1>1. /\ HeapOK(heap) /\ Backed(heap, live) /\ bytes \subseteq Nat
      /\ live \subseteq OwnedTypes
      /\ \A l \in live : l.lo \in Nat /\ l.hi \in Nat
      /\ HeaderSize \in Nat \ {0} /\ MMAP_ALIGNMENT \in Nat \ {0}
  BY ConstantsAssumption DEF OwnershipInv, Backed, OwnedTypes
<1>2. /\ DEFAULT_ALIGNMENT \in RequestAlignments
      /\ MMAP_ALIGNMENT \in RequestAlignments
      /\ Alignments \subseteq RequestAlignments
  BY DEF RequestAlignments
<1>3. \A n \in Sizes : /\ RequestFits(n) /\ n \in Nat
                       /\ \A c \in Counts : RequestFits(Word(c * n))
                       /\ RequestFits(rounded(n))
  BY RequestBounds DEF RequestFits
<1>4. Unspecified \in Int /\ 0 \in Int
  BY DEF Unspecified
<1>5. ASSUME NEW n \in Sizes, Malloc(n)
      PROVE  Backed(heap', live') /\ bytes' \subseteq Nat
  BY <1>1, <1>2, <1>3, <1>4, <1>5, HandKeeps DEF Malloc, malloc
<1>6. ASSUME NEW n \in Sizes, NEW a \in Alignments,
             PosixMemalign(a, n) \/ AlignedAlloc(a, n)
      PROVE  Backed(heap', live') /\ bytes' \subseteq Nat
  BY <1>1, <1>2, <1>3, <1>4, <1>6, HandKeeps DEF PosixMemalign, AlignedAlloc
<1>7. ASSUME NEW n \in Sizes, NEW c \in Counts, Calloc(c, n)
      PROVE  Backed(heap', live') /\ bytes' \subseteq Nat
  <2>1. Hand(malloc(heap, Word(c * n)), Word(c * n), "malloc", 0)
    BY <1>7 DEF Calloc
  <2>2. Backed(heap', live')
    BY <1>2, <1>3, <1>4, <2>1, HandKeeps DEF malloc
  <2>3. bytes' \subseteq bytes
    BY <1>7 DEF Calloc, memset
  <2> QED
    BY <1>1, <2>2, <2>3
<1>8. ASSUME NEW n \in Sizes, Mmap(n)
      PROVE  Backed(heap', live') /\ bytes' \subseteq Nat
  <2>1. Hand(map_pages(rounded(n)), rounded(n), "mmap", 0)
    BY <1>8 DEF Mmap
  <2>2. Backed(heap', live')
    BY <1>2, <1>3, <1>4, <2>1, HandKeeps DEF map_pages
  <2>3. bytes' \subseteq bytes
    BY <1>8 DEF Mmap, memset
  <2> QED
    BY <1>1, <2>2, <2>3
<1>9. ASSUME NEW n \in Sizes, NEW f \in Files \cup {NoFile}, NEW o \in Offsets,
             MmapFile(n, f, o)
      PROVE  Backed(heap', live') /\ bytes' \subseteq Nat
  <2> DEFINE available == AtMost(f - o, n)
             r == map_pages(rounded(n))
  <2>1. available \in Int
    BY <1>3, <1>9, ConstantsAssumption DEF MmapFile, AtMost
  <2>2. Hand(r, rounded(n), "mmap", available)
    BY <1>9 DEF MmapFile
  <2>3. Backed(heap', live') /\ r.ptr \in Nat
    BY <1>2, <1>3, <2>1, <2>2, HandKeeps DEF map_pages
  <2>4. Span(r.ptr, available) \subseteq Nat
    BY <2>1, <2>3 DEF Span
  <2>5. bytes' \subseteq bytes \cup Span(r.ptr, available)
    BY <1>9 DEF MmapFile, memset
  <2> QED
    BY <1>1, <2>3, <2>4, <2>5
<1>10. ASSUME NEW n \in Sizes, NEW l \in live, Realloc(l, n)
       PROVE  Backed(heap', live') /\ bytes' \subseteq Nat
  BY <1>10, ReallocKeeps
<1>11. ASSUME NEW l \in live, FreeHeap(l) \/ UnmapWhole(l)
       PROVE  Backed(heap', live') /\ bytes' \subseteq Nat
  <2>1. heap' = free(heap, l.lo) /\ live' = live \ {l} /\ bytes' = bytes
    BY <1>11 DEF FreeHeap, UnmapWhole, munmap
  <2> QED
    BY <1>1, <2>1, FreedBacked
<1>12. ASSUME NEW l \in live, UnmapTail(l, MMAP_ALIGNMENT)
       PROVE  Backed(heap', live') /\ bytes' \subseteq Nat
  <2>1. /\ MMAP_ALIGNMENT < Length(l) /\ bytes' = bytes
        /\ heap' = free(heap, l.hi + 1 - MMAP_ALIGNMENT)
        /\ live' = (live \ {l}) \cup {[l EXCEPT !.hi = @ - MMAP_ALIGNMENT]}
    BY <1>12 DEF UnmapTail, munmap
  <2>2. /\ free(heap, l.hi + 1 - MMAP_ALIGNMENT) = heap
        /\ Backed(heap, (live \ {l}) \cup {[l EXCEPT !.hi = @ - MMAP_ALIGNMENT]})
    BY <1>1, <2>1, TailBacked
  <2> QED
    BY <1>1, <2>1, <2>2
<1>13. ASSUME NEW l \in live, UnmapHead(l, MMAP_ALIGNMENT)
       PROVE  FALSE
  BY <1>13 DEF UnmapHead
<1>14. ASSUME NEW l \in live, Write(l)
       PROVE  Backed(heap', live') /\ bytes' \subseteq Nat
  <2>1. heap' = heap /\ live' = live /\ bytes' = bytes \cup (l.lo .. l.hi)
    BY <1>14 DEF Write
  <2>2. (l.lo .. l.hi) \subseteq Nat
    BY <1>1
  <2> QED
    BY <1>1, <2>1, <2>2
<1>15. ASSUME NEW p \in ArenaBase .. ArenaEnd, FreeStray(p)
       PROVE  Backed(heap', live') /\ bytes' \subseteq Nat
  <2>1. /\ heap' = free(heap, p) /\ live' = live /\ bytes' = bytes
        /\ \A m \in live : m.lo # p
    BY <1>15 DEF FreeStray
  <2>2. \A m \in live : m.lo - HeaderSize # p - HeaderSize
    BY <1>1, <2>1, ConstantsAssumption
  <2> QED
    BY <1>1, <2>1, <2>2, FreeBacked
<1>16. CASE UNCHANGED vars
  BY <1>1, <1>16 DEF vars
<1> QED
  BY <1>5, <1>6, <1>7, <1>8, <1>9, <1>10, <1>11, <1>12, <1>13, <1>14, <1>15,
     <1>16 DEF Next

(* When no mapping loses its head, what a caller owns stays in a block in   *)
(* use and is never owned by another caller (ruby_alloc.c:94-232, 322-422). *)
THEOREM MemoryOwned ==
  ASSUME SizesFit, HeadTrims = FALSE
  PROVE  Spec => [](TypeOK /\ LiveExclusive)
<1>1. Init => OwnershipInv
  <2> SUFFICES ASSUME Init PROVE OwnershipInv
    OBVIOUS
  <2>1. HeapOK(heap)
    BY HeapInit
  <2>2. live = {} /\ bytes = {}
    BY DEF Init
  <2> QED
    BY <2>1, <2>2 DEF OwnershipInv, Backed
<1>2. OwnershipInv /\ [Next]_vars => OwnershipInv'
  BY OwnershipStep DEF OwnershipInv, Backed, HeapOK, HeapTypeOK, BlocksApart,
                       BlockEnd, FreeListOfFree
<1>3. OwnershipInv => TypeOK /\ LiveExclusive
  BY BackedExclusive DEF OwnershipInv, TypeOK, HeapOK, Backed
<1> QED
  BY <1>1, <1>2, <1>3, PTL DEF Spec

-----------------------------------------------------------------------------
(* Mappings that lose their heads.                                          *)

(* No block moves, grows or goes away.                                      *)
Extents(h, g) ==
  /\ DOMAIN h.header \subseteq DOMAIN g.header
  /\ \A a \in DOMAIN h.header : g.header[a].capacity = h.header[a].capacity

(* What is left of mappings that lost their heads.                          *)
Rests(h, R) ==
  /\ R \subseteq OwnedTypes
  /\ \A l \in R : l.kind = "mmap" /\ Inside(h, l)

(* The ranges are of two sorts: those backed by blocks and the rests.       *)
SplitOK(h, L) ==
  \E W, R \in SUBSET L : L = W \cup R /\ Backed(h, W) /\ Rests(h, R)

TrimInv == HeapOK(heap) /\ SplitOK(heap, live) /\ bytes \subseteq Nat

(* Marking blocks free or in use and carving new ones leaves extents alone. *)
LEMMA FreeExtents ==
  ASSUME NEW h, NEW p, HeapOK(h)
  PROVE  Extents(h, free(h, p))
<1> DEFINE b  == p - HeaderSize
           hd == [h.header EXCEPT ![b] = Block(@.size, @.capacity, TRUE)]
<1>1. CASE p = NULL \/ ~is_ours(h, p) \/ h.header[b].is_free
  BY <1>1 DEF free, Extents
<1>2. CASE ~(p = NULL \/ ~is_ours(h, p) \/ h.header[b].is_free)
  <2>1. free(h, p).header = hd
    BY <1>2, Fields DEF free
  <2>2. \A a \in DOMAIN h.header :
          hd[a] = IF a = b THEN Block(h.header[b].size, h.header[b].capacity, TRUE)
                           ELSE h.header[a]
    OBVIOUS
  <2>3. DOMAIN hd = DOMAIN h.header
    OBVIOUS
  <2> HIDE DEF hd
  <2> QED
    BY <2>1, <2>2, <2>3 DEF Extents, Block
<1> QED
  BY <1>1, <1>2

LEMMA AllocExtents ==
  ASSUME NEW h, NEW n \in Nat, NEW align \in RequestAlignments, HeapOK(h)
  PROVE  Extents(h, arena_alloc(h, n, align).heap)
<1> DEFINE size == IF n = 0 THEN 1 ELSE n
           alignment == IF align < DEFAULT_ALIGNMENT THEN DEFAULT_ALIGNMENT ELSE align
           fit == first_fit(h, size, alignment)
           at == header_for(h, alignment)
           g == arena_alloc(h, n, align).heap
<1>1. arena_alloc(h, n, align) =
        IF ~is_power_of_two(alignment) THEN Result(h, NULL)
        ELSE IF fit # 0 THEN reuse_free_block(h, fit, size)
        ELSE carve_at(h, at, size)
  BY DEF arena_alloc
<1>2. alignment \in RequestAlignments /\ alignment # 0
  <2>1. DEFAULT_ALIGNMENT \in Nat \ {0} /\ align \in Nat
    BY ConstantsAssumption DEF DEFAULT_ALIGNMENT, RequestAlignments
  <2>2. DEFAULT_ALIGNMENT \in RequestAlignments
    BY DEF RequestAlignments
  <2> QED
    BY <2>1, <2>2
<1>3. h.offset \in 0 .. ArenaSize
  BY DEF HeapOK, HeapTypeOK
<1> HIDE DEF size, alignment, fit
<1>4. CASE ~is_power_of_two(alignment)
  BY <1>1, <1>4, Fields DEF Extents
<1>5. CASE is_power_of_two(alignment) /\ fit # 0
  <2> DEFINE b  == h.free_list[fit]
             hd == [h.header EXCEPT ![b] = Block(size, @.capacity, FALSE)]
  <2>1. g.header = hd
    BY <1>1, <1>5, Fields DEF reuse_free_block
  <2>2. \A a \in DOMAIN h.header :
          hd[a] = IF a = b THEN Block(size, h.header[b].capacity, FALSE)
                           ELSE h.header[a]
    OBVIOUS
  <2>3. DOMAIN hd = DOMAIN h.header
    OBVIOUS
  <2> HIDE DEF hd, g
  <2>4. Extents(h, g)
    BY <2>1, <2>2, <2>3 DEF Extents, Block
  <2> QED
    BY <2>4 DEF g
<1>6. CASE is_power_of_two(alignment) /\ fit = 0
  <2> DEFINE hd == [a \in DOMAIN h.header \cup {at} |->
                      IF a = at THEN Block(size, size, FALSE) ELSE h.header[a]]
  <2>1. g = h \/ g.header = hd
    BY <1>1, <1>6, Fields DEF carve_at
  <2>2. at \in Nat /\ at >= ArenaBase + h.offset
    BY <1>2, <1>3, HeaderPlace, ConstantsAssumption
  <2>3. at \notin DOMAIN h.header
    <3> SUFFICES ASSUME at \in DOMAIN h.header PROVE FALSE
      OBVIOUS
    <3>1. BlockEnd(h, at) <= ArenaBase + h.offset
      BY DEF HeapOK, BlocksApart
    <3>2. h.header[at].capacity \in Nat
      BY HeaderTypes
    <3> HIDE DEF at
    <3> QED
      BY <1>3, <2>2, <3>1, <3>2, ConstantsAssumption DEF BlockEnd
  <2>4. DOMAIN hd = DOMAIN h.header \cup {at}
    OBVIOUS
  <2>5. \A a \in DOMAIN h.header : hd[a] = h.header[a]
    BY <2>3
  <2> HIDE DEF hd, g, at
  <2>6. Extents(h, g)
    BY <2>1, <2>4, <2>5 DEF Extents
  <2> QED
    BY <2>6 DEF g
<1> QED
  BY <1>4, <1>5, <1>6

(* Rests stay rests as long as the blocks stay where they are.              *)
LEMMA RestsStay ==
  ASSUME NEW h, NEW g, NEW R, Rests(h, R), Extents(h, g)
  PROVE  Rests(g, R)
<1>1. ASSUME NEW l \in R
      PROVE  Inside(g, l)
  <2>1. PICK a \in DOMAIN h.header :
          a + HeaderSize < l.lo /\ l.lo <= l.hi /\ l.hi < BlockEnd(h, a)
    BY DEF Rests, Inside
  <2>2. a \in DOMAIN g.header /\ BlockEnd(g, a) = BlockEnd(h, a)
    BY DEF Extents, BlockEnd
  <2> QED
    BY <2>1, <2>2 DEF Inside
<1> QED
  BY <1>1 DEF Rests

(* An address in a rest is no block's payload: munmap does not know it.     *)
LEMMA RestIsForeign ==
  ASSUME NEW h, NEW l \in OwnedTypes, NEW p \in Nat, HeapOK(h), Inside(h, l),
         l.lo <= p, p <= l.hi
  PROVE  ~is_ours(h, p) /\ free(h, p) = h
<1>1. PICK b \in DOMAIN h.header :
        b + HeaderSize < l.lo /\ l.lo <= l.hi /\ l.hi < BlockEnd(h, b)
  BY DEF Inside
<1>2. /\ HeaderSize \in Nat \ {0} /\ l.lo \in Nat /\ l.hi \in Nat
      /\ \A c \in DOMAIN h.header : c \in Nat /\ h.header[c].capacity \in Nat
  BY ConstantsAssumption, HeaderTypes DEF OwnedTypes
<1>3. ASSUME p - HeaderSize \in DOMAIN h.header
      PROVE  FALSE
  <2> DEFINE a == p - HeaderSize
  <2>1. a # b /\ a \in Nat /\ b \in Nat
    BY <1>1, <1>2, <1>3
  <2>2. BlockEnd(h, a) <= b \/ BlockEnd(h, b) <= a
    BY <1>3, <2>1 DEF HeapOK, BlocksApart
  <2> QED
    BY <1>1, <1>2, <1>3, <2>1, <2>2 DEF BlockEnd
<1> QED
  BY <1>3 DEF is_ours, free

(* The sort of a range shows in the heap: the rests are the ranges that do  *)
(* not start a block.                                                       *)
LEMMA SplitHarmless ==
  ASSUME TrimInv
  PROVE  TrimHarmsOnlyTheRest
<1>1. PICK W, R \in SUBSET live :
        live = W \cup R /\ Backed(heap, W) /\ Rests(heap, R)
  BY DEF TrimInv, SplitOK
<1>2. HeapOK(heap)
  BY DEF TrimInv
<1>3. \A l \in R : ~is_ours(heap, l.lo)
  <2> SUFFICES ASSUME NEW l \in R PROVE ~is_ours(heap, l.lo)
    OBVIOUS
  <2>1. l \in OwnedTypes /\ Inside(heap, l)
    BY <1>1 DEF Rests
  <2>2. l.lo \in Nat /\ l.lo <= l.hi
    BY <2>1 DEF OwnedTypes, Inside
  <2>3. l.lo <= l.lo
    BY <2>2
  <2> QED
    BY <1>2, <2>1, <2>2, <2>3, RestIsForeign
<1>4. \A l \in W : /\ is_ours(heap, l.lo)
                  /\ ~heap.header[l.lo - HeaderSize].is_free
                  /\ l.hi < l.lo + malloc_usable_size(heap, l.lo)
  BY <1>1 DEF Backed, is_ours, malloc_usable_size
<1>5. \A l, m \in W : l # m => l.lo # m.lo /\ (l.hi < m.lo \/ m.hi < l.lo)
  BY <1>1, <1>2, BackedApart
<1>6. {l \in live : StartsItsBlock(heap, l)} = W
  BY <1>1, <1>3, <1>4 DEF StartsItsBlock
<1>7. \A l \in live \ W : l.kind = "mmap" /\ Inside(heap, l)
  BY <1>1 DEF Rests
<1> QED
  BY <1>4, <1>5, <1>6, <1>7 DEF TrimHarmsOnlyTheRest

(* An allocation adds a backed range, or nothing.                           *)
LEMMA HandSplits ==
  ASSUME NEW n, NEW align, NEW kind \in {"malloc", "mmap"}, NEW data \in Int,
         SizesFit, TrimInv, RequestFits(n), align \in RequestAlignments,
         Hand(arena_alloc(heap, n, align), n, kind, data)
  PROVE  SplitOK(heap', live') /\ arena_alloc(heap, n, align).ptr \in Nat
<1> DEFINE r == arena_alloc(heap, n, align)
           o == Owned(r.ptr, n, kind, data)
<1>1. HeapOK(r.heap) /\ Handed(heap, r, n) /\ n \in Nat /\ HeapOK(heap)
  BY EveryRequest DEF TrimInv, RequestFits
<1>2. heap' = r.heap /\ live' = IF r.ptr = NULL THEN live ELSE live \cup {o}
  BY DEF Hand
<1>3. PICK W, R \in SUBSET live :
        live = W \cup R /\ Backed(heap, W) /\ Rests(heap, R)
  BY DEF TrimInv, SplitOK
<1>4. Rests(r.heap, R)
  <2>1. Extents(heap, r.heap)
    BY <1>1, AllocExtents
  <2> HIDE DEF r
  <2> QED
    BY <1>3, <2>1, RestsStay
<1> HIDE DEF r
<1>5. CASE r.ptr = NULL
  <2>1. r.heap = heap /\ r.ptr \in Nat
    BY <1>1, <1>5 DEF Handed, NULL
  <2>2. SplitOK(heap', live')
    BY <1>2, <1>5, <2>1 DEF TrimInv
  <2> QED
    BY <2>1, <2>2 DEF r
<1>6. CASE r.ptr # NULL
  <2>1. r.ptr \in Nat \ {0}
    BY <1>1, <1>6 DEF Handed, NULL
  <2>2. o \in OwnedTypes /\ o.lo = r.ptr /\ o.hi = r.ptr + n - 1
    BY <1>1, <2>1 DEF Owned, OwnedTypes
  <2> HIDE DEF o
  <2>3. Backed(r.heap, W \cup {o})
    BY <1>1, <1>3, <1>6, <2>2, HandedBacked
  <2>4. live' = (W \cup {o}) \cup R
    BY <1>2, <1>3, <1>6
  <2>5. SplitOK(heap', live')
    BY <1>2, <1>4, <2>3, <2>4 DEF SplitOK
  <2> QED
    BY <2>1, <2>5 DEF r
<1> QED
  BY <1>5, <1>6

(* realloc is for ranges that are backed, and leaves the rests as they are. *)
LEMMA ReallocSplits ==
  ASSUME NEW n \in Sizes, NEW l \in live, SizesFit, TrimInv, Realloc(l, n)
  PROVE  SplitOK(heap', live') /\ bytes' \subseteq Nat
<1>1. HeapOK(heap) /\ bytes \subseteq Nat
  BY DEF TrimInv
<1>2. PICK W, R \in SUBSET live :
        live = W \cup R /\ Backed(heap, W) /\ Rests(heap, R)
  BY DEF TrimInv, SplitOK
<1>3. l.kind = "malloc"
  BY DEF Realloc, ReallocInPlace, ReallocMove
<1>4. l \in W /\ l \notin R
  BY <1>2, <1>3 DEF Rests
<1>5. /\ \E o : /\ live' = (live \ {l}) \cup {o}
               /\ Backed(heap', (W \ {l}) \cup {o})
      /\ bytes' \subseteq Nat
  BY <1>1, <1>2, <1>4, ReallocBacks
<1>6. PICK o : /\ live' = (live \ {l}) \cup {o}
               /\ Backed(heap', (W \ {l}) \cup {o})
  BY <1>5
<1>7. Extents(heap, heap')
  <2>1. n \in Nat /\ RequestFits(n) /\ DEFAULT_ALIGNMENT \in RequestAlignments
    BY RequestBounds DEF RequestFits, RequestAlignments
  <2>2. CASE ReallocInPlace(l, n)
    <3>1. heap' = realloc_in_place(heap, l.lo, n) /\ n \in 1 .. (WordSize - 1)
      BY <2>2, ConstantsAssumption DEF ReallocInPlace
    <3> QED
      BY <1>1, <3>1, InPlaceOK DEF Extents
  <2>3. CASE ReallocMove(l, n)
    <3> DEFINE g == malloc(heap, n).heap
    <3>1. heap' = free(g, l.lo)
      BY <2>3 DEF ReallocMove
    <3>2. HeapOK(g) /\ Extents(heap, g)
      BY <1>1, <2>1, EveryRequest, AllocExtents DEF malloc
    <3> HIDE DEF g
    <3>3. Extents(g, heap')
      BY <3>1, <3>2, FreeExtents
    <3> QED
      BY <3>2, <3>3 DEF Extents
  <2> QED
    BY <2>2, <2>3 DEF Realloc
<1>8. Rests(heap', R)
  BY <1>2, <1>7, RestsStay
<1>9. live' = ((W \ {l}) \cup {o}) \cup R
  BY <1>2, <1>4, <1>6
<1> QED
  BY <1>5, <1>6, <1>8, <1>9 DEF SplitOK

(* What is left when a range is given up.                                   *)
LEMMA GivenUpSplits ==
  ASSUME NEW l \in live, TrimInv, FreeHeap(l) \/ UnmapWhole(l)
  PROVE  SplitOK(heap', live')
<1>1. HeapOK(heap)
  BY DEF TrimInv
<1>2. PICK W, R \in SUBSET live :
        live = W \cup R /\ Backed(heap, W) /\ Rests(heap, R)
  BY DEF TrimInv, SplitOK
<1>3. heap' = free(heap, l.lo) /\ live' = live \ {l}
  BY DEF FreeHeap, UnmapWhole, munmap
<1>4. Rests(heap', R \ {l})
  <2>1. Rests(heap, R \ {l})
    BY <1>2 DEF Rests
  <2> QED
    BY <1>1, <1>3, <2>1, FreeExtents, RestsStay
<1>5. CASE l \in W
  <2>1. Backed(heap', W \ {l})
    BY <1>1, <1>2, <1>3, <1>5, FreedBacked
  <2>2. live' = (W \ {l}) \cup (R \ {l})
    BY <1>2, <1>3
  <2> QED
    BY <1>4, <2>1, <2>2 DEF SplitOK
<1>6. CASE l \notin W
  <2>1. l \in OwnedTypes /\ Inside(heap, l)
    BY <1>2, <1>6 DEF Rests
  <2>2. l.lo \in Nat /\ l.lo <= l.lo /\ l.lo <= l.hi
    BY <2>1 DEF OwnedTypes, Inside
  <2>3. heap' = heap
    BY <1>1, <1>3, <2>1, <2>2, RestIsForeign
  <2>4. live' = W \cup (R \ {l})
    BY <1>2, <1>3, <1>6
  <2> QED
    BY <1>2, <1>4, <2>3, <2>4 DEF SplitOK
<1> QED
  BY <1>5, <1>6

(* What is left when the tail of a range is cut off.                        *)
LEMMA TailSplits ==
  ASSUME NEW l \in live, TrimInv, UnmapTail(l, MMAP_ALIGNMENT)
  PROVE  SplitOK(heap', live')
<1> DEFINE p == l.hi + 1 - MMAP_ALIGNMENT
           o == [l EXCEPT !.hi = @ - MMAP_ALIGNMENT]
<1>1. HeapOK(heap) /\ HeaderSize \in Nat \ {0} /\ MMAP_ALIGNMENT \in Nat \ {0}
  BY ConstantsAssumption DEF TrimInv
<1>2. PICK W, R \in SUBSET live :
        live = W \cup R /\ Backed(heap, W) /\ Rests(heap, R)
  BY DEF TrimInv, SplitOK
<1>3. /\ MMAP_ALIGNMENT < Length(l)
      /\ heap' = free(heap, p) /\ live' = (live \ {l}) \cup {o}
  BY DEF UnmapTail, munmap
<1>4. l \in OwnedTypes /\ l.lo \in Nat /\ l.hi \in Nat
  BY <1>2 DEF Backed, Rests, OwnedTypes
<1>5. p \in Nat /\ l.lo < p /\ p <= l.hi
  BY <1>1, <1>3, <1>4 DEF Length
<1>6. CASE l \in W
  <2>1. heap' = heap /\ Backed(heap, (W \ {l}) \cup {o})
    BY <1>1, <1>2, <1>3, <1>6, TailBacked
  <2>2. Rests(heap, R \ {l})
    BY <1>2 DEF Rests
  <2>3. live' = ((W \ {l}) \cup {o}) \cup (R \ {l})
    BY <1>2, <1>3
  <2> HIDE DEF o
  <2> QED
    BY <2>1, <2>2, <2>3 DEF SplitOK
<1>7. CASE l \notin W
  <2>1. l.kind = "mmap" /\ Inside(heap, l)
    BY <1>2, <1>7 DEF Rests
  <2>2. heap' = heap
    <3>1. l.lo <= p
      BY <1>4, <1>5
    <3> HIDE DEF p
    <3> QED
      BY <1>1, <1>3, <1>4, <1>5, <2>1, <3>1, RestIsForeign
  <2>3. /\ o \in OwnedTypes /\ o.kind = "mmap"
        /\ o.lo = l.lo /\ o.hi = l.hi - MMAP_ALIGNMENT
    <3>1. l.hi - MMAP_ALIGNMENT \in Nat
      BY <1>1, <1>4, <1>5
    <3> QED
      BY <1>4, <2>1, <3>1 DEF OwnedTypes
  <2> HIDE DEF o
  <2>4. Inside(heap, o)
    <3>1. PICK a \in DOMAIN heap.header :
            a + HeaderSize < l.lo /\ l.lo <= l.hi /\ l.hi < BlockEnd(heap, a)
      BY <2>1 DEF Inside
    <3>2. BlockEnd(heap, a) \in Nat
      BY <1>1, HeaderTypes DEF BlockEnd
    <3>3. o.lo <= o.hi /\ o.hi < BlockEnd(heap, a)
      BY <1>1, <1>4, <1>5, <2>3, <3>1, <3>2
    <3> QED
      BY <2>3, <3>1, <3>3 DEF Inside
  <2>5. Rests(heap, (R \ {l}) \cup {o})
    BY <1>2, <2>3, <2>4 DEF Rests
  <2>6. live' = W \cup ((R \ {l}) \cup {o})
    BY <1>2, <1>3, <1>7
  <2> QED
    BY <1>2, <2>2, <2>5, <2>6 DEF SplitOK
<1> QED
  BY <1>6, <1>7

(* A range whose head is unmapped becomes a rest, or stays one.             *)
LEMMA HeadSplits ==
  ASSUME NEW l \in live, TrimInv, UnmapHead(l, MMAP_ALIGNMENT)
  PROVE  SplitOK(heap', live')
<1> DEFINE o == [l EXCEPT !.lo = @ + MMAP_ALIGNMENT]
<1>1. HeapOK(heap) /\ HeaderSize \in Nat \ {0} /\ MMAP_ALIGNMENT \in Nat \ {0}
  BY ConstantsAssumption DEF TrimInv
<1>2. PICK W, R \in SUBSET live :
        live = W \cup R /\ Backed(heap, W) /\ Rests(heap, R)
  BY DEF TrimInv, SplitOK
<1>3. /\ l.kind = "mmap" /\ MMAP_ALIGNMENT < Length(l)
      /\ heap' = free(heap, l.lo) /\ live' = (live \ {l}) \cup {o}
  BY DEF UnmapHead, munmap
<1>4. l \in OwnedTypes /\ l.lo \in Nat /\ l.hi \in Nat
  BY <1>2 DEF Backed, Rests, OwnedTypes
<1>5. /\ o \in OwnedTypes /\ o.kind = "mmap"
      /\ o.lo = l.lo + MMAP_ALIGNMENT /\ o.hi = l.hi
  BY <1>1, <1>3, <1>4 DEF OwnedTypes
<1> HIDE DEF o
<1>6. o.lo \in Nat /\ l.lo < o.lo /\ o.lo <= o.hi
  BY <1>1, <1>3, <1>4, <1>5 DEF Length
<1>7. Extents(heap, heap')
  BY <1>1, <1>3, FreeExtents
<1>8. Rests(heap', R \ {l})
  <2>1. Rests(heap, R \ {l})
    BY <1>2 DEF Rests
  <2> QED
    BY <1>7, <2>1, RestsStay
<1>9. Inside(heap, o)
  <2>1. CASE l \in W
    <3> DEFINE a == l.lo - HeaderSize
    <3>1. a \in DOMAIN heap.header /\ l.hi < l.lo + heap.header[a].capacity
      BY <1>2, <2>1 DEF Backed
    <3>2. heap.header[a].capacity \in Nat
      BY <1>1, <3>1, HeaderTypes
    <3>3. a + HeaderSize < o.lo /\ o.hi < BlockEnd(heap, a)
      BY <1>1, <1>4, <1>5, <1>6, <3>1, <3>2 DEF BlockEnd
    <3> QED
      BY <1>6, <3>1, <3>3 DEF Inside
  <2>2. CASE l \in R
    <3>1. PICK a \in DOMAIN heap.header :
            a + HeaderSize < l.lo /\ l.lo <= l.hi /\ l.hi < BlockEnd(heap, a)
      BY <1>2, <2>2 DEF Rests, Inside
    <3>2. a \in Nat
      BY <1>1, HeaderTypes
    <3>3. a + HeaderSize < o.lo
      BY <1>1, <1>4, <1>6, <3>1, <3>2
    <3> QED
      BY <1>5, <1>6, <3>1, <3>3 DEF Inside
  <2> QED
    BY <1>2, <2>1, <2>2
<1>10. Rests(heap', (R \ {l}) \cup {o})
  <2>1. Rests(heap, {o})
    BY <1>5, <1>9 DEF Rests
  <2>2. Rests(heap', {o})
    BY <1>7, <2>1, RestsStay
  <2> QED
    BY <1>8, <2>2 DEF Rests
<1>11. Backed(heap', W \ {l})
  <2>1. CASE l \in W
    BY <1>1, <1>2, <1>3, <2>1, FreedBacked
  <2>2. CASE l \notin W
    <3>1. Inside(heap, l)
      BY <1>2, <2>2 DEF Rests
    <3>2. l.lo <= l.lo /\ l.lo <= l.hi
      BY <1>4, <3>1 DEF Inside
    <3>3. heap' = heap /\ W \ {l} = W
      BY <1>1, <1>3, <1>4, <2>2, <3>1, <3>2, RestIsForeign
    <3> QED
      BY <1>2, <3>3
  <2> QED
    BY <2>1, <2>2
<1>12. live' = (W \ {l}) \cup ((R \ {l}) \cup {o})
  BY <1>2, <1>3
<1> QED
  BY <1>10, <1>11, <1>12 DEF SplitOK

(* A stray pointer is no range's start, so what it frees backs nothing.     *)
LEMMA StraySplits ==
  ASSUME NEW p \in ArenaBase .. ArenaEnd, TrimInv, FreeStray(p)
  PROVE  SplitOK(heap', live')
<1>1. HeapOK(heap) /\ HeaderSize \in Nat
  BY ConstantsAssumption DEF TrimInv
<1>2. PICK W, R \in SUBSET live :
        live = W \cup R /\ Backed(heap, W) /\ Rests(heap, R)
  BY DEF TrimInv, SplitOK
<1>3. heap' = free(heap, p) /\ live' = live /\ \A m \in live : m.lo # p
  BY DEF FreeStray
<1>4. \A m \in W : m.lo \in Nat /\ m.lo # p
  BY <1>2, <1>3 DEF Backed, OwnedTypes
<1>5. p \in Int
  BY ConstantsAssumption DEF ArenaEnd
<1>6. \A m \in W : m.lo - HeaderSize # p - HeaderSize
  BY <1>1, <1>4, <1>5
<1>7. Backed(heap', W)
  BY <1>1, <1>2, <1>3, <1>6, FreeBacked
<1>8. Rests(heap', R)
  BY <1>1, <1>2, <1>3, FreeExtents, RestsStay
<1> QED
  BY <1>2, <1>3, <1>7, <1>8 DEF SplitOK

(* Every step, head trims included, leaves backed ranges and rests.         *)
LEMMA TrimStep ==
  ASSUME SizesFit, TrimInv, [Next]_vars
  PROVE  HeapOK(heap') /\ SplitOK(heap', live') /\ bytes' \subseteq Nat
<1>a. HeapOK(heap')
  <2>1. HeapOK(heap)
    BY DEF TrimInv
  <2> QED
    BY <2>1, HeapStep
<1>b. SUFFICES SplitOK(heap', live') /\ bytes' \subseteq Nat
  BY <1>a
<1>1. /\ bytes \subseteq Nat /\ SplitOK(heap, live)
      /\ \A l \in live : l.lo \in Nat /\ l.hi \in Nat
  BY DEF TrimInv, SplitOK, Backed, Rests, OwnedTypes
<1>2. /\ DEFAULT_ALIGNMENT \in RequestAlignments
      /\ MMAP_ALIGNMENT \in RequestAlignments
      /\ Alignments \subseteq RequestAlignments
  BY DEF RequestAlignments
<1>3. \A n \in Sizes : /\ RequestFits(n) /\ n \in Nat
                       /\ \A c \in Counts : RequestFits(Word(c * n))
                       /\ RequestFits(rounded(n))
  BY RequestBounds DEF RequestFits
<1>4. Unspecified \in Int /\ 0 \in Int
  BY DEF Unspecified
<1>5. ASSUME NEW n \in Sizes, Malloc(n)
      PROVE  SplitOK(heap', live') /\ bytes' \subseteq Nat
  BY <1>1, <1>2, <1>3, <1>4, <1>5, HandSplits DEF Malloc, malloc
<1>6. ASSUME NEW n \in Sizes, NEW a \in Alignments,
             PosixMemalign(a, n) \/ AlignedAlloc(a, n)
      PROVE  SplitOK(heap', live') /\ bytes' \subseteq Nat
  BY <1>1, <1>2, <1>3, <1>4, <1>6, HandSplits DEF PosixMemalign, AlignedAlloc
<1>7. ASSUME NEW n \in Sizes, NEW c \in Counts, Calloc(c, n)
      PROVE  SplitOK(heap', live') /\ bytes' \subseteq Nat
  <2>1. Hand(malloc(heap, Word(c * n)), Word(c * n), "malloc", 0)
    BY <1>7 DEF Calloc
  <2>2. SplitOK(heap', live')
    BY <1>2, <1>3, <1>4, <2>1, HandSplits DEF malloc
  <2>3. bytes' \subseteq bytes
    BY <1>7 DEF Calloc, memset
  <2> QED
    BY <1>1, <2>2, <2>3
<1>8. ASSUME NEW n \in Sizes, Mmap(n)
      PROVE  SplitOK(heap', live') /\ bytes' \subseteq Nat
  <2>1. Hand(map_pages(rounded(n)), rounded(n), "mmap", 0)
    BY <1>8 DEF Mmap
  <2>2. SplitOK(heap', live')
    BY <1>2, <1>3, <1>4, <2>1, HandSplits DEF map_pages
  <2>3. bytes' \subseteq bytes
    BY <1>8 DEF Mmap, memset
  <2> QED
    BY <1>1, <2>2, <2>3
<1>9. ASSUME NEW n \in Sizes, NEW f \in Files \cup {NoFile}, NEW o \in Offsets,
             MmapFile(n, f, o)
      PROVE  SplitOK(heap', live') /\ bytes' \subseteq Nat
  <2> DEFINE available == AtMost(f - o, n)
             r == map_pages(rounded(n))
  <2>1. available \in Int
    BY <1>3, <1>9, ConstantsAssumption DEF MmapFile, AtMost
  <2>2. Hand(r, rounded(n), "mmap", available)
    BY <1>9 DEF MmapFile
  <2>3. SplitOK(heap', live') /\ r.ptr \in Nat
    BY <1>2, <1>3, <2>1, <2>2, HandSplits DEF map_pages
  <2>4. Span(r.ptr, available) \subseteq Nat
    BY <2>1, <2>3 DEF Span
  <2>5. bytes' \subseteq bytes \cup Span(r.ptr, available)
    BY <1>9 DEF MmapFile, memset
  <2> QED
    BY <1>1, <2>3, <2>4, <2>5
<1>10. ASSUME NEW n \in Sizes, NEW l \in live, Realloc(l, n)
       PROVE  SplitOK(heap', live') /\ bytes' \subseteq Nat
  BY <1>10, ReallocSplits
<1>11. ASSUME NEW l \in live,
              \/ FreeHeap(l) \/ UnmapWhole(l)
              \/ UnmapTail(l, MMAP_ALIGNMENT) \/ UnmapHead(l, MMAP_ALIGNMENT)
       PROVE  SplitOK(heap', live') /\ bytes' \subseteq Nat
  <2>1. bytes' = bytes
    BY <1>11 DEF FreeHeap, UnmapWhole, UnmapTail, UnmapHead
  <2> QED
    BY <1>1, <1>11, <2>1, GivenUpSplits, TailSplits, HeadSplits
<1>12. ASSUME NEW l \in live, Write(l)
       PROVE  SplitOK(heap', live') /\ bytes' \subseteq Nat
  <2>1. heap' = heap /\ live' = live /\ bytes' = bytes \cup (l.lo .. l.hi)
    BY <1>12 DEF Write
  <2>2. (l.lo .. l.hi) \subseteq Nat
    BY <1>1
  <2> QED
    BY <1>1, <2>1, <2>2
<1>13. ASSUME NEW p \in ArenaBase .. ArenaEnd, FreeStray(p)
       PROVE  SplitOK(heap', live') /\ bytes' \subseteq Nat
  BY <1>1, <1>13, StraySplits DEF FreeStray
<1>14. CASE UNCHANGED vars
  BY <1>1, <1>14 DEF vars
<1> QED
  BY <1>5, <1>6, <1>7, <1>8, <1>9, <1>10, <1>11, <1>12, <1>13, <1>14 DEF Next

(* Whatever callers unmap, the types hold, and all of the damage that head  *)
(* trims do is to what is left of the mappings that lost their heads        *)
(* (ruby_alloc.c:94-232, 322-422).                                          *)
THEOREM TrimsHarmOnlyTheRest ==
  ASSUME SizesFit
  PROVE  Spec => [](TypeOK /\ TrimHarmsOnlyTheRest)
<1>1. Init => TrimInv
  <2> SUFFICES ASSUME Init PROVE TrimInv
    OBVIOUS
  <2>1. HeapOK(heap)
    BY HeapInit
  <2>2. live = {} /\ bytes = {}
    BY DEF Init
  <2>3. Backed(heap, {}) /\ Rests(heap, {})
    BY DEF Backed, Rests
  <2> QED
    BY <2>1, <2>2, <2>3 DEF TrimInv, SplitOK
<1>2. TrimInv /\ [Next]_vars => TrimInv'
  BY TrimStep DEF TrimInv, SplitOK, Rests, Inside, Backed, HeapOK, HeapTypeOK,
                  BlocksApart, BlockEnd, FreeListOfFree
<1>3. TrimInv => TypeOK /\ TrimHarmsOnlyTheRest
  <2> SUFFICES ASSUME TrimInv PROVE TypeOK /\ TrimHarmsOnlyTheRest
    OBVIOUS
  <2>1. live \subseteq OwnedTypes
    BY DEF TrimInv, SplitOK, Backed, Rests
  <2> QED
    BY <2>1, SplitHarmless DEF TypeOK, TrimInv, HeapOK
<1> QED
  BY <1>1, <1>2, <1>3, PTL DEF Spec
=============================================================================
