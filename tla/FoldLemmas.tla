----------------------------- MODULE FoldLemmas ------------------------------
(***************************************************************************)
(* What the proofs need to know of folds over a sequence.  FoldLeft of the  *)
(* community modules is a function on the sets of indices: on a set it is   *)
(* the operator applied to what it is on the set without its largest index, *)
(* and to the element there.  Nothing here speaks of the operator itself, so *)
(* that each fold of the models can cite these facts for its own.           *)
(***************************************************************************)
EXTENDS SequencesExt, FiniteSetTheorems, WellFoundedInduction, TLAPS

(* Induction on the numbers, for a set of them.                             *)
LEMMA NumberInduction ==
  ASSUME NEW S \in SUBSET Nat, 0 \in S, \A n \in S : n + 1 \in S
  PROVE  S = Nat
<1> DEFINE T == Nat \ S
<1>1. SUFFICES ASSUME T # {} PROVE FALSE
  OBVIOUS
<1>2. PICK m \in T : \A n \in T : ~(<<n, m>> \in OpToRel(<, Nat))
  BY <1>1, NatLessThanWellFounded, WFMin
<1>3. m \in Nat /\ m # 0 /\ m - 1 \in Nat /\ m - 1 < m
  OBVIOUS
<1>4. m - 1 \in S
  <2>1. ASSUME m - 1 \in T PROVE FALSE
    <3>1. <<m - 1, m>> \in OpToRel(<, Nat)
      BY <1>3, Zenon DEF OpToRel
    <3> QED
      BY <1>2, <2>1, <3>1
  <2> QED
    BY <1>3, <2>1
<1>5. (m - 1) + 1 = m
  BY <1>3
<1> QED
  BY <1>4, <1>5

(* And from all smaller numbers to the number.                               *)
LEMMA StrongInduction ==
  ASSUME NEW S \in SUBSET Nat, \A n \in Nat : (\A m \in 0 .. (n - 1) : m \in S) => n \in S
  PROVE  S = Nat
<1> DEFINE T == Nat \ S
<1>1. SUFFICES ASSUME T # {} PROVE FALSE
  OBVIOUS
<1>2. PICK m \in T : \A n \in T : ~(<<n, m>> \in OpToRel(<, Nat))
  BY <1>1, NatLessThanWellFounded, WFMin
<1>3. ASSUME NEW n \in 0 .. (m - 1) PROVE n \in S
  <2> SUFFICES ASSUME n \notin S PROVE FALSE
    OBVIOUS
  <2>1. n \in Nat /\ m \in Nat /\ n < m /\ n \in T
    OBVIOUS
  <2>2. <<n, m>> \in OpToRel(<, Nat)
    BY <2>1, Zenon DEF OpToRel
  <2> QED BY <1>2, <2>1, <2>2
<1> QED BY <1>3

(* The largest of some indices.                                             *)
LEMMA MaxOf ==
  ASSUME NEW n \in Nat, NEW s \in SUBSET (1 .. n), s # {}
  PROVE  Max(s) \in s /\ \A j \in s : Max(s) >= j
<1> DEFINE Bounded(k) ==
             \A t \in SUBSET (1 .. k) : t # {} => \E i \in t : \A j \in t : i >= j
           B == {k \in Nat : Bounded(k)}
<1>1. 0 \in B
  <2>1. \A t \in SUBSET (1 .. 0) : t = {}
    OBVIOUS
  <2> QED
    BY <2>1
<1>2. ASSUME NEW k \in B PROVE k + 1 \in B
  <2>1. k \in Nat /\ Bounded(k)
    OBVIOUS
  <2>2. ASSUME NEW t \in SUBSET (1 .. (k + 1)), t # {}
        PROVE  \E i \in t : \A j \in t : i >= j
    <3>1. CASE k + 1 \in t
      BY <2>1, <3>1
    <3>2. CASE k + 1 \notin t
      <4>1. t \in SUBSET (1 .. k)
        BY <2>1, <2>2, <3>2
      <4> QED
        BY <2>1, <2>2, <4>1
    <3> QED
      BY <3>1, <3>2
  <2> QED
    BY <2>1, <2>2
<1> HIDE DEF B
<1>3. B = Nat
  <2>1. B \in SUBSET Nat
    BY DEF B
  <2> QED
    BY <1>1, <1>2, <2>1, NumberInduction, Zenon
<1>4. Bounded(n)
  BY <1>3 DEF B
<1>5. PICK i \in s : \A j \in s : i >= j
  BY <1>4
<1> QED
  BY <1>5 DEF Max

(* Induction on the sets of indices, from a set without its largest index   *)
(* to the set.                                                              *)
LEMMA IndexInduction ==
  ASSUME NEW n \in Nat, NEW P \in SUBSET (SUBSET (1 .. n)), {} \in P,
         \A s \in SUBSET (1 .. n) : s # {} /\ s \ {Max(s)} \in P => s \in P
  PROVE  P = SUBSET (1 .. n)
<1> DEFINE Below(k) == \A s \in SUBSET (1 .. n) : s \subseteq 1 .. k => s \in P
           B == {k \in Nat : Below(k)}
<1>1. 0 \in B
  <2>1. \A s \in SUBSET (1 .. n) : s \subseteq 1 .. 0 => s = {}
    OBVIOUS
  <2> QED
    BY <2>1
<1>2. ASSUME NEW k \in B PROVE k + 1 \in B
  <2>1. k \in Nat /\ Below(k)
    OBVIOUS
  <2>2. ASSUME NEW s \in SUBSET (1 .. n), s \subseteq 1 .. (k + 1), s # {}
        PROVE  s \in P
    <3>1. Max(s) \in s /\ \A j \in s : Max(s) >= j
      BY <2>2, MaxOf
    <3>2. ASSUME NEW i \in s \ {Max(s)} PROVE i \in 1 .. k
      <4>1. i \in 1 .. (k + 1) /\ Max(s) \in 1 .. (k + 1) /\ Max(s) >= i /\ Max(s) # i
        BY <2>2, <3>1
      <4> QED
        BY <2>1, <4>1
    <3>3. s \ {Max(s)} \in P
      BY <2>1, <3>2
    <3> QED
      BY <2>2, <3>3
  <2> QED
    BY <2>1, <2>2
<1> HIDE DEF B
<1>3. B = Nat
  <2>1. B \in SUBSET Nat
    BY DEF B
  <2> QED
    BY <1>1, <1>2, <2>1, NumberInduction, Zenon
<1>4. Below(n)
  BY <1>3 DEF B
<1> QED
  BY <1>4

(* g is the fold of F over the first n elements of seq, and the folds       *)
(* before it.                                                               *)
Folds(g, F, base, seq, n) ==
  \A s \in SUBSET (1 .. n) :
    g[s] = IF s = {} THEN base ELSE F[<<g[s \ {Max(s)}], seq[Max(s)]>>]

(* The fold of a function that keeps to a set, one element further.         *)
LEMMA FoldFurther ==
  ASSUME NEW A, NEW B, NEW F \in [A \X B -> A], NEW base,
         NEW n \in Nat, NEW seq \in [1 .. n -> B], NEW k \in Nat, k + 1 <= n,
         NEW g \in [SUBSET (1 .. k) -> A], Folds(g, F, base, seq, k)
  PROVE  \E h \in [SUBSET (1 .. (k + 1)) -> A] : Folds(h, F, base, seq, k + 1)
<1> DEFINE last(s) == F[<<g[s \ {k + 1}], seq[k + 1]>>]
           h == [s \in SUBSET (1 .. (k + 1)) |-> IF k + 1 \in s THEN last(s) ELSE g[s]]
<1>1. ASSUME NEW s \in SUBSET (1 .. (k + 1))
      PROVE  /\ k + 1 \in s => s \ {k + 1} \in SUBSET (1 .. k)
             /\ k + 1 \notin s => s \in SUBSET (1 .. k)
  <2>1. \A i \in s : i # k + 1 => i \in 1 .. k
    OBVIOUS
  <2> QED
    BY <2>1
<1>2. ASSUME NEW s \in SUBSET (1 .. (k + 1)), k + 1 \in s
      PROVE  last(s) \in A
  <2>1. g[s \ {k + 1}] \in A
    BY <1>1, <1>2
  <2>2. seq[k + 1] \in B
    OBVIOUS
  <2> QED
    BY <2>1, <2>2
<1>3. h \in [SUBSET (1 .. (k + 1)) -> A]
  BY <1>1, <1>2
<1>4. \A t \in SUBSET (1 .. k) : t \in SUBSET (1 .. (k + 1)) /\ h[t] = g[t]
  <2>1. \A t \in SUBSET (1 .. k) : t \in SUBSET (1 .. (k + 1)) /\ k + 1 \notin t
    OBVIOUS
  <2> QED
    BY <2>1
<1>5. \A s \in SUBSET (1 .. (k + 1)) : k + 1 \in s => h[s] = last(s)
  OBVIOUS
<1> HIDE DEF h
<1>6. ASSUME NEW s \in SUBSET (1 .. (k + 1)), s # {}
      PROVE  h[s] = F[<<h[s \ {Max(s)}], seq[Max(s)]>>]
  <2>1. Max(s) \in s /\ \A j \in s : Max(s) >= j
    <3>1. k + 1 \in Nat
      OBVIOUS
    <3> QED
      BY <1>6, <3>1, MaxOf
  <2>2. CASE k + 1 \in s
    <3>1. Max(s) = k + 1
      <4>1. Max(s) \in 1 .. (k + 1) /\ Max(s) >= k + 1
        BY <1>6, <2>1, <2>2
      <4> QED
        BY <4>1
    <3>2. h[s \ {k + 1}] = g[s \ {k + 1}]
      BY <1>1, <1>4, <2>2
    <3> QED
      BY <1>5, <2>2, <3>1, <3>2
  <2>3. CASE k + 1 \notin s
    <3>1. s \in SUBSET (1 .. k) /\ s \ {Max(s)} \in SUBSET (1 .. k)
      BY <1>1, <2>3
    <3>2. g[s] = F[<<g[s \ {Max(s)}], seq[Max(s)]>>]
      BY <1>6, <3>1 DEF Folds
    <3> QED
      BY <1>4, <3>1, <3>2
  <2> QED
    BY <2>2, <2>3
<1>7. h[{}] = base
  <2>1. {} \in SUBSET (1 .. k)
    OBVIOUS
  <2>2. g[{}] = base
    BY <2>1 DEF Folds
  <2> QED
    BY <1>4, <2>1, <2>2
<1>8. Folds(h, F, base, seq, k + 1)
  BY <1>6, <1>7 DEF Folds
<1> QED
  BY <1>3, <1>8

(* The fold of a function that keeps to a set: it exists, and stays there.  *)
LEMMA FoldExists ==
  ASSUME NEW A, NEW B, NEW F \in [A \X B -> A], NEW base \in A,
         NEW n \in Nat, NEW seq \in [1 .. n -> B]
  PROVE  \E g \in [SUBSET (1 .. n) -> A] : Folds(g, F, base, seq, n)
<1> DEFINE Exists(k) == k <= n => \E g \in [SUBSET (1 .. k) -> A] : Folds(g, F, base, seq, k)
           K == {k \in Nat : Exists(k)}
<1>1. Exists(0)
  <2> DEFINE g == [s \in SUBSET (1 .. 0) |-> base]
  <2>1. \A s \in SUBSET (1 .. 0) : s = {}
    OBVIOUS
  <2>2. g \in [SUBSET (1 .. 0) -> A]
    OBVIOUS
  <2>3. Folds(g, F, base, seq, 0)
    BY <2>1 DEF Folds
  <2> QED
    BY <2>2, <2>3
<1>2. ASSUME NEW k \in Nat, Exists(k) PROVE Exists(k + 1)
  <2>1. SUFFICES ASSUME k + 1 <= n
                 PROVE  \E h \in [SUBSET (1 .. (k + 1)) -> A] : Folds(h, F, base, seq, k + 1)
    OBVIOUS
  <2>2. PICK g \in [SUBSET (1 .. k) -> A] : Folds(g, F, base, seq, k)
    <3>1. k <= n
      BY <2>1
    <3> QED
      BY <1>2, <3>1
  <2> QED
    BY <2>1, <2>2, FoldFurther
<1> HIDE DEF Exists
<1>3. K \in SUBSET Nat /\ 0 \in K /\ \A k \in K : k + 1 \in K
  BY <1>1, <1>2
<1> HIDE DEF K
<1>4. K = Nat
  BY <1>3, NumberInduction, Zenon
<1>5. Exists(n)
  BY <1>4 DEF K
<1> USE DEF Exists
<1>6. n <= n
  OBVIOUS
<1> QED
  BY <1>5, <1>6

(* A fold never leaves a set that holds its start and that no step leaves.  *)
LEMMA FoldStays ==
  ASSUME NEW A, NEW n \in Nat, NEW g, g[{}] \in A,
         \A s \in SUBSET (1 .. n) : s # {} /\ g[s \ {Max(s)}] \in A => g[s] \in A
  PROVE  \A s \in SUBSET (1 .. n) : g[s] \in A
<1> DEFINE P == {s \in SUBSET (1 .. n) : g[s] \in A}
<1>1. ASSUME NEW s \in SUBSET (1 .. n), s # {}, s \ {Max(s)} \in P PROVE s \in P
  BY <1>1
<1>2. P \in SUBSET (SUBSET (1 .. n)) /\ {} \in P
  OBVIOUS
<1> HIDE DEF P
<1>3. P = SUBSET (1 .. n)
  BY <1>1, <1>2, IndexInduction
<1> QED
  BY <1>3 DEF P

(* The largest index of a whole sequence and what is left without it.       *)
LEMMA LastIndex ==
  ASSUME NEW n \in Nat \ {0}
  PROVE  Max(1 .. n) = n /\ (1 .. n) \ {Max(1 .. n)} = 1 .. (n - 1)
<1>1. 1 .. n \in SUBSET (1 .. n) /\ n \in 1 .. n
  OBVIOUS
<1>2. Max(1 .. n) \in 1 .. n /\ \A j \in 1 .. n : Max(1 .. n) >= j
  BY <1>1, MaxOf
<1>3. Max(1 .. n) = n
  BY <1>1, <1>2
<1>4. \A i : i \in (1 .. n) \ {n} <=> i \in 1 .. (n - 1)
  OBVIOUS
<1> QED
  BY <1>3, <1>4

(* What a fold comes to, element by element.                                *)
Chain(c, F, base, seq, n) ==
  c[0] = base /\ \A k \in 0 .. (n - 1) : c[k + 1] = F[<<c[k], seq[k + 1]>>]

ComesTo(A, F, base, seq, n, end) ==
  \E c \in [0 .. n -> A] : Chain(c, F, base, seq, n) /\ c[n] = end

(* A fold comes to the end of a chain.                                      *)
LEMMA FoldChain ==
  ASSUME NEW A, NEW B, NEW F \in [A \X B -> A], NEW base \in A,
         NEW n \in Nat, NEW seq \in [1 .. n -> B],
         NEW g, Folds(g, F, base, seq, n)
  PROVE  ComesTo(A, F, base, seq, n, g[1 .. n])
<1> DEFINE c == [k \in 0 .. n |-> g[1 .. k]]
<1>1. \A t \in SUBSET (1 .. n) : g[t] \in A
  <2>1. g[{}] \in A
    BY DEF Folds
  <2>2. ASSUME NEW t \in SUBSET (1 .. n), t # {}, g[t \ {Max(t)}] \in A
        PROVE  g[t] \in A
    <3>1. Max(t) \in 1 .. n
      BY <2>2, MaxOf
    <3>2. g[t] = F[<<g[t \ {Max(t)}], seq[Max(t)]>>]
      BY <2>2 DEF Folds
    <3> QED
      BY <2>2, <3>1, <3>2
  <2> QED
    BY <2>1, <2>2, FoldStays, Zenon
<1>2. \A k \in 0 .. n : 1 .. k \in SUBSET (1 .. n)
  OBVIOUS
<1>3. c \in [0 .. n -> A]
  BY <1>1, <1>2
<1>4. c[0] = base
  <2>1. 1 .. 0 = {}
    OBVIOUS
  <2>2. g[{}] = base
    BY DEF Folds
  <2>3. c[0] = g[1 .. 0]
    OBVIOUS
  <2> HIDE DEF c
  <2> QED
    BY <2>1, <2>2, <2>3
<1>5. ASSUME NEW k \in 0 .. (n - 1)
      PROVE  c[k + 1] = F[<<c[k], seq[k + 1]>>]
  <2> DEFINE t == 1 .. (k + 1)
  <2>1. k \in 0 .. n /\ k + 1 \in 0 .. n /\ k + 1 \in Nat \ {0} /\ (k + 1) - 1 = k
    OBVIOUS
  <2>2. Max(t) = k + 1 /\ t \ {Max(t)} = 1 .. k
    BY <2>1, LastIndex
  <2>3. t \in SUBSET (1 .. n) /\ t # {}
    <3>1. 1 \in t /\ t \in SUBSET (1 .. n)
      OBVIOUS
    <3> HIDE DEF t, c
    <3> QED
      BY <3>1
  <2>4. c[k] = g[1 .. k] /\ c[k + 1] = g[t]
    BY <2>1
  <2> HIDE DEF t, c
  <2>5. g[t] = F[<<g[t \ {Max(t)}], seq[Max(t)]>>]
    BY <2>3 DEF Folds
  <2> QED
    BY <2>2, <2>4, <2>5
<1>6. c[n] = g[1 .. n]
  OBVIOUS
<1>7. Chain(c, F, base, seq, n)
  BY <1>4, <1>5 DEF Chain
<1> QED
  BY <1>3, <1>6, <1>7 DEF ComesTo

(* Chains over sequences that agree come to the same.                       *)
LEMMA ChainsAgree ==
  ASSUME NEW F, NEW base, NEW n \in Nat, NEW s, NEW t, NEW c, NEW d,
         Chain(c, F, base, s, n), Chain(d, F, base, t, n), \A k \in 1 .. n : s[k] = t[k]
  PROVE  c[n] = d[n]
<1> DEFINE K == {k \in Nat : k <= n => c[k] = d[k]}
<1>1. 0 \in K
  BY DEF Chain
<1>2. ASSUME NEW k \in K PROVE k + 1 \in K
  <2>1. k \in Nat /\ k + 1 \in Nat
    OBVIOUS
  <2>2. SUFFICES ASSUME k + 1 <= n PROVE c[k + 1] = d[k + 1]
    BY <2>1
  <2>3. k \in 0 .. (n - 1) /\ k + 1 \in 1 .. n /\ k <= n
    BY <2>1, <2>2
  <2>4. c[k] = d[k] /\ s[k + 1] = t[k + 1]
    BY <2>3
  <2>5. c[k + 1] = F[<<c[k], s[k + 1]>>] /\ d[k + 1] = F[<<d[k], t[k + 1]>>]
    BY <2>3 DEF Chain
  <2> QED BY <2>4, <2>5
<1> HIDE DEF K
<1>3. K \in SUBSET Nat
  BY DEF K
<1>4. K = Nat
  BY <1>1, <1>2, <1>3, NumberInduction
<1>5. n <= n
  OBVIOUS
<1> QED BY <1>4, <1>5 DEF K

(* A fold over one more element.                                            *)
OneFurther(A, B, F, s, x, end, more) ==
  /\ F \in [A \X B -> A] /\ s \in Seq(B) /\ x \in B
  /\ \E base : /\ ComesTo(A, F, base, s, Len(s), end)
              /\ ComesTo(A, F, base, Append(s, x), Len(Append(s, x)), more)

LEMMA ChainAppend ==
  ASSUME NEW A, NEW B, NEW F, NEW s, NEW x, NEW end, NEW more,
         OneFurther(A, B, F, s, x, end, more)
  PROVE  end \in A /\ more = F[<<end, x>>]
<1> USE DEF OneFurther
<1>0. PICK base : /\ ComesTo(A, F, base, s, Len(s), end)
                  /\ ComesTo(A, F, base, Append(s, x), Len(Append(s, x)), more)
  OBVIOUS
<1> DEFINE n == Len(s)
           t == Append(s, x)
<1>1. n \in Nat /\ Len(t) = n + 1 /\ t[n + 1] = x /\ \A k \in 1 .. n : s[k] = t[k]
  OBVIOUS
<1> HIDE DEF n, t
<1>2. PICK c \in [0 .. n -> A] : Chain(c, F, base, s, n) /\ c[n] = end
  BY <1>0 DEF ComesTo, n
<1>3. PICK d \in [0 .. (n + 1) -> A] : Chain(d, F, base, t, n + 1) /\ d[n + 1] = more
  BY <1>0, <1>1 DEF ComesTo, t
<1>4. Chain(d, F, base, t, n) /\ d[n + 1] = F[<<d[n], t[n + 1]>>]
  <2>1. n \in 0 .. ((n + 1) - 1) /\ \A k \in 0 .. (n - 1) : k \in 0 .. ((n + 1) - 1)
    BY <1>1
  <2> QED BY <1>3, <2>1 DEF Chain
<1>5. c[n] = d[n]
  BY <1>1, <1>2, <1>4, ChainsAgree
<1>6. n \in 0 .. n
  BY <1>1
<1> QED BY <1>1, <1>2, <1>3, <1>4, <1>5, <1>6

(* The sum of a sequence of numbers, as a fold.                             *)
Sums(g, s) ==
  g = [t \in SUBSET (DOMAIN s) |-> IF t = {} THEN 0 ELSE g[t \ {Max(t)}] + s[Max(t)]]

(* The sum of a sequence of numbers.                                        *)
LEMMA SumIs ==
  ASSUME NEW s \in Seq(Nat)
  PROVE  \E g \in [SUBSET (DOMAIN s) -> Nat] : Sums(g, s) /\ FoldLeft(+, 0, s) = g[DOMAIN s]
<1> DEFINE n == Len(s)
           F == [p \in Nat \X Nat |-> p[1] + p[2]]
           sum == CHOOSE g : Sums(g, s)
<1>1. n \in Nat /\ DOMAIN s = 1 .. n /\ s \in [1 .. n -> Nat]
  OBVIOUS
<1>2. F \in [Nat \X Nat -> Nat] /\ \A a, b \in Nat : F[<<a, b>>] = a + b
  OBVIOUS
<1> HIDE DEF F, n
<1>3. PICK f \in [SUBSET (1 .. n) -> Nat] : Folds(f, F, 0, s, n)
  BY <1>1, <1>2, FoldExists
<1>4. ASSUME NEW t \in SUBSET (1 .. n), t # {}
      PROVE  t \ {Max(t)} \in SUBSET (1 .. n) /\ Max(t) \in 1 .. n
  BY <1>1, <1>4, MaxOf
<1>5. Sums(f, s)
  <2>1. ASSUME NEW t \in SUBSET (1 .. n)
        PROVE  f[t] = IF t = {} THEN 0 ELSE f[t \ {Max(t)}] + s[Max(t)]
    BY <1>1, <1>2, <1>3, <1>4 DEF Folds
  <2> QED
    BY <1>1, <1>3, <2>1 DEF Sums
<1>6. Sums(sum, s)
  BY <1>5
<1>7. FoldLeft(+, 0, s) = sum[DOMAIN s]
  BY DEF FoldLeft, MapThenFoldSet, Sums
<1> HIDE DEF sum
<1>8. \A t \in SUBSET (1 .. n) : sum[t] \in Nat
  <2>1. sum[{}] \in Nat
    BY <1>6 DEF Sums
  <2>2. ASSUME NEW t \in SUBSET (1 .. n), t # {}, sum[t \ {Max(t)}] \in Nat
        PROVE  sum[t] \in Nat
    <3>1. sum[t] = sum[t \ {Max(t)}] + s[Max(t)]
      BY <1>1, <1>6, <2>2 DEF Sums
    <3> QED
      BY <1>1, <1>4, <2>2, <3>1
  <2>3. n \in Nat
    BY <1>1
  <2> QED
    BY <2>1, <2>2, <2>3, FoldStays, Zenon
<1>9. sum \in [SUBSET (DOMAIN s) -> Nat]
  BY <1>1, <1>6, <1>8 DEF Sums
<1> QED
  BY <1>6, <1>7, <1>9

(* The sum of nothing.                                                      *)
LEMMA SumEmpty == FoldLeft(+, 0, <<>>) = 0
<1>1. <<>> \in Seq(Nat) /\ DOMAIN <<>> = {}
  OBVIOUS
<1>2. PICK g \in [SUBSET (DOMAIN <<>>) -> Nat] :
        Sums(g, <<>>) /\ FoldLeft(+, 0, <<>>) = g[DOMAIN <<>>]
  BY <1>1, SumIs
<1> QED
  BY <1>1, <1>2 DEF Sums

(* And of one number more.                                                  *)
LEMMA SumAppend ==
  ASSUME NEW s \in Seq(Nat), NEW x \in Nat
  PROVE  /\ FoldLeft(+, 0, s) \in Nat
         /\ FoldLeft(+, 0, Append(s, x)) = FoldLeft(+, 0, s) + x
<1> DEFINE n == Len(s)
           more == Append(s, x)
<1>1. n \in Nat /\ DOMAIN s = 1 .. n /\ n + 1 \in Nat \ {0}
  OBVIOUS
<1>2. /\ more \in Seq(Nat) /\ DOMAIN more = 1 .. (n + 1) /\ more[n + 1] = x
      /\ \A i \in 1 .. n : more[i] = s[i]
  OBVIOUS
<1> HIDE DEF n, more
<1>3. PICK g \in [SUBSET (DOMAIN s) -> Nat] : Sums(g, s) /\ FoldLeft(+, 0, s) = g[DOMAIN s]
  BY SumIs
<1>4. PICK h \in [SUBSET (DOMAIN more) -> Nat] :
        Sums(h, more) /\ FoldLeft(+, 0, more) = h[DOMAIN more]
  BY <1>2, SumIs
<1>5. \A t \in SUBSET (1 .. n) : t \in SUBSET (1 .. (n + 1))
  BY <1>1
<1>6. \A t \in SUBSET (1 .. n) : g[t] = h[t]
  <2> DEFINE P == {t \in SUBSET (1 .. n) : g[t] = h[t]}
  <2>1. P \in SUBSET (SUBSET (1 .. n)) /\ {} \in P
    BY <1>3, <1>4 DEF Sums
  <2>2. ASSUME NEW t \in SUBSET (1 .. n), t # {}, t \ {Max(t)} \in P
        PROVE  t \in P
    <3>1. Max(t) \in 1 .. n
      BY <1>1, <2>2, MaxOf
    <3>2. g[t] = g[t \ {Max(t)}] + s[Max(t)]
      BY <1>1, <1>3, <2>2 DEF Sums
    <3>3. h[t] = h[t \ {Max(t)}] + more[Max(t)]
      BY <1>2, <1>4, <1>5, <2>2 DEF Sums
    <3> QED
      BY <1>2, <2>2, <3>1, <3>2, <3>3
  <2> HIDE DEF P
  <2>3. P = SUBSET (1 .. n)
    BY <1>1, <2>1, <2>2, IndexInduction
  <2> QED
    BY <2>3 DEF P
<1>7. Max(1 .. (n + 1)) = n + 1 /\ (1 .. (n + 1)) \ {n + 1} = 1 .. n
  <2>1. (n + 1) - 1 = n
    BY <1>1
  <2> QED
    BY <1>1, <2>1, LastIndex
<1>8. h[1 .. (n + 1)] = h[1 .. n] + x
  <2> DEFINE t == 1 .. (n + 1)
  <2>1. 1 \in t
    BY <1>1
  <2>2. t # {} /\ t \in SUBSET (DOMAIN more)
    BY <1>2, <2>1
  <2>3. Max(t) = n + 1 /\ t \ {Max(t)} = 1 .. n
    BY <1>7
  <2> HIDE DEF t
  <2>4. h[t] = h[t \ {Max(t)}] + more[Max(t)]
    BY <1>4, <2>2 DEF Sums
  <2>5. h[t] = h[1 .. n] + x
    BY <1>2, <2>3, <2>4
  <2> QED
    BY <2>5 DEF t
<1>9. FoldLeft(+, 0, s) = g[1 .. n] /\ g[1 .. n] \in Nat
  BY <1>1, <1>3
<1>10. FoldLeft(+, 0, more) = h[1 .. (n + 1)]
  BY <1>2, <1>4
<1>11. h[1 .. n] = g[1 .. n]
  BY <1>6
<1>12. FoldLeft(+, 0, more) = FoldLeft(+, 0, s) + x
  BY <1>8, <1>9, <1>10, <1>11
<1> QED
  BY <1>9, <1>12 DEF more
=============================================================================
