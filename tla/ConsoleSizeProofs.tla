-------------------------- MODULE ConsoleSizeProofs --------------------------
(***************************************************************************)
(* What holds of ConsoleSize for every terminal, user and bound: first what *)
(* parse_cursor_report makes of any characters, then what a terminal writes *)
(* and how it is read back, then the measurement around them.               *)
(***************************************************************************)
EXTENDS ConsoleSize, FoldLemmas, SequenceTheorems

-----------------------------------------------------------------------------
(* Sequences.                                                               *)

(* A sequence that is another with one element behind it.                   *)
LEMMA AppendIs ==
  ASSUME NEW S, NEW t \in Seq(S), NEW e \in S, NEW u \in Seq(S),
         Len(u) = Len(t) + 1, u[Len(t) + 1] = e,
         \A x \in 1 .. Len(t) : u[x] = t[x]
  PROVE  u = Append(t, e)
<1> DEFINE v == Append(t, e)
<1>1. /\ v \in Seq(S) /\ Len(v) = Len(t) + 1 /\ v[Len(t) + 1] = e
      /\ \A x \in 1 .. Len(t) : v[x] = t[x]
  BY AppendProperties
<1> HIDE DEF v
<1>2. \A x \in 1 .. Len(u) : u[x] = v[x]
  <2>1. Len(t) \in Nat
    OBVIOUS
  <2>2. \A x \in 1 .. Len(u) : x \in 1 .. Len(t) \/ x = Len(t) + 1
    BY <2>1
  <2> QED BY <1>1, <2>2
<1>3. u = v
  BY <1>1, <1>2, SeqEqual
<1> QED BY <1>3 DEF v

(* Where the elements of a concatenation come from.                         *)
LEMMA Join ==
  ASSUME NEW S, NEW s \in Seq(S), NEW t \in Seq(S)
  PROVE  /\ s \o t \in Seq(S) /\ Len(s \o t) = Len(s) + Len(t)
         /\ \A x \in 1 .. Len(s) : (s \o t)[x] = s[x]
         /\ \A x \in 1 .. Len(t) : (s \o t)[x + Len(s)] = t[x]
<1> DEFINE j == s \o t
<1>1. /\ j \in Seq(S) /\ Len(j) = Len(s) + Len(t)
      /\ \A i \in 1 .. (Len(s) + Len(t)) : j[i] = IF i <= Len(s) THEN s[i] ELSE t[i - Len(s)]
  BY ConcatProperties
<1> HIDE DEF j
<1>2. Len(s) \in Nat /\ Len(t) \in Nat
  OBVIOUS
<1>3. \A x \in 1 .. Len(s) : x \in 1 .. (Len(s) + Len(t)) /\ x <= Len(s)
  BY <1>2
<1>4. \A x \in 1 .. Len(t) : /\ x + Len(s) \in 1 .. (Len(s) + Len(t)) /\ ~(x + Len(s) <= Len(s))
                             /\ (x + Len(s)) - Len(s) = x
  BY <1>2
<1> QED BY <1>1, <1>3, <1>4 DEF j

-----------------------------------------------------------------------------
(* Remainders.                                                              *)

(* A number is a multiple of M and a remainder.                             *)
LEMMA DivMod ==
  ASSUME NEW a \in Nat, NEW M \in Nat \ {0}
  PROVE  \E q \in Int, r \in 0 .. (M - 1) : r = a % M /\ a = M * q + r
<1> DEFINE q == a \div M
           r == a % M
<1>1. q \in Int /\ r \in 0 .. (M - 1) /\ q = a \div M /\ r = a % M
  OBVIOUS
<1> HIDE DEF q, r
<1>2. a = q * M + r
  BY <1>1, Z3
<1>3. a = M * q + r
  BY <1>1, <1>2
<1> QED
  BY <1>1, <1>3

(* No multiple of M but 0 lies between -M and M.                            *)
LEMMA Times ==
  ASSUME NEW M \in Nat \ {0}, NEW t \in Int, -M < M * t, M * t < M
  PROVE  t = 0
<1>1. t >= 1 => M * t >= M
  OBVIOUS
<1>2. t <= -1 => M * t <= -M
  OBVIOUS
<1> QED BY <1>1, <1>2

(* Numbers a multiple of M apart have one remainder.                        *)
LEMMA ModUnique ==
  ASSUME NEW M \in Nat \ {0}, NEW a \in Nat, NEW b \in Nat, NEW k \in Int, b = a + M * k
  PROVE  a % M = b % M
<1>1. PICK q \in Int, r \in 0 .. (M - 1) : r = a % M /\ a = M * q + r
  BY DivMod
<1>2. PICK q2 \in Int, r2 \in 0 .. (M - 1) : r2 = b % M /\ b = M * q2 + r2
  BY DivMod
<1> DEFINE u == M * q2
           v == M * q
           w == M * k
<1>3. M * (q2 - q - k) = r - r2
  <2>1. u + r2 = v + r + w /\ u \in Int /\ v \in Int /\ w \in Int
    <3>1. u \in Int /\ v \in Int /\ w \in Int
      BY <1>1, <1>2
    <3>2. b = u + r2 /\ b = a + w /\ a = v + r
      BY <1>1, <1>2
    <3> HIDE DEF u, v, w
    <3> QED BY <3>1, <3>2
  <2>2. M * (q2 - q - k) = u - v - w
    BY <1>1, <1>2
  <2>3. r \in Int /\ r2 \in Int
    BY <1>1, <1>2
  <2> HIDE DEF u, v, w
  <2>4. u - v - w = r - r2
    BY <2>1, <2>3
  <2> QED BY <2>2, <2>4
<1> HIDE DEF u, v, w
<1>4. q2 - q - k = 0
  <2>1. q2 - q - k \in Int /\ -M < r - r2 /\ r - r2 < M
    BY <1>1, <1>2
  <2> QED BY <1>3, <2>1, Times
<1>5. r = r2
  BY <1>1, <1>2, <1>3, <1>4
<1> QED BY <1>1, <1>2, <1>5

(* Appending a digit to a remainder, as the parser does, leaves the         *)
(* remainder of the number with the digit.                                  *)
LEMMA ModStep ==
  ASSUME NEW M \in Nat \ {0}, NEW x \in Nat, NEW d \in Nat
  PROVE  ((x % M) * 10 + d) % M = (x * 10 + d) % M
<1>1. PICK q \in Int, r \in 0 .. (M - 1) : r = x % M /\ x = M * q + r
  BY DivMod
<1>2. x * 10 + d = (r * 10 + d) + M * (10 * q)
  <2>1. M * (10 * q) = 10 * (M * q)
    OBVIOUS
  <2>2. M * q \in Int
    OBVIOUS
  <2> QED BY <1>1, <2>1, <2>2
<1>3. r * 10 + d \in Nat /\ x * 10 + d \in Nat /\ 10 * q \in Int
  BY <1>1
<1> DEFINE a == r * 10 + d
           b == x * 10 + d
           k == 10 * q
<1>4. a \in Nat /\ b \in Nat /\ k \in Int /\ b = a + M * k
  BY <1>2, <1>3
<1>5. a = (x % M) * 10 + d
  BY <1>1
<1> HIDE DEF a, b, k
<1>6. a % M = b % M
  BY <1>4, ModUnique
<1> QED BY <1>5, <1>6 DEF b

-----------------------------------------------------------------------------
(* Parsing.  c[k] is what parse_step comes to behind k characters of s.      *)

ParseStates == [value : [1 .. 2 -> Nat], field : {1, 2}, digits : Nat,
                state : {"open", "read", "bad"}]

(* The two moduli are not 0.                                                *)
LEMMA Modulus ==
  /\ IntModulus \in Nat \ {0} /\ ShortModulus \in Nat \ {0}
  /\ \A n \in Nat : n % IntModulus \in Nat /\ n % ShortModulus \in 0 .. (ShortModulus - 1)
<1>1. IntModulus \in Nat \ {0} /\ ShortModulus \in Nat \ {0}
  BY SizeAssumption
<1> QED
  BY <1>1

(* A digit more leaves a state of the parser.                               *)
LEMMA WithDigit ==
  ASSUME NEW a \in ParseStates, NEW v \in [1 .. 2 -> Nat], NEW d \in Nat
  PROVE  [a EXCEPT !.value = v, !.digits = d] \in ParseStates
BY DEF ParseStates

(* parse_step keeps to ParseStates.                                         *)
LEMMA StepIsState ==
  ASSUME NEW a \in ParseStates, NEW ch \in Nat
  PROVE  parse_step(a, ch) \in ParseStates
<1>1. CASE a.state # "open"
  BY <1>1 DEF parse_step
<1>2. CASE a.state = "open" /\ IsDigit(ch)
  <2> DEFINE x == (a.value[a.field] * 10 + (ch - ZERO)) % IntModulus
             v == [a.value EXCEPT ![a.field] = x]
             b == [a EXCEPT !.value = v, !.digits = @ + 1]
  <2>1. parse_step(a, ch) = b
    BY <1>2 DEF parse_step
  <2>2. a.value \in [1 .. 2 -> Nat] /\ a.field \in 1 .. 2 /\ a.digits \in Nat
    BY DEF ParseStates
  <2>3. x \in Nat
    <3>1. a.value[a.field] * 10 + (ch - ZERO) \in Nat
      BY <1>2, <2>2 DEF IsDigit, ZERO
    <3> QED
      BY <3>1, Modulus
  <2> HIDE DEF x
  <2>4. v \in [1 .. 2 -> Nat]
    BY <2>2, <2>3
  <2> HIDE DEF v
  <2>5. a.digits + 1 \in Nat
    BY <2>2
  <2>6. b \in ParseStates
    BY <2>4, <2>5, WithDigit
  <2> HIDE DEF b
  <2> QED
    BY <2>1, <2>6
<1>3. CASE a.state = "open" /\ ~IsDigit(ch)
  BY <1>3 DEF parse_step, ParseStates
<1> QED
  BY <1>1, <1>2, <1>3

Parses(c, s) ==
  /\ c \in [0 .. Len(s) -> ParseStates] /\ c[0] = NothingParsed
  /\ \A k \in 0 .. (Len(s) - 1) : c[k + 1] = parse_step(c[k], s[k + 1])

(* The fold in parsed is a chain of parse_step.                             *)
LEMMA ParseChain ==
  ASSUME NEW s \in Seq(Nat)
  PROVE  \E c : Parses(c, s) /\ FoldLeft(parse_step, NothingParsed, s) = c[Len(s)]
<1> DEFINE n == Len(s)
           F == [p \in ParseStates \X Nat |-> parse_step(p[1], p[2])]
           Rec(g) == g = [t \in SUBSET (DOMAIN s) |->
                            IF t = {} THEN NothingParsed
                            ELSE parse_step(g[t \ {Max(t)}], s[Max(t)])]
           fold == CHOOSE g : Rec(g)
<1>1. n \in Nat /\ DOMAIN s = 1 .. n /\ s \in [1 .. n -> Nat]
  OBVIOUS
<1>2. NothingParsed \in ParseStates
  BY DEF NothingParsed, ParseStates
<1>3. /\ F \in [ParseStates \X Nat -> ParseStates]
      /\ \A a \in ParseStates, ch \in Nat : F[<<a, ch>>] = parse_step(a, ch)
  BY StepIsState
<1>4. FoldLeft(parse_step, NothingParsed, s) = fold[DOMAIN s]
  BY DEF FoldLeft, MapThenFoldSet
<1> HIDE DEF F, n
<1>5. PICK f \in [SUBSET (1 .. n) -> ParseStates] : Folds(f, F, NothingParsed, s, n)
  BY <1>1, <1>2, <1>3, FoldExists
<1>6. ASSUME NEW t \in SUBSET (1 .. n), t # {}
      PROVE  t \ {Max(t)} \in SUBSET (1 .. n) /\ s[Max(t)] \in Nat
  BY <1>1, <1>6, MaxOf
<1>7. Rec(f)
  <2>1. ASSUME NEW t \in SUBSET (1 .. n)
        PROVE  f[t] = IF t = {} THEN NothingParsed
                      ELSE parse_step(f[t \ {Max(t)}], s[Max(t)])
    BY <1>3, <1>5, <1>6 DEF Folds
  <2> QED
    BY <1>1, <1>5, <2>1
<1>8. Rec(fold)
  BY <1>7
<1> HIDE DEF fold
<1>9. \A t \in SUBSET (1 .. n) : fold[t] = IF t = {} THEN NothingParsed
                                  ELSE parse_step(fold[t \ {Max(t)}], s[Max(t)])
  BY <1>1, <1>8
<1>10. \A t \in SUBSET (1 .. n) : fold[t] \in ParseStates
  <2>1. fold[{}] \in ParseStates
    BY <1>2, <1>9
  <2>2. ASSUME NEW t \in SUBSET (1 .. n), t # {}, fold[t \ {Max(t)}] \in ParseStates
        PROVE  fold[t] \in ParseStates
    <3>1. fold[t] = parse_step(fold[t \ {Max(t)}], s[Max(t)])
      BY <1>9, <2>2
    <3> QED
      BY <1>6, <2>2, <3>1, StepIsState
  <2> HIDE DEF Rec
  <2> QED
    BY <1>1, <2>1, <2>2, FoldStays, Zenon
<1>11. Folds(fold, F, NothingParsed, s, n)
  BY <1>3, <1>6, <1>9, <1>10 DEF Folds
<1>12. PICK c \in [0 .. n -> ParseStates] :
         Chain(c, F, NothingParsed, s, n) /\ c[n] = fold[1 .. n]
  <2> HIDE DEF Rec
  <2>1. ComesTo(ParseStates, F, NothingParsed, s, n, fold[1 .. n])
    BY <1>1, <1>2, <1>3, <1>11, FoldChain
  <2> QED
    BY <2>1 DEF ComesTo
<1>13. \A k \in 0 .. (n - 1) : c[k + 1] = parse_step(c[k], s[k + 1])
  <2> SUFFICES ASSUME NEW k \in 0 .. (n - 1) PROVE c[k + 1] = parse_step(c[k], s[k + 1])
    OBVIOUS
  <2>1. k \in 0 .. n /\ k + 1 \in 1 .. n
    BY <1>1
  <2>2. c[k] \in ParseStates /\ s[k + 1] \in Nat
    BY <1>1, <1>12, <2>1
  <2> QED
    BY <1>3, <1>12, <2>2 DEF Chain
<1>14. Parses(c, s)
  BY <1>12, <1>13 DEF Parses, Chain, n
<1> QED
  BY <1>1, <1>4, <1>12, <1>14 DEF n

-----------------------------------------------------------------------------
(* Number, digit by digit.                                                  *)

Counts(c, s) ==
  /\ c \in [0 .. Len(s) -> Int] /\ c[0] = 0
  /\ \A k \in 0 .. (Len(s) - 1) : c[k + 1] = c[k] * 10 + (s[k + 1] - ZERO)

(* The fold in Number is a chain of its own.                                *)
LEMMA NumberChain ==
  ASSUME NEW s \in Seq(Nat)
  PROVE  \E c : Counts(c, s) /\ Number(s) = c[Len(s)]
<1> DEFINE n == Len(s)
           F == [p \in Int \X Nat |-> p[1] * 10 + (p[2] - ZERO)]
           Rec(g) == g = [t \in SUBSET (DOMAIN s) |->
                            IF t = {} THEN 0
                            ELSE g[t \ {Max(t)}] * 10 + (s[Max(t)] - ZERO)]
           fold == CHOOSE g : Rec(g)
<1>1. n \in Nat /\ DOMAIN s = 1 .. n /\ s \in [1 .. n -> Nat]
  OBVIOUS
<1>2. 0 \in Int /\ \A a \in Int, d \in Nat : a * 10 + (d - ZERO) \in Int
  BY DEF ZERO
<1>3. /\ F \in [Int \X Nat -> Int]
      /\ \A a \in Int, d \in Nat : F[<<a, d>>] = a * 10 + (d - ZERO)
  BY <1>2
<1>4. Number(s) = fold[DOMAIN s]
  BY DEF Number, FoldLeft, MapThenFoldSet
<1> HIDE DEF F, n
<1>5. PICK f \in [SUBSET (1 .. n) -> Int] : Folds(f, F, 0, s, n)
  BY <1>1, <1>2, <1>3, FoldExists, Zenon
<1>6. ASSUME NEW t \in SUBSET (1 .. n), t # {}
      PROVE  t \ {Max(t)} \in SUBSET (1 .. n) /\ s[Max(t)] \in Nat
  BY <1>1, <1>6, MaxOf
<1>7. Rec(f)
  <2>1. ASSUME NEW t \in SUBSET (1 .. n)
        PROVE  f[t] = IF t = {} THEN 0
                      ELSE f[t \ {Max(t)}] * 10 + (s[Max(t)] - ZERO)
    BY <1>3, <1>5, <1>6 DEF Folds
  <2> QED
    BY <1>1, <1>5, <2>1
<1>8. Rec(fold)
  BY <1>7
<1> HIDE DEF fold
<1>9. \A t \in SUBSET (1 .. n) : fold[t] = IF t = {} THEN 0
                                  ELSE fold[t \ {Max(t)}] * 10 + (s[Max(t)] - ZERO)
  BY <1>1, <1>8
<1>10. \A t \in SUBSET (1 .. n) : fold[t] \in Int
  <2>1. fold[{}] \in Int
    <3>1. fold[{}] = 0
      BY <1>9
    <3> QED
      BY <1>2, <3>1, Zenon
  <2>2. ASSUME NEW t \in SUBSET (1 .. n), t # {}, fold[t \ {Max(t)}] \in Int
        PROVE  fold[t] \in Int
    <3>1. fold[t] = fold[t \ {Max(t)}] * 10 + (s[Max(t)] - ZERO)
      BY <1>9, <2>2
    <3> QED
      BY <1>2, <1>6, <2>2, <3>1
  <2> HIDE DEF Rec
  <2> QED
    BY <1>1, <2>1, <2>2, FoldStays, Zenon
<1>11. Folds(fold, F, 0, s, n)
  BY <1>3, <1>6, <1>9, <1>10 DEF Folds
<1>12. PICK c \in [0 .. n -> Int] : Chain(c, F, 0, s, n) /\ c[n] = fold[1 .. n]
  <2> HIDE DEF Rec
  <2>1. ComesTo(Int, F, 0, s, n, fold[1 .. n])
    BY <1>1, <1>2, <1>3, <1>11, FoldChain, Zenon
  <2> QED
    BY <2>1 DEF ComesTo
<1>13. \A k \in 0 .. (n - 1) : c[k + 1] = c[k] * 10 + (s[k + 1] - ZERO)
  <2> SUFFICES ASSUME NEW k \in 0 .. (n - 1)
               PROVE  c[k + 1] = c[k] * 10 + (s[k + 1] - ZERO)
    OBVIOUS
  <2>1. k \in 0 .. n /\ k + 1 \in 1 .. n
    BY <1>1
  <2>2. c[k] \in Int /\ s[k + 1] \in Nat
    BY <1>1, <1>12, <2>1
  <2> QED
    BY <1>3, <1>12, <2>2 DEF Chain
<1>14. Counts(c, s)
  BY <1>12, <1>13 DEF Counts, Chain, n
<1> QED
  BY <1>1, <1>4, <1>12, <1>14 DEF n

(* A chain is one for what comes in front of more digits.                   *)
LEMMA CountsAgree ==
  ASSUME NEW s \in Seq(Nat), NEW t \in Seq(Nat), Len(s) <= Len(t),
         \A i \in 1 .. Len(s) : s[i] = t[i],
         NEW c, NEW d, Counts(c, s), Counts(d, t)
  PROVE  \A k \in 0 .. Len(s) : c[k] = d[k]
<1> DEFINE n == Len(s)
           S == {k \in Nat : k <= n => c[k] = d[k]}
<1>1. n \in Nat /\ Len(t) \in Nat /\ n <= Len(t)
  OBVIOUS
<1>2. 0 \in S
  BY DEF Counts
<1>3. ASSUME NEW k \in S PROVE k + 1 \in S
  <2>1. SUFFICES ASSUME k + 1 <= n PROVE c[k + 1] = d[k + 1]
    OBVIOUS
  <2>2. /\ k \in 0 .. (n - 1) /\ k \in 0 .. (Len(t) - 1) /\ k + 1 \in 1 .. n
        /\ c[k] = d[k]
    BY <1>1, <2>1
  <2>3. c[k + 1] = c[k] * 10 + (s[k + 1] - ZERO) /\ d[k + 1] = d[k] * 10 + (t[k + 1] - ZERO)
    BY <2>2 DEF Counts
  <2>4. s[k + 1] = t[k + 1]
    BY <2>2
  <2> QED
    BY <2>2, <2>3, <2>4
<1>4. S \in SUBSET Nat
  OBVIOUS
<1> HIDE DEF S
<1>5. S = Nat
  BY <1>2, <1>3, <1>4, NumberInduction
<1> QED
  BY <1>1, <1>5 DEF S

(* Number of nothing.                                                       *)
LEMMA NumberEmpty == Number(<<>>) = 0
<1>1. <<>> \in Seq(Nat) /\ Len(<<>>) = 0
  OBVIOUS
<1>2. PICK c : Counts(c, <<>>) /\ Number(<<>>) = c[Len(<<>>)]
  BY <1>1, NumberChain
<1> QED
  BY <1>1, <1>2 DEF Counts

(* Number, with one more digit.                                             *)
LEMMA NumberAppend ==
  ASSUME NEW s \in Seq(Nat), NEW x \in Nat
  PROVE  Number(s) \in Int /\ Number(Append(s, x)) = Number(s) * 10 + (x - ZERO)
<1> DEFINE t == Append(s, x)
           n == Len(s)
<1>1. /\ t \in Seq(Nat) /\ n \in Nat /\ Len(t) = n + 1 /\ t[n + 1] = x
      /\ \A i \in 1 .. n : s[i] = t[i]
  OBVIOUS
<1> HIDE DEF t
<1>2. PICK c : Counts(c, s) /\ Number(s) = c[n]
  BY NumberChain
<1>3. PICK d : Counts(d, t) /\ Number(t) = d[n + 1]
  BY <1>1, NumberChain
<1>4. n <= Len(t) /\ n \in 0 .. n /\ n \in 0 .. (Len(t) - 1)
  BY <1>1
<1>5. c[n] = d[n]
  BY <1>1, <1>2, <1>3, <1>4, CountsAgree
<1>6. d[n + 1] = d[n] * 10 + (x - ZERO)
  BY <1>1, <1>3, <1>4 DEF Counts
<1>7. c[n] \in Int
  BY <1>2, <1>4 DEF Counts
<1> QED
  BY <1>2, <1>3, <1>5, <1>6, <1>7 DEF t

AllDigits(s, lo, hi) == \A x \in lo .. hi : IsDigit(s[x])
Value(s, lo, hi)     == Number(SubSeq(s, lo, hi))

(* SubSeq from lo to hi, element by element.                                *)
LEMMA Stretch ==
  ASSUME NEW s \in Seq(Nat), NEW lo \in Nat \ {0}, NEW hi \in 0 .. Len(s)
  PROVE  /\ SubSeq(s, lo, hi) \in Seq(Nat)
         /\ lo > hi => SubSeq(s, lo, hi) = <<>>
         /\ lo <= hi => /\ Len(SubSeq(s, lo, hi)) = hi - lo + 1
                        /\ \A x \in 1 .. (hi - lo + 1) : SubSeq(s, lo, hi)[x] = s[lo + x - 1]
<1>1. hi \in Int /\ hi <= Len(s) /\ lo >= 1
  OBVIOUS
<1>2. CASE lo > hi
  <2>1. SubSeq(s, lo, hi) = <<>>
    BY <1>1, <1>2
  <2>2. <<>> \in Seq(Nat)
    OBVIOUS
  <2> QED BY <1>2, <2>1, <2>2
<1>3. CASE lo <= hi
  <2>1. lo \in 1 .. (Len(s) + 1) /\ hi \in (lo - 1) .. Len(s)
    BY <1>1, <1>3
  <2>2. SubSeq(s, lo, hi) \in Seq(Nat) /\ Len(SubSeq(s, lo, hi)) = hi - lo + 1
    BY <2>1
  <2>3. \A x \in 1 .. (hi - lo + 1) : SubSeq(s, lo, hi)[x] = s[lo + x - 1]
    BY <2>1
  <2> QED BY <1>3, <2>2, <2>3
<1> QED BY <1>1, <1>2, <1>3

(* A stretch is a numeral if there is something in it, and only digits.     *)
LEMMA NumeralIs ==
  ASSUME NEW s \in Seq(Nat), NEW lo \in Nat \ {0}, NEW hi \in 0 .. Len(s)
  PROVE  Numeral(SubSeq(s, lo, hi)) <=> lo <= hi /\ AllDigits(s, lo, hi)
<1> DEFINE t == SubSeq(s, lo, hi)
<1>1. CASE lo > hi
  BY <1>1, Stretch DEF Numeral
<1>2. CASE lo <= hi
  <2>1. /\ t \in Seq(Nat) /\ Len(t) = hi - lo + 1
        /\ \A x \in 1 .. (hi - lo + 1) : t[x] = s[lo + x - 1]
    BY <1>2, Stretch
  <2>2. hi \in Int /\ hi - lo + 1 \in Nat \ {0}
    BY <1>2
  <2> HIDE DEF t
  <2>3. DOMAIN t = 1 .. (hi - lo + 1) /\ t # <<>>
    BY <2>1, <2>2
  <2>4. ASSUME Numeral(t), NEW x \in lo .. hi PROVE IsDigit(s[x])
    <3>1. x - lo + 1 \in 1 .. (hi - lo + 1) /\ lo + (x - lo + 1) - 1 = x
      BY <2>2
    <3> QED BY <2>1, <2>3, <2>4, <3>1 DEF Numeral
  <2>5. ASSUME AllDigits(s, lo, hi) PROVE Numeral(t)
    <3>1. \A x \in 1 .. (hi - lo + 1) : lo + x - 1 \in lo .. hi
      BY <2>2
    <3> QED BY <2>1, <2>3, <2>5, <3>1 DEF Numeral, AllDigits
  <2> QED BY <1>2, <2>4, <2>5 DEF AllDigits, t
<1> QED BY <1>1, <1>2

LEMMA ValueEmpty ==
  ASSUME NEW s \in Seq(Nat), NEW hi \in 0 .. Len(s)
  PROVE  Value(s, hi + 1, hi) = 0
<1>1. hi + 1 \in Nat \ {0} /\ hi + 1 > hi
  OBVIOUS
<1> QED BY <1>1, Stretch, NumberEmpty DEF Value

(* The value of a stretch, one digit further.                               *)
LEMMA ValueFurther ==
  ASSUME NEW s \in Seq(Nat), NEW lo \in Nat \ {0}, NEW hi \in Nat, hi + 1 <= Len(s), lo <= hi + 1
  PROVE  /\ Value(s, lo, hi) \in Int
         /\ Value(s, lo, hi + 1) = Value(s, lo, hi) * 10 + (s[hi + 1] - ZERO)
<1> DEFINE t == SubSeq(s, lo, hi)
           u == SubSeq(s, lo, hi + 1)
           n == hi - lo + 1
<1>1. n \in Nat /\ hi \in 0 .. Len(s) /\ hi + 1 \in 0 .. Len(s) /\ s[hi + 1] \in Nat
  OBVIOUS
<1>2. t \in Seq(Nat) /\ Len(t) = n /\ \A x \in 1 .. n : t[x] = s[lo + x - 1]
  <2>1. CASE lo <= hi
    BY <1>1, <2>1, Stretch
  <2>2. CASE lo > hi
    <3>1. n = 0 /\ t = <<>> /\ t \in Seq(Nat)
      BY <1>1, <2>2, Stretch
    <3> HIDE DEF t, n
    <3>2. 1 .. n = {}
      BY <3>1
    <3>3. Len(t) = n
      BY <3>1
    <3> QED BY <3>1, <3>2, <3>3
  <2>3. lo <= hi \/ lo > hi
    OBVIOUS
  <2> HIDE DEF t, n
  <2> QED BY <2>1, <2>2, <2>3
<1>3. /\ u \in Seq(Nat) /\ Len(u) = n + 1
      /\ \A x \in 1 .. (n + 1) : u[x] = s[lo + x - 1]
  <2>1. (hi + 1) - lo + 1 = n + 1
    OBVIOUS
  <2> QED BY <1>1, <2>1, Stretch
<1> HIDE DEF t, u
<1>4. u = Append(t, s[hi + 1])
  <2>1. lo + (n + 1) - 1 = hi + 1
    OBVIOUS
  <2>2. \A x \in 1 .. n : u[x] = t[x]
    BY <1>1, <1>2, <1>3
  <2>3. u[n + 1] = s[hi + 1]
    BY <1>1, <1>3, <2>1
  <2> QED BY <1>1, <1>2, <1>3, <2>2, <2>3, AppendIs
<1>5. Value(s, lo, hi) = Number(t) /\ Value(s, lo, hi + 1) = Number(u)
  BY DEF Value, t, u
<1>6. Number(t) \in Int /\ Number(Append(t, s[hi + 1])) = Number(t) * 10 + (s[hi + 1] - ZERO)
  BY <1>1, <1>2, NumberAppend
<1> QED BY <1>4, <1>5, <1>6

-----------------------------------------------------------------------------
(* What parse_step has come to, and so what a report is to it.              *)

(* Where, in what follows the introducer, the two numbers end.              *)
Rep(s, j, k) ==
  /\ j \in 2 .. Len(s) /\ k \in (j + 2) .. Len(s)
  /\ s[j] = SEMICOLON /\ s[k] = R
  /\ AllDigits(s, 1, j - 1) /\ AllDigits(s, j + 1, k - 1)

(* The first number is being read; or the second is; or both were; or there *)
(* is no report.                                                            *)
InFirst(s, m, a) ==
  /\ a.state = "open" /\ a.field = 1 /\ a.digits = m
  /\ AllDigits(s, 1, m)
  /\ a.value[1] = Value(s, 1, m) % IntModulus /\ a.value[2] = 0
  /\ Value(s, 1, m) \in Nat

InSecond(s, m, a, j) ==
  /\ a.state = "open" /\ a.field = 2 /\ a.digits = m - j
  /\ j \in 2 .. m /\ s[j] = SEMICOLON
  /\ AllDigits(s, 1, j - 1) /\ AllDigits(s, j + 1, m)
  /\ a.value[1] = Value(s, 1, j - 1) % IntModulus
  /\ a.value[2] = Value(s, j + 1, m) % IntModulus
  /\ Value(s, j + 1, m) \in Nat

WasRead(s, m, a, j, k) ==
  /\ a.state = "read" /\ k <= m /\ Rep(s, j, k)
  /\ a.value[1] = Value(s, 1, j - 1) % IntModulus
  /\ a.value[2] = Value(s, j + 1, k - 1) % IntModulus

NoRep(s) == \A j, k \in 1 .. Len(s) : ~Rep(s, j, k)

Sofar(s, m, a) ==
  \/ InFirst(s, m, a)
  \/ \E j \in 2 .. m : InSecond(s, m, a, j)
  \/ \E j, k \in 1 .. Len(s) : WasRead(s, m, a, j, k)
  \/ a.state = "bad" /\ NoRep(s)

Codes == /\ \A ch : IsDigit(ch) => ch \in 48 .. 57 /\ ch # SEMICOLON /\ ch # R
         /\ SEMICOLON # R

(* A digit is neither of the two terminators.                               *)
LEMMA CodesDiffer == Codes
BY DEF Codes, IsDigit, ZERO, SEMICOLON, R

(* A digit more.                                                            *)
LEMMA DigitsFurther ==
  ASSUME NEW s, NEW lo \in Nat, NEW m \in Nat, AllDigits(s, lo, m), IsDigit(s[m + 1])
  PROVE  AllDigits(s, lo, m + 1)
<1> SUFFICES ASSUME NEW x \in lo .. (m + 1) PROVE IsDigit(s[x])
  BY DEF AllDigits
<1>1. x = m + 1 \/ x \in lo .. m
  OBVIOUS
<1> QED BY <1>1 DEF AllDigits

(* A digit is worth a natural number.                                       *)
LEMMA DigitsWorth ==
  ASSUME NEW ch \in Nat, IsDigit(ch)
  PROVE  ch - ZERO \in Nat
BY DEF IsDigit, ZERO

(* What a digit does to the number being read: it is the value of one       *)
(* digit more, modulo IntModulus.                                           *)
LEMMA DigitEffect ==
  ASSUME NEW a \in ParseStates, NEW ch \in Nat, IsDigit(ch), a.state = "open",
         NEW f \in 1 .. 2, a.field = f, NEW old \in Nat, NEW new \in Int,
         new = old * 10 + (ch - ZERO),
         a.value[f] = old % IntModulus
  PROVE  LET b == parse_step(a, ch) IN
         /\ b.state = "open" /\ b.field = f /\ b.digits = a.digits + 1
         /\ b.value[f] = new % IntModulus /\ new \in Nat
         /\ \A g \in 1 .. 2 : g # f => b.value[g] = a.value[g]
<1> DEFINE x == (a.value[f] * 10 + (ch - ZERO)) % IntModulus
           b == [a EXCEPT !.value[f] = x, !.digits = @ + 1]
           d == ch - ZERO
<1>1. d \in Nat
  BY DEF IsDigit, ZERO
<1>2. parse_step(a, ch) = b
  BY DEF parse_step
<1>3. a.value \in [1 .. 2 -> Nat]
  BY DEF ParseStates
<1>4. x = new % IntModulus
  <2> HIDE DEF d
  <2>1. ((old % IntModulus) * 10 + d) % IntModulus = (old * 10 + d) % IntModulus
    BY <1>1, Modulus, ModStep
  <2>2. x = ((old % IntModulus) * 10 + d) % IntModulus /\ new = old * 10 + d
    BY DEF d
  <2> HIDE DEF x
  <2> QED BY <2>1, <2>2
<1>5. new \in Nat
  <2>1. new = old * 10 + d
    OBVIOUS
  <2> HIDE DEF d
  <2> QED BY <1>1, <2>1
<1> HIDE DEF x
<1>6. DOMAIN a = {"value", "field", "digits", "state"}
  BY DEF ParseStates
<1>7. /\ b.value = [a.value EXCEPT ![f] = x] /\ b.state = a.state /\ b.field = a.field
      /\ b.digits = a.digits + 1
  BY <1>6
<1> HIDE DEF b
<1>8. b.value[f] = x /\ \A g \in 1 .. 2 : g # f => b.value[g] = a.value[g]
  BY <1>3, <1>7
<1> QED BY <1>2, <1>4, <1>5, <1>7, <1>8

(* Whatever ends the first number but a semicolon behind a digit, and an    *)
(* end of the input, leave no report.                                       *)
LEMMA OpenFirstNoRep ==
  ASSUME NEW s \in Seq(Nat), NEW m \in 0 .. Len(s), AllDigits(s, 1, m),
         m < Len(s) => ~IsDigit(s[m + 1]) /\ ~(s[m + 1] = SEMICOLON /\ m > 0)
  PROVE  NoRep(s)
<1> SUFFICES ASSUME NEW j \in 1 .. Len(s), NEW k \in 1 .. Len(s), Rep(s, j, k) PROVE FALSE
  BY DEF NoRep
<1>1. j \in 2 .. Len(s) /\ s[j] = SEMICOLON /\ AllDigits(s, 1, j - 1)
  BY DEF Rep
<1>2. ~(j \in 1 .. m)
  BY <1>1, CodesDiffer DEF AllDigits, Codes
<1>3. ~(j = m + 1)
  BY <1>1
<1>4. j > m + 1
  BY <1>1, <1>2, <1>3
<1>5. m + 1 \in 1 .. (j - 1) /\ m < Len(s)
  BY <1>1, <1>4
<1> QED BY <1>1, <1>5 DEF AllDigits

(* A report has one semicolon to end its first number ...                   *)
LEMMA OneSemicolon ==
  ASSUME NEW s, NEW i \in Nat, NEW j \in Nat, i >= 1, j >= 1, s[i] = SEMICOLON, s[j] = SEMICOLON,
         AllDigits(s, 1, i - 1), AllDigits(s, 1, j - 1)
  PROVE  i = j
<1>1. ~(j \in 1 .. (i - 1)) /\ ~(i \in 1 .. (j - 1))
  BY CodesDiffer DEF AllDigits, Codes
<1> QED BY <1>1

(* The same for the second number and R.                                    *)
LEMMA OpenSecondNoRep ==
  ASSUME NEW s \in Seq(Nat), NEW m \in 0 .. Len(s), NEW i \in 2 .. m, s[i] = SEMICOLON,
         AllDigits(s, 1, i - 1), AllDigits(s, i + 1, m),
         m < Len(s) => ~IsDigit(s[m + 1]) /\ ~(s[m + 1] = R /\ m > i)
  PROVE  NoRep(s)
<1> SUFFICES ASSUME NEW j \in 1 .. Len(s), NEW k \in 1 .. Len(s), Rep(s, j, k) PROVE FALSE
  BY DEF NoRep
<1>1. /\ j \in 2 .. Len(s) /\ s[j] = SEMICOLON /\ AllDigits(s, 1, j - 1)
      /\ k \in (j + 2) .. Len(s) /\ s[k] = R /\ AllDigits(s, j + 1, k - 1)
  BY DEF Rep
<1>2. i = j
  <2>1. i \in Nat /\ i >= 1 /\ j \in Nat /\ j >= 1
    BY <1>1
  <2> QED BY <1>1, <2>1, OneSemicolon
<1>3. ~(k \in (i + 1) .. m)
  BY <1>1, CodesDiffer DEF AllDigits, Codes
<1>4. ~(k = m + 1)
  <2>1. SUFFICES ASSUME k = m + 1 PROVE FALSE
    OBVIOUS
  <2>2. m < Len(s) /\ m > i
    BY <1>1, <1>2, <2>1
  <2>3. s[m + 1] = R
    BY <1>1, <2>1
  <2> QED BY <2>2, <2>3
<1>5. k > m + 1
  BY <1>1, <1>2, <1>3, <1>4
<1>6. m + 1 \in (j + 1) .. (k - 1) /\ m < Len(s)
  BY <1>1, <1>2, <1>5
<1> QED BY <1>1, <1>6 DEF AllDigits

(* One step from the first number: a digit, a semicolon behind digits, or   *)
(* the end of it.                                                           *)
LEMMA FirstStep ==
  ASSUME NEW s \in Seq(Nat), NEW m \in 0 .. Len(s), m < Len(s), NEW a \in ParseStates,
         InFirst(s, m, a)
  PROVE  Sofar(s, m + 1, parse_step(a, s[m + 1]))
<1> DEFINE ch == s[m + 1]
           b == parse_step(a, ch)
           v == Value(s, 1, m)
           w == Value(s, 1, m + 1)
<1>1. m \in Nat /\ m + 1 <= Len(s) /\ m + 1 \in 1 .. Len(s) /\ ch \in Nat
  OBVIOUS
<1>2. CASE IsDigit(ch)
  <2>1. w \in Int /\ w = v * 10 + (ch - ZERO)
    <3>1. v \in Int /\ w = v * 10 + (ch - ZERO)
      BY <1>1, ValueFurther DEF InFirst
    <3>2. v \in Nat /\ ch - ZERO \in Nat
      BY <1>1, <1>2, DigitsWorth DEF InFirst
    <3> HIDE DEF v, w
    <3> QED BY <3>1, <3>2
  <2>2. /\ b.state = "open" /\ b.field = 1 /\ b.digits = a.digits + 1
        /\ b.value[1] = w % IntModulus /\ w \in Nat /\ b.value[2] = a.value[2]
    <3> HIDE DEF v, w
    <3>1. v \in Nat /\ a.state = "open" /\ a.field = 1 /\ a.value[1] = v % IntModulus
      BY DEF InFirst, v
    <3>2. 1 \in 1 .. 2 /\ 2 \in 1 .. 2 /\ 2 # 1
      OBVIOUS
    <3>3. ch \in Nat /\ IsDigit(ch) /\ w \in Int /\ w = v * 10 + (ch - ZERO)
      BY <1>1, <1>2, <2>1
    <3> HIDE DEF ch
    <3>4. /\ b.state = "open" /\ b.field = 1 /\ b.digits = a.digits + 1
          /\ b.value[1] = w % IntModulus /\ w \in Nat
          /\ \A g \in 1 .. 2 : g # 1 => b.value[g] = a.value[g]
      BY <3>1, <3>2, <3>3, DigitEffect
    <3> QED BY <3>2, <3>4
  <2>3. AllDigits(s, 1, m + 1)
    BY <1>1, <1>2, DigitsFurther DEF InFirst
  <2> HIDE DEF b
  <2>4. InFirst(s, m + 1, b)
    BY <2>2, <2>3 DEF InFirst
  <2> QED BY <2>4 DEF Sofar, b
<1>3. CASE ~IsDigit(ch) /\ ch = SEMICOLON /\ m > 0
  <2>1. b = [a EXCEPT !.field = 2, !.digits = 0]
    BY <1>3 DEF parse_step, InFirst
  <2>2. b.state = "open" /\ b.field = 2 /\ b.digits = 0 /\ b.value = a.value
    BY <2>1 DEF ParseStates, InFirst
  <2>3. m + 2 > m + 1 /\ m + 1 \in 2 .. (m + 1) /\ (m + 1) - 1 = m /\ (m + 1) + 1 = m + 2
    BY <1>1, <1>3
  <2>4. AllDigits(s, m + 2, m + 1)
    BY <1>1 DEF AllDigits
  <2>5. Value(s, m + 2, m + 1) = 0
    BY <1>1, <2>3, ValueEmpty
  <2>6. 0 % IntModulus = 0
    BY Modulus
  <2> HIDE DEF b
  <2>7. InSecond(s, m + 1, b, m + 1)
    <3>1. s[m + 1] = SEMICOLON /\ (m + 1) - (m + 1) = 0
      BY <1>1, <1>3
    <3> QED BY <2>2, <2>3, <2>4, <2>5, <2>6, <3>1 DEF InFirst, InSecond
  <2> QED BY <2>3, <2>7 DEF Sofar, b
<1>4. CASE ~IsDigit(ch) /\ ~(ch = SEMICOLON /\ m > 0)
  <2>1. b.state = "bad"
    BY <1>4 DEF parse_step, InFirst, ParseStates
  <2>2. NoRep(s)
    BY <1>1, <1>4, OpenFirstNoRep DEF InFirst
  <2> QED BY <2>1, <2>2 DEF Sofar
<1> QED BY <1>2, <1>3, <1>4

(* One step from the second number.                                         *)
LEMMA SecondStep ==
  ASSUME NEW s \in Seq(Nat), NEW m \in 0 .. Len(s), m < Len(s), NEW a \in ParseStates,
         NEW j \in 2 .. m, InSecond(s, m, a, j)
  PROVE  Sofar(s, m + 1, parse_step(a, s[m + 1]))
<1> DEFINE ch == s[m + 1]
           b == parse_step(a, ch)
           v == Value(s, j + 1, m)
           w == Value(s, j + 1, m + 1)
<1>1. /\ m \in Nat /\ m + 1 <= Len(s) /\ m + 1 \in 1 .. Len(s) /\ ch \in Nat
      /\ j \in Nat /\ j + 1 \in Nat \ {0} /\ j <= m /\ j + 1 <= m + 1 /\ j \in 2 .. (m + 1)
      /\ j \in 1 .. Len(s)
  OBVIOUS
<1>2. CASE IsDigit(ch)
  <2>1. w \in Int /\ w = v * 10 + (ch - ZERO)
    <3>1. v \in Int /\ w = v * 10 + (ch - ZERO)
      BY <1>1, ValueFurther
    <3>2. v \in Nat
      BY DEF InSecond
    <3>3. ch - ZERO \in Nat
      BY <1>1, <1>2, DigitsWorth
    <3> HIDE DEF v, w
    <3> QED BY <3>1, <3>2, <3>3
  <2>2. /\ b.state = "open" /\ b.field = 2 /\ b.digits = a.digits + 1
        /\ b.value[2] = w % IntModulus /\ w \in Nat /\ b.value[1] = a.value[1]
    <3> HIDE DEF v, w
    <3>1. v \in Nat /\ a.state = "open" /\ a.field = 2 /\ a.value[2] = v % IntModulus
      BY DEF InSecond, v
    <3>2. 1 \in 1 .. 2 /\ 2 \in 1 .. 2 /\ 1 # 2
      OBVIOUS
    <3>3. ch \in Nat /\ IsDigit(ch) /\ w \in Int /\ w = v * 10 + (ch - ZERO)
      BY <1>1, <1>2, <2>1
    <3> HIDE DEF ch
    <3>4. /\ b.state = "open" /\ b.field = 2 /\ b.digits = a.digits + 1
          /\ b.value[2] = w % IntModulus /\ w \in Nat
          /\ \A g \in 1 .. 2 : g # 2 => b.value[g] = a.value[g]
      BY <3>1, <3>2, <3>3, DigitEffect
    <3> QED BY <3>2, <3>4
  <2>3. AllDigits(s, j + 1, m + 1)
    BY <1>1, <1>2, DigitsFurther DEF InSecond
  <2>4. b.digits = (m + 1) - j
    BY <1>1, <2>2 DEF InSecond
  <2> HIDE DEF b
  <2>5. InSecond(s, m + 1, b, j)
    BY <1>1, <2>2, <2>3, <2>4 DEF InSecond
  <2>6. \E k \in 2 .. (m + 1) : InSecond(s, m + 1, b, k)
    BY <1>1, <2>5
  <2>7. Sofar(s, m + 1, b)
    BY <2>6, Zenon DEF Sofar
  <2> QED BY <2>7 DEF b
<1>3. CASE ~IsDigit(ch) /\ ch = R /\ m > j
  <2>1. b = [a EXCEPT !.state = "read"]
    <3>1. a.digits > 0
      BY <1>1, <1>3 DEF InSecond
    <3> QED BY <1>3, <3>1 DEF parse_step, InSecond
  <2>2. b.state = "read" /\ b.value = a.value
    BY <2>1 DEF ParseStates
  <2>3. Rep(s, j, m + 1)
    <3>1. m + 1 \in (j + 2) .. Len(s) /\ j \in 2 .. Len(s) /\ (m + 1) - 1 = m
      BY <1>1, <1>3
    <3> QED BY <1>3, <3>1 DEF Rep, InSecond
  <2> HIDE DEF b
  <2>4. WasRead(s, m + 1, b, j, m + 1)
    <3>1. (m + 1) - 1 = m /\ m + 1 <= m + 1
      BY <1>1
    <3> QED BY <2>2, <2>3, <3>1 DEF WasRead, InSecond
  <2> QED BY <1>1, <2>4 DEF Sofar, b
<1>4. CASE ~IsDigit(ch) /\ ~(ch = R /\ m > j)
  <2>1. b.state = "bad"
    <3>1. a.digits > 0 => m > j
      BY <1>1 DEF InSecond
    <3> QED BY <1>4, <3>1 DEF parse_step, InSecond, ParseStates
  <2>2. NoRep(s)
    BY <1>1, <1>4, OpenSecondNoRep DEF InSecond
  <2> QED BY <2>1, <2>2 DEF Sofar
<1> QED BY <1>2, <1>3, <1>4

(* Sofar is kept by every step, the ones behind the end included.           *)
LEMMA SofarStep ==
  ASSUME NEW s \in Seq(Nat), NEW m \in 0 .. Len(s), m < Len(s), NEW a \in ParseStates,
         Sofar(s, m, a)
  PROVE  Sofar(s, m + 1, parse_step(a, s[m + 1]))
<1>1. CASE InFirst(s, m, a)
  BY <1>1, FirstStep
<1>2. ASSUME NEW j \in 2 .. m, InSecond(s, m, a, j) PROVE Sofar(s, m + 1, parse_step(a, s[m + 1]))
  BY <1>2, SecondStep
<1>3. ASSUME NEW j \in 1 .. Len(s), NEW k \in 1 .. Len(s), WasRead(s, m, a, j, k)
      PROVE  Sofar(s, m + 1, parse_step(a, s[m + 1]))
  <2>1. parse_step(a, s[m + 1]) = a
    BY <1>3 DEF parse_step, WasRead
  <2>2. k <= m + 1
    BY <1>3 DEF WasRead
  <2>3. WasRead(s, m + 1, a, j, k)
    BY <1>3, <2>2 DEF WasRead
  <2> QED BY <2>1, <2>3 DEF Sofar
<1>4. CASE a.state = "bad" /\ NoRep(s)
  <2>1. parse_step(a, s[m + 1]) = a
    BY <1>4 DEF parse_step
  <2> QED BY <1>4, <2>1 DEF Sofar
<1> QED BY <1>1, <1>2, <1>3, <1>4 DEF Sofar

(* So it holds when the input ends.                                         *)
LEMMA ParseEnds ==
  ASSUME NEW s \in Seq(Nat)
  PROVE  LET a == FoldLeft(parse_step, NothingParsed, s)
         IN  a \in ParseStates /\ Sofar(s, Len(s), a)
<1> DEFINE n == Len(s)
<1>1. PICK c : Parses(c, s) /\ FoldLeft(parse_step, NothingParsed, s) = c[n]
  BY ParseChain
<1>2. n \in Nat
  OBVIOUS
<1> DEFINE S == {k \in Nat : k <= n => c[k] \in ParseStates /\ Sofar(s, k, c[k])}
<1>3. 0 \in S
  <2>1. c[0] = NothingParsed /\ NothingParsed \in ParseStates
    BY <1>1, <1>2 DEF Parses, NothingParsed, ParseStates
  <2>2. Value(s, 1, 0) = 0
    <3>1. 0 \in 0 .. Len(s) /\ 0 + 1 = 1
      BY <1>2
    <3> QED BY <3>1, ValueEmpty
  <2>3. 0 % IntModulus = 0 /\ AllDigits(s, 1, 0)
    BY Modulus DEF AllDigits
  <2>4. InFirst(s, 0, NothingParsed)
    BY <2>2, <2>3 DEF InFirst, NothingParsed
  <2>5. Sofar(s, 0, NothingParsed)
    BY <2>4 DEF Sofar
  <2> QED BY <2>1, <2>5
<1>4. ASSUME NEW k \in S PROVE k + 1 \in S
  <2>1. SUFFICES ASSUME k + 1 <= n PROVE c[k + 1] \in ParseStates /\ Sofar(s, k + 1, c[k + 1])
    OBVIOUS
  <2>2. /\ k \in 0 .. n /\ k < n /\ k \in 0 .. (n - 1) /\ k + 1 \in 1 .. n
        /\ c[k] \in ParseStates /\ Sofar(s, k, c[k]) /\ s[k + 1] \in Nat
    BY <1>2, <2>1
  <2>3. c[k + 1] = parse_step(c[k], s[k + 1])
    BY <1>1, <2>2 DEF Parses
  <2> QED BY <2>2, <2>3, StepIsState, SofarStep
<1>5. S \in SUBSET Nat
  OBVIOUS
<1> HIDE DEF S
<1>6. S = Nat
  BY <1>3, <1>4, <1>5, NumberInduction
<1>7. n \in S /\ n <= n
  BY <1>2, <1>6
<1> QED BY <1>1, <1>7 DEF S

(* ... and one R to end its second.                                         *)
LEMMA OneR ==
  ASSUME NEW s, NEW j \in Nat, NEW i \in Nat, NEW k \in Nat, i > j, k > j, s[i] = R, s[k] = R,
         AllDigits(s, j + 1, i - 1), AllDigits(s, j + 1, k - 1)
  PROVE  i = k
<1>1. ~(k \in (j + 1) .. (i - 1)) /\ ~(i \in (j + 1) .. (k - 1))
  BY CodesDiffer DEF AllDigits, Codes
<1> QED BY <1>1

Figures(s, j, k) ==
  <<Value(s, 1, j - 1) % IntModulus, Value(s, j + 1, k - 1) % IntModulus>>

(* A pair is its two components.                                            *)
LEMMA PairIs ==
  ASSUME NEW f \in [1 .. 2 -> Nat]
  PROVE  f = <<f[1], f[2]>>
OBVIOUS

(* If there is a report, the parse ends read, with its figures ...          *)
LEMMA RepIsRead ==
  ASSUME NEW s \in Seq(Nat), NEW j \in 1 .. Len(s), NEW k \in 1 .. Len(s), Rep(s, j, k),
         NEW a \in ParseStates, Sofar(s, Len(s), a)
  PROVE  a.state = "read" /\ a.value = Figures(s, j, k)
<1> DEFINE n == Len(s)
<1>1. n \in Nat /\ n \in 0 .. n /\ ~(n < n)
  OBVIOUS
<1>2. ~NoRep(s)
  BY DEF NoRep
<1>3. ~InFirst(s, n, a)
  BY <1>1, <1>2, OpenFirstNoRep DEF InFirst
<1>4. ASSUME NEW i \in 2 .. n PROVE ~InSecond(s, n, a, i)
  BY <1>1, <1>2, OpenSecondNoRep DEF InSecond
<1>5. PICK i \in 1 .. n, l \in 1 .. n : WasRead(s, n, a, i, l)
  BY <1>2, <1>3, <1>4 DEF Sofar
<1>6. i = j
  <2>1. /\ i \in Nat /\ i >= 1 /\ j \in Nat /\ j >= 1 /\ s[i] = SEMICOLON /\ s[j] = SEMICOLON
        /\ AllDigits(s, 1, i - 1) /\ AllDigits(s, 1, j - 1)
    BY <1>5 DEF WasRead, Rep
  <2> QED BY <2>1, OneSemicolon
<1>7. l = k
  <2>1. /\ l \in Nat /\ k \in Nat /\ j \in Nat /\ l > j /\ k > j /\ s[l] = R /\ s[k] = R
        /\ AllDigits(s, j + 1, l - 1) /\ AllDigits(s, j + 1, k - 1)
    BY <1>5, <1>6 DEF WasRead, Rep
  <2> QED BY <2>1, OneR
<1>8. /\ a.state = "read" /\ a.value \in [1 .. 2 -> Nat]
      /\ a.value[1] = Value(s, 1, j - 1) % IntModulus
      /\ a.value[2] = Value(s, j + 1, k - 1) % IntModulus
  BY <1>5, <1>6, <1>7 DEF WasRead, ParseStates
<1>9. a.value = <<a.value[1], a.value[2]>>
  BY <1>8, PairIs
<1> QED BY <1>8, <1>9 DEF Figures

(* What was read to the end is such a report.                               *)
LEMMA ReadIsRep ==
  ASSUME NEW s \in Seq(Nat), NEW a \in ParseStates, Sofar(s, Len(s), a), a.state = "read"
  PROVE  \E j, k \in 1 .. Len(s) : Rep(s, j, k)
BY DEF Sofar, InFirst, InSecond, WasRead

(* A set of numbers has a least one.                                        *)
LEMMA LeastOf ==
  ASSUME NEW S \in SUBSET Nat, S # {}
  PROVE  Least(S) \in S /\ \A j \in S : Least(S) <= j
<1>1. PICK m \in S : \A n \in S : ~(<<n, m>> \in OpToRel(<, Nat))
  BY NatLessThanWellFounded, WFMin
<1>2. \A n \in S : m <= n
  <2> SUFFICES ASSUME NEW n \in S, n < m PROVE FALSE
    OBVIOUS
  <2>1. <<n, m>> \in OpToRel(<, Nat)
    BY Zenon DEF OpToRel
  <2> QED BY <1>1, <2>1
<1> QED BY <1>2 DEF Least

(* A report behind the introducer at i, and the same in what follows it.    *)
LEMMA Behind ==
  ASSUME NEW b \in Seq(Nat), NEW i \in 1 .. (Len(b) - 1)
  PROVE  LET s == SubSeq(b, i + 2, Len(b)) IN
         /\ s \in Seq(Nat) /\ Len(s) = Len(b) - i - 1
         /\ \A x \in 1 .. Len(s) : s[x] = b[x + i + 1]
<1> DEFINE s == SubSeq(b, i + 2, Len(b))
           n == Len(b)
<1>1. n \in Nat /\ i + 2 \in Nat \ {0} /\ n \in 0 .. n /\ i + 2 <= n + 1
  OBVIOUS
<1>2. CASE i + 2 <= n
  <2>1. n - (i + 2) + 1 = n - i - 1
    BY <1>1
  <2>2. /\ s \in Seq(Nat) /\ Len(s) = n - i - 1
        /\ \A x \in 1 .. (n - i - 1) : s[x] = b[(i + 2) + x - 1]
    BY <1>1, <1>2, <2>1, Stretch
  <2> HIDE DEF s
  <2>3. ASSUME NEW x \in 1 .. (n - i - 1) PROVE s[x] = b[x + i + 1]
    <3>1. (i + 2) + x - 1 = x + i + 1
      BY <1>1
    <3>2. s[x] = b[(i + 2) + x - 1]
      BY <2>2
    <3> QED BY <3>1, <3>2, Zenon
  <2>4. Len(s) = Len(b) - i - 1 /\ \A x \in 1 .. Len(s) : s[x] = b[x + i + 1]
    BY <2>2, <2>3
  <2> QED BY <2>2, <2>4 DEF s
<1>3. CASE i + 2 > n
  <2>1. s \in Seq(Nat) /\ s = <<>>
    BY <1>1, <1>3, Stretch
  <2>2. n - i - 1 = 0
    BY <1>1, <1>3
  <2> QED BY <2>1, <2>2
<1> QED BY <1>1, <1>2, <1>3

Follows(s, b, d) == Len(s) + d = Len(b) /\ \A x \in 1 .. Len(s) : s[x] = b[x + d]

(* A stretch of what follows is a stretch of the whole.                     *)
LEMMA SameStretch ==
  ASSUME NEW b \in Seq(Nat), NEW s \in Seq(Nat), NEW d \in Nat, Follows(s, b, d),
         NEW lo \in Nat \ {0}, NEW hi \in 0 .. Len(s)
  PROVE  SubSeq(b, lo + d, hi + d) = SubSeq(s, lo, hi)
<1> DEFINE t == SubSeq(b, lo + d, hi + d)
           u == SubSeq(s, lo, hi)
<1> USE DEF Follows
<1>1. lo + d \in Nat \ {0} /\ hi + d \in 0 .. Len(b) /\ (hi + d) - (lo + d) + 1 = hi - lo + 1
  OBVIOUS
<1>2. CASE lo > hi
  <2>1. lo + d > hi + d
    BY <1>1, <1>2
  <2>2. t = <<>> /\ u = <<>>
    BY <1>1, <1>2, <2>1, Stretch
  <2> QED BY <2>2
<1>3. CASE lo <= hi
  <2> DEFINE n == hi - lo + 1
  <2>1. lo + d <= hi + d
    BY <1>1, <1>3
  <2>2. u \in Seq(Nat) /\ Len(u) = n /\ \A x \in 1 .. n : u[x] = s[lo + x - 1]
    BY <1>1, <1>3, Stretch
  <2>3. t \in Seq(Nat) /\ Len(t) = n /\ \A x \in 1 .. n : t[x] = b[(lo + d) + x - 1]
    <3> DEFINE l == lo + d
               h == hi + d
    <3>1. l \in Nat \ {0} /\ h \in 0 .. Len(b) /\ h - l + 1 = n /\ l <= h
      BY <1>1, <2>1
    <3> HIDE DEF l, h, n
    <3>2. /\ SubSeq(b, l, h) \in Seq(Nat) /\ Len(SubSeq(b, l, h)) = n
          /\ \A x \in 1 .. n : SubSeq(b, l, h)[x] = b[l + x - 1]
      BY <3>1, Stretch
    <3> QED BY <3>2 DEF l, h
  <2> HIDE DEF t, u
  <2>4. \A x \in 1 .. n : lo + x - 1 \in 1 .. Len(s) /\ (lo + x - 1) + d = (lo + d) + x - 1
    BY <1>1, <1>3
  <2>5. \A x \in 1 .. Len(t) : t[x] = u[x]
    BY <2>2, <2>3, <2>4
  <2>6. t = u
    BY <2>2, <2>3, <2>5, SeqEqual
  <2> QED BY <2>6 DEF t, u
<1> QED BY <1>1, <1>2, <1>3

(* The same in terms that are not expanded where it is used: b behind its   *)
(* first d is s, and lo to hi in b is l to h in s.                          *)
Behinds(s, b, d) == s \in Seq(Nat) /\ b \in Seq(Nat) /\ d \in Nat /\ Follows(s, b, d)
Shifted(s, d, lo, hi, l, h) == lo = l + d /\ hi = h + d /\ l \in Nat \ {0} /\ h \in 0 .. Len(s)
Agree(b, lo, hi, s, l, h) == SubSeq(b, lo, hi) = SubSeq(s, l, h)

LEMMA StretchBehind ==
  ASSUME NEW b, NEW s, NEW d, NEW lo, NEW hi, NEW l, NEW h,
         Behinds(s, b, d), Shifted(s, d, lo, hi, l, h)
  PROVE  Agree(b, lo, hi, s, l, h)
<1>1. b \in Seq(Nat) /\ s \in Seq(Nat) /\ d \in Nat /\ Follows(s, b, d)
  BY Zenon DEF Behinds
<1>2. l + d = lo /\ h + d = hi /\ l \in Nat \ {0} /\ h \in 0 .. Len(s)
  BY DEF Shifted
<1>3. SubSeq(b, l + d, h + d) = SubSeq(s, l, h)
  BY ONLY <1>1, <1>2, SameStretch, Zenon
<1> QED BY <1>2, <1>3 DEF Agree

-----------------------------------------------------------------------------
(* parse_cursor_report finds the report, and finds one only where it is.    *)

Decimals(b, i, j, k) ==
  <<Number(SubSeq(b, i + 2, j - 1)) % IntModulus, Number(SubSeq(b, j + 1, k - 1)) % IntModulus>>

(* A report in b is one behind its first introducer.                        *)
LEMMA ReportIs ==
  ASSUME NEW b \in Seq(Nat), NEW i \in 1 .. (Len(b) - 1),
         NEW j \in 1 .. Len(b), NEW k \in 1 .. Len(b)
  PROVE  LET s == SubSeq(b, i + 2, Len(b))
             v == j - (i + 1)
             w == k - (i + 1)
         IN /\ IsReport(b, i, j, k) <=>
                 /\ i \in introducers(b) /\ \A h \in introducers(b) : i <= h
                 /\ v \in 1 .. Len(s) /\ w \in 1 .. Len(s) /\ Rep(s, v, w)
            /\ IsReport(b, i, j, k) => Figures(s, v, w) = Decimals(b, i, j, k)
<1> DEFINE s == SubSeq(b, i + 2, Len(b))
           d == i + 1
           v == j - d
           w == k - d
           First == i \in introducers(b) /\ \A h \in introducers(b) : i <= h
           Ends  == /\ b[j] = SEMICOLON /\ b[k] = R
                    /\ Numeral(SubSeq(b, i + 2, j - 1)) /\ Numeral(SubSeq(b, j + 1, k - 1))
<1>1. /\ s \in Seq(Nat) /\ Len(s) = Len(b) - i - 1
      /\ \A x \in 1 .. Len(s) : s[x] = b[x + i + 1]
  BY Behind
<1> HIDE DEF s
<1>2. /\ d \in Nat /\ Len(s) + d = Len(b) /\ v \in Int /\ w \in Int /\ v + d = j /\ w + d = k
      /\ Len(s) \in Nat
  BY <1>1
<1>3. \A x \in 1 .. Len(s) : s[x] = b[x + d]
  <2>1. \A x \in 1 .. Len(s) : x + d = x + i + 1
    OBVIOUS
  <2> QED BY <1>1, <2>1
<1> DEFINE behind == Follows(s, b, d)
<1>11. behind
  BY <1>2, <1>3 DEF Follows
<1> HIDE DEF behind
<1>4. First <=> /\ b[i] = ESC /\ b[i + 1] = BRACKET
                /\ \A h \in 1 .. (i - 1) : ~(b[h] = ESC /\ b[h + 1] = BRACKET)
  <2>1. \A h \in 1 .. (i - 1) : h \in 1 .. (Len(b) - 1) /\ ~(i <= h)
    OBVIOUS
  <2>2. \A h \in 1 .. (Len(b) - 1) : h \in 1 .. (i - 1) \/ i <= h
    OBVIOUS
  <2> QED BY <2>1, <2>2 DEF introducers
<1>5. IsReport(b, i, j, k) <=> First /\ Ends
  BY <1>4 DEF IsReport
<1>6. ASSUME NEW lo \in Nat \ {0}, NEW hi \in 0 .. Len(b), lo > d
      PROVE  /\ lo - d \in Nat \ {0}
             /\ hi - d >= 0 => /\ hi - d \in 0 .. Len(s)
                               /\ SubSeq(b, lo, hi) = SubSeq(s, lo - d, hi - d)
  <2> DEFINE l == lo - d
             h == hi - d
  <2>1. l \in Nat \ {0} /\ l + d = lo /\ h + d = hi
    BY <1>2, <1>6
  <2>2. ASSUME h >= 0
        PROVE  h \in 0 .. Len(s) /\ SubSeq(b, lo, hi) = SubSeq(s, l, h)
    <3>1. h \in 0 .. Len(s)
      BY <1>2, <2>2
    <3> HIDE DEF l, h, d
    <3>2. Follows(s, b, d) /\ s \in Seq(Nat) /\ d \in Nat
      BY <1>1, <1>2, <1>11 DEF behind
    <3>3. l \in Nat \ {0}
      BY <2>1
    <3>4. Agree(b, lo, hi, s, l, h)
      <4>1. Shifted(s, d, lo, hi, l, h)
        BY <2>1, <3>1, <3>3 DEF Shifted
      <4>2. Behinds(s, b, d)
        BY <3>2 DEF Behinds
      <4> QED BY <4>1, <4>2, StretchBehind
    <3> QED BY <3>1, <3>4 DEF Agree
  <2> QED BY <2>1, <2>2
<1>7. ASSUME Ends
      PROVE  /\ v \in 1 .. Len(s) /\ w \in 1 .. Len(s) /\ Rep(s, v, w)
             /\ Figures(s, v, w) = Decimals(b, i, j, k)
  <2>1. i + 2 \in Nat \ {0} /\ j - 1 \in 0 .. Len(b) /\ j + 1 \in Nat \ {0} /\ k - 1 \in 0 .. Len(b)
    OBVIOUS
  <2>2. i + 2 <= j - 1 /\ j + 1 <= k - 1
    BY <1>7, <2>1, NumeralIs
  <2>3. /\ v \in 2 .. Len(s) /\ w \in (v + 2) .. Len(s) /\ i + 2 > d /\ j + 1 > d
        /\ (i + 2) - d = 1 /\ (j - 1) - d = v - 1 /\ (j + 1) - d = v + 1 /\ (k - 1) - d = w - 1
        /\ v - 1 \in 0 .. Len(s) /\ w - 1 \in 0 .. Len(s) /\ v + 1 \in Nat \ {0}
        /\ v \in 1 .. Len(s) /\ w \in 1 .. Len(s)
        /\ (j - 1) - d >= 0 /\ (k - 1) - d >= 0
    BY <1>2, <2>2
  <2>4. /\ SubSeq(b, i + 2, j - 1) = SubSeq(s, 1, v - 1)
        /\ SubSeq(b, j + 1, k - 1) = SubSeq(s, v + 1, w - 1)
    <3>1. SubSeq(b, i + 2, j - 1) = SubSeq(s, (i + 2) - d, (j - 1) - d)
      BY <1>6, <2>1, <2>3
    <3>2. SubSeq(b, j + 1, k - 1) = SubSeq(s, (j + 1) - d, (k - 1) - d)
      BY <1>6, <2>1, <2>3
    <3> HIDE DEF d, v, w
    <3> QED BY <2>3, <3>1, <3>2
  <2>5. AllDigits(s, 1, v - 1)
    <3> DEFINE h == v - 1
    <3>1. 1 \in Nat \ {0} /\ h \in 0 .. Len(s)
      BY <2>3
    <3>2. Numeral(SubSeq(s, 1, h))
      <4>1. Numeral(SubSeq(b, i + 2, j - 1))
        BY <1>7
      <4> QED BY <2>4, <4>1
    <3> HIDE DEF h
    <3>3. AllDigits(s, 1, h)
      BY <1>1, <3>1, <3>2, NumeralIs
    <3> QED BY <3>3 DEF h
  <2>6. AllDigits(s, v + 1, w - 1)
    <3> DEFINE l == v + 1
               h == w - 1
    <3>1. Numeral(SubSeq(s, l, h)) /\ l \in Nat \ {0} /\ h \in 0 .. Len(s)
      BY <1>7, <2>3, <2>4
    <3> HIDE DEF l, h
    <3>2. AllDigits(s, l, h)
      BY <1>1, <3>1, NumeralIs
    <3> QED BY <3>2 DEF l, h
  <2>7. s[v] = SEMICOLON /\ s[w] = R
    BY <1>2, <1>3, <1>7, <2>3
  <2>8. Figures(s, v, w) = Decimals(b, i, j, k)
    <3> HIDE DEF v, w, d
    <3> QED BY <2>4 DEF Figures, Decimals, Value
  <2>9. Rep(s, v, w)
    BY <2>3, <2>5, <2>6, <2>7 DEF Rep
  <2> QED BY <2>3, <2>8, <2>9
<1>8. ASSUME v \in 1 .. Len(s), w \in 1 .. Len(s), Rep(s, v, w) PROVE Ends
  <2>1. i + 2 \in Nat \ {0} /\ j - 1 \in 0 .. Len(b) /\ j + 1 \in Nat \ {0} /\ k - 1 \in 0 .. Len(b)
    OBVIOUS
  <2>2. v \in 2 .. Len(s) /\ w \in (v + 2) .. Len(s)
    BY <1>8 DEF Rep
  <2>3. /\ i + 2 > d /\ j + 1 > d
        /\ (i + 2) - d = 1 /\ (j - 1) - d = v - 1 /\ (j + 1) - d = v + 1 /\ (k - 1) - d = w - 1
        /\ v - 1 \in 0 .. Len(s) /\ w - 1 \in 0 .. Len(s) /\ v + 1 \in Nat \ {0}
        /\ (j - 1) - d >= 0 /\ (k - 1) - d >= 0 /\ 1 <= v - 1 /\ v + 1 <= w - 1
    BY <1>2, <2>2
  <2>4. /\ SubSeq(b, i + 2, j - 1) = SubSeq(s, 1, v - 1)
        /\ SubSeq(b, j + 1, k - 1) = SubSeq(s, v + 1, w - 1)
    <3>1. SubSeq(b, i + 2, j - 1) = SubSeq(s, (i + 2) - d, (j - 1) - d)
      BY <1>6, <2>1, <2>3
    <3>2. SubSeq(b, j + 1, k - 1) = SubSeq(s, (j + 1) - d, (k - 1) - d)
      BY <1>6, <2>1, <2>3
    <3> HIDE DEF d, v, w
    <3> QED BY <2>3, <3>1, <3>2
  <2>5. AllDigits(s, 1, v - 1) /\ AllDigits(s, v + 1, w - 1) /\ s[v] = SEMICOLON /\ s[w] = R
    BY <1>8 DEF Rep
  <2>6. Numeral(SubSeq(s, 1, v - 1))
    <3> DEFINE h == v - 1
    <3>1. 1 \in Nat \ {0} /\ h \in 0 .. Len(s) /\ 1 <= h /\ AllDigits(s, 1, h)
      BY <2>3, <2>5
    <3> HIDE DEF h
    <3>2. Numeral(SubSeq(s, 1, h))
      BY <1>1, <3>1, NumeralIs
    <3> QED BY <3>2 DEF h
  <2>7. Numeral(SubSeq(s, v + 1, w - 1))
    <3> DEFINE l == v + 1
               h == w - 1
    <3>1. l \in Nat \ {0} /\ h \in 0 .. Len(s) /\ l <= h /\ AllDigits(s, l, h)
      BY <2>3, <2>5
    <3> HIDE DEF l, h
    <3>2. Numeral(SubSeq(s, l, h))
      BY <1>1, <3>1, NumeralIs
    <3> QED BY <3>2 DEF l, h
  <2>8. b[j] = SEMICOLON /\ b[k] = R
    BY <1>2, <1>3, <1>8, <2>5
  <2> QED BY <2>4, <2>6, <2>7, <2>8
<1> HIDE DEF First, Ends
<1> QED BY <1>5, <1>7, <1>8 DEF First, s

(* A report in b is parsed, to its decimals.                                *)
LEMMA ReportIsParsed ==
  ASSUME NEW b \in Seq(Nat), NEW i \in 1 .. (Len(b) - 1),
         NEW j \in 1 .. Len(b), NEW k \in 1 .. Len(b), IsReport(b, i, j, k)
  PROVE  parse_cursor_report(b) = Decimals(b, i, j, k)
<1> DEFINE s == SubSeq(b, i + 2, Len(b))
           v == j - (i + 1)
           w == k - (i + 1)
           a == FoldLeft(parse_step, NothingParsed, s)
<1>1. /\ i \in introducers(b) /\ \A h \in introducers(b) : i <= h
      /\ v \in 1 .. Len(s) /\ w \in 1 .. Len(s) /\ Rep(s, v, w)
      /\ Figures(s, v, w) = Decimals(b, i, j, k)
  BY ReportIs
<1>2. s \in Seq(Nat)
  BY Behind
<1>3. Least(introducers(b)) = i
  <2>1. introducers(b) \in SUBSET Nat
    BY DEF introducers
  <2>2. Least(introducers(b)) \in introducers(b) /\ Least(introducers(b)) <= i
    BY <1>1, <2>1, LeastOf
  <2>3. i <= Least(introducers(b)) /\ Least(introducers(b)) \in Nat
    BY <1>1, <2>1, <2>2
  <2> QED BY <2>2, <2>3
<1> HIDE DEF s, v, w
<1>4. a \in ParseStates /\ Sofar(s, Len(s), a)
  BY <1>2, ParseEnds
<1>5. parsed(b) = a
  BY <1>3 DEF parsed, report_start, s
<1> HIDE DEF a
<1>6. a.state = "read" /\ a.value = Figures(s, v, w)
  BY <1>1, <1>2, <1>4, RepIsRead
<1>7. report_start(b) # {}
  BY <1>1 DEF report_start
<1> QED BY <1>1, <1>5, <1>6, <1>7 DEF parse_cursor_report

(* What is parsed is a report.                                              *)
LEMMA ParsedIsReport ==
  ASSUME NEW b \in Seq(Nat), parse_cursor_report(b) # NoReport
  PROVE  \E i \in 1 .. (Len(b) - 1), j \in 1 .. Len(b), k \in 1 .. Len(b) : IsReport(b, i, j, k)
<1> DEFINE i == Least(introducers(b))
           s == SubSeq(b, i + 2, Len(b))
           a == FoldLeft(parse_step, NothingParsed, s)
<1>1. introducers(b) # {} /\ a.state = "read"
  BY DEF parse_cursor_report, report_start, parsed
<1>2. i \in introducers(b) /\ \A h \in introducers(b) : i <= h
  <2>1. introducers(b) \in SUBSET Nat
    BY DEF introducers
  <2> QED BY <1>1, <2>1, LeastOf
<1>3. i \in 1 .. (Len(b) - 1)
  BY <1>2 DEF introducers
<1> HIDE DEF i
<1>4. s \in Seq(Nat) /\ Len(s) = Len(b) - i - 1
  BY <1>3, Behind
<1> HIDE DEF s
<1>5. a \in ParseStates /\ Sofar(s, Len(s), a)
  BY <1>4, ParseEnds
<1> HIDE DEF a
<1>6. PICK v \in 1 .. Len(s), w \in 1 .. Len(s) : Rep(s, v, w)
  BY <1>1, <1>4, <1>5, ReadIsRep
<1> DEFINE j == v + (i + 1)
           k == w + (i + 1)
<1>7. /\ j \in 1 .. Len(b) /\ k \in 1 .. Len(b)
      /\ j - (i + 1) = v /\ k - (i + 1) = w
  BY <1>3, <1>4
<1> HIDE DEF j, k
<1>8. IsReport(b, i, j, k)
  BY <1>2, <1>3, <1>6, <1>7, ReportIs DEF s
<1> QED BY <1>3, <1>7, <1>8

(* Both, as ParsesReport says it.                                           *)
LEMMA ReportParsed ==
  ASSUME Chars(buf) \in Seq(Nat)
  PROVE  ParsesReport
<1> DEFINE b == Chars(buf)
           found == {p \in (1 .. (Len(b) - 1)) \X (1 .. Len(b)) \X (1 .. Len(b)) :
                       IsReport(b, p[1], p[2], p[3])}
<1>1. ASSUME found = {} PROVE parse_cursor_report(b) = NoReport
  <2> SUFFICES ASSUME parse_cursor_report(b) # NoReport PROVE FALSE
    OBVIOUS
  <2>1. PICK i \in 1 .. (Len(b) - 1), j \in 1 .. Len(b), k \in 1 .. Len(b) : IsReport(b, i, j, k)
    BY ParsedIsReport
  <2>2. <<i, j, k>> \in found
    <3> HIDE DEF b
    <3> QED BY <2>1
  <2> QED BY <1>1, <2>2
<1>2. ASSUME NEW p \in found
      PROVE  parse_cursor_report(b) = Decimals(b, p[1], p[2], p[3])
  <2> HIDE DEF b
  <2>1. /\ p[1] \in 1 .. (Len(b) - 1) /\ p[2] \in 1 .. Len(b) /\ p[3] \in 1 .. Len(b)
        /\ IsReport(b, p[1], p[2], p[3])
    OBVIOUS
  <2>2. b \in Seq(Nat)
    BY DEF b
  <2> QED BY <2>1, <2>2, ReportIsParsed
<1> HIDE DEF found
<1>3. IF found = {} THEN parse_cursor_report(b) = NoReport
      ELSE \A p \in found : parse_cursor_report(b) = Decimals(b, p[1], p[2], p[3])
  BY <1>1, <1>2
<1> QED BY <1>3 DEF ParsesReport, Decimals, found

-----------------------------------------------------------------------------
(* decimal, and the reply of the terminal.                                  *)

(* decimal up to n.                                                         *)
Written(f, n) ==
  \A m \in 0 .. n :
    f[m] = IF m < 10 THEN <<ZERO + m>> ELSE Append(f[m \div 10], ZERO + (m % 10))

(* A number is its last digit and a smaller number.                         *)
LEMMA TenParts ==
  ASSUME NEW n \in Nat
  PROVE  /\ n \div 10 \in Nat /\ n % 10 \in 0 .. 9 /\ n = (n \div 10) * 10 + (n % 10)
         /\ n >= 10 => n \div 10 < n /\ n \div 10 >= 1
OBVIOUS

(* decimal is defined by itself at smaller numbers: it exists up to n, for  *)
(* every n, and what exists up to two numbers agrees.                       *)
LEMMA WrittenFurther ==
  ASSUME NEW n \in Nat, NEW f \in [0 .. n -> Seq(Nat)], Written(f, n)
  PROVE  \E g \in [0 .. (n + 1) -> Seq(Nat)] : Written(g, n + 1)
<1> DEFINE k == n + 1
           e == IF k < 10 THEN <<ZERO + k>> ELSE Append(f[k \div 10], ZERO + (k % 10))
           g == [m \in 0 .. k |-> IF m = k THEN e ELSE f[m]]
<1>1. k \in Nat /\ k \div 10 \in Nat /\ k % 10 \in 0 .. 9 /\ (k >= 10 => k \div 10 < k)
  BY TenParts
<1>2. e \in Seq(Nat)
  <2>1. CASE k < 10
    <3>1. ZERO + k \in Nat
      BY <1>1 DEF ZERO
    <3> HIDE DEF k
    <3> QED BY <2>1, <3>1
  <2>2. CASE ~(k < 10)
    <3>1. k \div 10 \in 0 .. n
      BY <1>1, <2>2
    <3>2. f[k \div 10] \in Seq(Nat) /\ ZERO + (k % 10) \in Nat
      BY <1>1, <3>1 DEF ZERO
    <3> HIDE DEF k
    <3> QED BY <2>2, <3>2
  <2> QED BY <2>1, <2>2
<1> HIDE DEF e
<1>3. g \in [0 .. k -> Seq(Nat)]
  BY <1>2
<1>4. g[k] = e /\ \A m \in 0 .. n : g[m] = f[m]
  BY <1>1
<1> HIDE DEF g
<1>5. ASSUME NEW m \in 0 .. k
      PROVE  g[m] = IF m < 10 THEN <<ZERO + m>> ELSE Append(g[m \div 10], ZERO + (m % 10))
  <2>1. m \in Nat /\ m \div 10 \in Nat /\ (m >= 10 => m \div 10 < m)
    BY TenParts
  <2>2. m >= 10 => m \div 10 \in 0 .. n
    BY <1>1, <2>1
  <2>3. m >= 10 => g[m \div 10] = f[m \div 10]
    BY <1>4, <2>2
  <2>4. CASE m = k
    BY <1>1, <1>4, <2>1, <2>3, <2>4 DEF e
  <2>5. CASE m \in 0 .. n
    <3>1. g[m] = f[m]
      BY <1>4, <2>5
    <3>2. f[m] = IF m < 10 THEN <<ZERO + m>> ELSE Append(f[m \div 10], ZERO + (m % 10))
      BY <2>5 DEF Written
    <3> QED BY <2>1, <2>3, <3>1, <3>2
  <2> QED BY <2>4, <2>5
<1>6. Written(g, k)
  BY <1>5 DEF Written
<1> QED BY <1>3, <1>6

(* Every number is written somehow.                                         *)
LEMMA WrittenExists ==
  ASSUME NEW n \in Nat
  PROVE  \E f \in [0 .. n -> Seq(Nat)] : Written(f, n)
<1> DEFINE S == {m \in Nat : \E f \in [0 .. m -> Seq(Nat)] : Written(f, m)}
<1>1. 0 \in S
  <2> DEFINE f == [m \in 0 .. 0 |-> <<ZERO + m>>]
  <2>1. f \in [0 .. 0 -> Seq(Nat)]
    BY DEF ZERO
  <2>2. Written(f, 0)
    BY DEF Written
  <2> QED BY <2>1, <2>2
<1>2. ASSUME NEW m \in S PROVE m + 1 \in S
  <2>1. PICK f \in [0 .. m -> Seq(Nat)] : Written(f, m)
    OBVIOUS
  <2>2. m \in Nat /\ m + 1 \in Nat
    OBVIOUS
  <2>3. \E g \in [0 .. (m + 1) -> Seq(Nat)] : Written(g, m + 1)
    BY <2>1, <2>2, WrittenFurther
  <2> QED BY <2>2, <2>3
<1>3. S \in SUBSET Nat
  OBVIOUS
<1> HIDE DEF S
<1>4. S = Nat
  BY <1>1, <1>2, <1>3, NumberInduction
<1> QED BY <1>4 DEF S

(* And in one way.                                                          *)
LEMMA WrittenAgree ==
  ASSUME NEW n \in Nat, NEW f, NEW k \in Nat, NEW g, Written(f, n), Written(g, k)
  PROVE  \A m \in Nat : m <= n /\ m <= k => f[m] = g[m]
<1> DEFINE S == {m \in Nat : m <= n /\ m <= k => f[m] = g[m]}
<1>1. ASSUME NEW m \in Nat, \A l \in 0 .. (m - 1) : l \in S PROVE m \in S
  <2> SUFFICES ASSUME m <= n, m <= k PROVE f[m] = g[m]
    OBVIOUS
  <2>1. m \in 0 .. n /\ m \in 0 .. k
    OBVIOUS
  <2>2. /\ f[m] = IF m < 10 THEN <<ZERO + m>> ELSE Append(f[m \div 10], ZERO + (m % 10))
        /\ g[m] = IF m < 10 THEN <<ZERO + m>> ELSE Append(g[m \div 10], ZERO + (m % 10))
    BY <2>1 DEF Written
  <2>3. CASE m >= 10
    <3>1. m \div 10 \in 0 .. (m - 1) /\ m \div 10 <= n /\ m \div 10 <= k
      BY <2>3, TenParts
    <3>2. f[m \div 10] = g[m \div 10]
      BY <1>1, <3>1
    <3> QED BY <2>2, <3>2
  <2>4. CASE m < 10
    BY <2>2, <2>4
  <2> QED BY <2>3, <2>4
<1>2. S \in SUBSET Nat
  OBVIOUS
<1> HIDE DEF S
<1>3. S = Nat
  BY <1>1, <1>2, StrongInduction
<1> QED BY <1>3 DEF S

(* So decimal is what its definition says.                                  *)
LEMMA DecimalIs ==
  /\ DOMAIN decimal = Nat
  /\ \A n \in Nat :
       decimal[n] = IF n < 10 THEN <<ZERO + n>> ELSE Append(decimal[n \div 10], ZERO + (n % 10))
<1> DEFINE Rec(f) == f = [n \in Nat |-> IF n < 10 THEN <<ZERO + n>>
                                        ELSE Append(f[n \div 10], ZERO + (n % 10))]
           upto(n) == CHOOSE f \in [0 .. n -> Seq(Nat)] : Written(f, n)
           d == [n \in Nat |-> upto(n)[n]]
<1>1. \A n \in Nat : Written(upto(n), n)
  BY WrittenExists
<1>2. \A n \in Nat : d[n] = upto(n)[n]
  OBVIOUS
<1>3. d = [n \in Nat |-> d[n]]
  OBVIOUS
<1> HIDE DEF upto, d
<1>4. ASSUME NEW n \in Nat
      PROVE  d[n] = IF n < 10 THEN <<ZERO + n>> ELSE Append(d[n \div 10], ZERO + (n % 10))
  <2> DEFINE q == n \div 10
  <2>1. n \in 0 .. n
    OBVIOUS
  <2>2. upto(n)[n] = IF n < 10 THEN <<ZERO + n>> ELSE Append(upto(n)[q], ZERO + (n % 10))
    BY <1>1, <2>1 DEF Written
  <2>3. n >= 10 => upto(n)[q] = upto(q)[q]
    <3>1. q \in Nat /\ (n >= 10 => q <= n) /\ q <= q
      BY TenParts
    <3> HIDE DEF q
    <3> QED BY <1>1, <3>1, WrittenAgree
  <2>4. q \in Nat
    BY TenParts
  <2>5. d[q] = upto(q)[q]
    BY <1>2, <2>4
  <2> HIDE DEF q
  <2>6. d[n] = IF n < 10 THEN <<ZERO + n>> ELSE Append(d[q], ZERO + (n % 10))
    BY <1>2, <2>2, <2>3, <2>5
  <2> QED BY <2>6 DEF q
<1>5. Rec(d)
  BY <1>3, <1>4
<1>6. Rec(decimal)
  <2>1. decimal = CHOOSE f : Rec(f)
    BY DEF decimal
  <2> QED BY <1>5, <2>1
<1> QED BY <1>6

(* What decimal writes is the number, in digits.                            *)
Digits(s, n) == s \in Seq(Nat) /\ Numeral(s) /\ Number(s) = n

(* The code written for a remainder of ten is that of a digit.              *)
LEMMA DigitCodes ==
  ASSUME NEW r \in 0 .. 9
  PROVE  ZERO + r \in Nat /\ IsDigit(ZERO + r) /\ (ZERO + r) - ZERO = r
BY DEF ZERO, IsDigit

(* What decimal writes for n is a numeral, and its number is n.             *)
LEMMA DecimalDigits ==
  ASSUME NEW n \in Nat
  PROVE  Digits(decimal[n], n)
<1> DEFINE S == {m \in Nat : Digits(decimal[m], m)}
<1>1. ASSUME NEW m \in Nat, \A l \in 0 .. (m - 1) : l \in S PROVE m \in S
  <2> SUFFICES Digits(decimal[m], m)
    OBVIOUS
  <2>1. decimal[m] = IF m < 10 THEN <<ZERO + m>> ELSE Append(decimal[m \div 10], ZERO + (m % 10))
    BY DecimalIs
  <2>2. CASE m < 10
    <3> DEFINE d == ZERO + m
               s == <<d>>
    <3>1. d \in Nat /\ IsDigit(d) /\ d - ZERO = m
      BY <2>2, DigitCodes
    <3> HIDE DEF d
    <3>2. s \in Seq(Nat) /\ DOMAIN s = {1} /\ s[1] = d /\ s # <<>> /\ s = Append(<<>>, d)
      BY <3>1
    <3>3. <<>> \in Seq(Nat)
      OBVIOUS
    <3> HIDE DEF s
    <3>4. Number(s) = 0 * 10 + (d - ZERO)
      BY <3>1, <3>2, <3>3, NumberAppend, NumberEmpty
    <3>5. Number(s) = m
      BY <3>1, <3>4
    <3>6. Numeral(s)
      BY <3>1, <3>2 DEF Numeral
    <3> QED BY <2>1, <2>2, <3>2, <3>5, <3>6 DEF Digits, s, d
  <2>3. CASE ~(m < 10)
    <3> DEFINE q == m \div 10
               d == ZERO + (m % 10)
               u == decimal[q]
               s == Append(u, d)
    <3>1. q \in Nat /\ q \in 0 .. (m - 1) /\ m % 10 \in 0 .. 9 /\ m = q * 10 + (m % 10)
      BY <2>3, TenParts
    <3>2. d \in Nat /\ IsDigit(d) /\ d - ZERO = m % 10
      BY <3>1, DigitCodes
    <3>3. Digits(u, q)
      BY <1>1, <3>1
    <3>4. decimal[m] = s
      BY <2>1, <2>3
    <3> HIDE DEF q, d, u
    <3>5. s \in Seq(Nat) /\ Number(s) = m
      <4>1. u \in Seq(Nat) /\ Number(u) = q
        BY <3>3 DEF Digits
      <4>2. Number(s) = Number(u) * 10 + (d - ZERO)
        BY <3>2, <4>1, NumberAppend
      <4> QED BY <3>1, <3>2, <4>1, <4>2
    <3>6. Numeral(s)
      <4>1. u \in Seq(Nat) /\ \A i \in 1 .. Len(u) : IsDigit(u[i])
        BY <3>3 DEF Digits, Numeral
      <4>2. /\ s \in Seq(Nat) /\ Len(s) = Len(u) + 1 /\ s[Len(u) + 1] = d /\ s # <<>>
            /\ \A i \in 1 .. Len(u) : s[i] = u[i]
        BY <3>2, <4>1
      <4> HIDE DEF s
      <4>3. \A i \in DOMAIN s : i \in 1 .. Len(u) \/ i = Len(u) + 1
        BY <4>1, <4>2
      <4> QED BY <3>2, <4>1, <4>2, <4>3 DEF Numeral
    <3> QED BY <3>4, <3>5, <3>6 DEF Digits
  <2> QED BY <2>2, <2>3
<1>2. S \in SUBSET Nat
  OBVIOUS
<1> HIDE DEF S
<1>3. S = Nat
  BY <1>1, <1>2, StrongInduction
<1> QED BY <1>3 DEF S

(* The reply, piece by piece.                                               *)
Pieces(rep, u, v) ==
  LET m == Len(u)
      n == Len(v)
  IN /\ rep \in Seq(Nat) /\ Len(rep) = m + n + 4
     /\ rep[1] = ESC /\ rep[2] = BRACKET
     /\ \A x \in 1 .. m : rep[x + 2] = u[x]
     /\ rep[m + 3] = SEMICOLON
     /\ \A x \in 1 .. n : rep[x + m + 3] = v[x]
     /\ rep[m + n + 4] = R

(* The report the terminal sends has these pieces.                          *)
LEMMA ReportPieces ==
  ASSUME NEW p, p[1] \in Nat, p[2] \in Nat
  PROVE  /\ Pieces(Report(p), decimal[p[1]], decimal[p[2]])
         /\ Digits(decimal[p[1]], p[1]) /\ Digits(decimal[p[2]], p[2])
<1> DEFINE u == decimal[p[1]]
           v == decimal[p[2]]
           a == <<ESC, BRACKET>>
           b == a \o u
           c == b \o <<SEMICOLON>>
           d == c \o v
           e == d \o <<R>>
           m == Len(u)
           n == Len(v)
<1>1. Digits(u, p[1]) /\ Digits(v, p[2])
  BY DecimalDigits
<1>2. u \in Seq(Nat) /\ v \in Seq(Nat) /\ m \in Nat /\ n \in Nat
  BY <1>1 DEF Digits
<1>3. Report(p) = e
  BY DEF Report
<1> HIDE DEF u, v
<1>4. /\ a \in Seq(Nat) /\ Len(a) = 2 /\ a[1] = ESC /\ a[2] = BRACKET
      /\ <<SEMICOLON>> \in Seq(Nat) /\ Len(<<SEMICOLON>>) = 1 /\ <<SEMICOLON>>[1] = SEMICOLON
      /\ <<R>> \in Seq(Nat) /\ Len(<<R>>) = 1 /\ <<R>>[1] = R
  BY DEF ESC, BRACKET, SEMICOLON, R
<1> DEFINE semi == <<SEMICOLON>>
           last == <<R>>
<1> HIDE DEF a
<1>5. /\ b \in Seq(Nat) /\ Len(b) = m + 2 /\ b[1] = ESC /\ b[2] = BRACKET
      /\ \A x \in 1 .. m : b[x + 2] = u[x]
  <2>1. /\ b \in Seq(Nat) /\ Len(b) = Len(a) + Len(u)
        /\ \A x \in 1 .. Len(a) : b[x] = a[x]
        /\ \A x \in 1 .. Len(u) : b[x + Len(a)] = u[x]
    <3>1. a \in Seq(Nat) /\ u \in Seq(Nat)
      BY <1>2, <1>4
    <3> HIDE DEF m, n
    <3> QED BY <3>1, Join
  <2> HIDE DEF b
  <2> QED BY <1>2, <1>4, <2>1
<1> HIDE DEF b, semi
<1>6. /\ c \in Seq(Nat) /\ Len(c) = m + 3 /\ c[1] = ESC /\ c[2] = BRACKET
      /\ (\A x \in 1 .. m : c[x + 2] = u[x]) /\ c[m + 3] = SEMICOLON
  <2>1. /\ c \in Seq(Nat) /\ Len(c) = Len(b) + Len(semi)
        /\ \A x \in 1 .. Len(b) : c[x] = b[x]
        /\ \A x \in 1 .. Len(semi) : c[x + Len(b)] = semi[x]
    <3>1. b \in Seq(Nat) /\ semi \in Seq(Nat) /\ c = b \o semi
      BY <1>4, <1>5 DEF semi
    <3> HIDE DEF m, n, c
    <3> QED BY <3>1, Join
  <2>2. Len(semi) = 1 /\ semi[1] = SEMICOLON
    BY <1>4 DEF semi
  <2> HIDE DEF c
  <2>3. /\ 1 \in 1 .. Len(b) /\ 2 \in 1 .. Len(b) /\ \A x \in 1 .. m : x + 2 \in 1 .. Len(b)
        /\ 1 + Len(b) = m + 3 /\ 1 \in 1 .. Len(semi) /\ Len(b) + Len(semi) = m + 3
    BY <1>2, <1>5, <2>2
  <2>4. c[1 + Len(b)] = semi[1]
    BY <2>1, <2>3
  <2> QED BY <1>5, <2>1, <2>2, <2>3, <2>4
<1> HIDE DEF c, last
<1>7. /\ d \in Seq(Nat) /\ Len(d) = m + n + 3 /\ d[1] = ESC /\ d[2] = BRACKET
      /\ (\A x \in 1 .. m : d[x + 2] = u[x]) /\ d[m + 3] = SEMICOLON
      /\ \A x \in 1 .. n : d[x + m + 3] = v[x]
  <2>1. /\ d \in Seq(Nat) /\ Len(d) = Len(c) + Len(v)
        /\ \A x \in 1 .. Len(c) : d[x] = c[x]
        /\ \A x \in 1 .. Len(v) : d[x + Len(c)] = v[x]
    <3>1. c \in Seq(Nat) /\ v \in Seq(Nat)
      BY <1>2, <1>6
    <3> HIDE DEF m, n
    <3> QED BY <3>1, Join
  <2> HIDE DEF d
  <2>2. /\ 1 \in 1 .. Len(c) /\ 2 \in 1 .. Len(c) /\ m + 3 \in 1 .. Len(c)
        /\ \A x \in 1 .. m : x + 2 \in 1 .. Len(c)
        /\ Len(c) + Len(v) = m + n + 3
        /\ \A x \in 1 .. n : x + Len(c) = x + m + 3
    BY <1>2, <1>6
  <2> QED BY <1>6, <2>1, <2>2
<1> HIDE DEF d
<1>8. /\ e \in Seq(Nat) /\ Len(e) = m + n + 4 /\ e[1] = ESC /\ e[2] = BRACKET
      /\ (\A x \in 1 .. m : e[x + 2] = u[x]) /\ e[m + 3] = SEMICOLON
      /\ (\A x \in 1 .. n : e[x + m + 3] = v[x]) /\ e[m + n + 4] = R
  <2>1. /\ e \in Seq(Nat) /\ Len(e) = Len(d) + Len(last)
        /\ \A x \in 1 .. Len(d) : e[x] = d[x]
        /\ \A x \in 1 .. Len(last) : e[x + Len(d)] = last[x]
    <3>1. d \in Seq(Nat) /\ last \in Seq(Nat) /\ e = d \o last
      BY <1>4, <1>7 DEF last
    <3> HIDE DEF m, n, e
    <3> QED BY <3>1, Join
  <2>2. Len(last) = 1 /\ last[1] = R
    BY <1>4 DEF last
  <2> HIDE DEF e
  <2>3. /\ 1 \in 1 .. Len(d) /\ 2 \in 1 .. Len(d) /\ m + 3 \in 1 .. Len(d)
        /\ \A x \in 1 .. m : x + 2 \in 1 .. Len(d)
        /\ \A x \in 1 .. n : x + m + 3 \in 1 .. Len(d)
        /\ 1 + Len(d) = m + n + 4 /\ 1 \in 1 .. Len(last) /\ Len(d) + Len(last) = m + n + 4
    BY <1>2, <1>7, <2>2
  <2>4. e[1 + Len(d)] = last[1]
    BY <2>1, <2>3
  <2> QED BY <1>7, <2>1, <2>2, <2>3, <2>4
<1> HIDE DEF e
<1>9. Pieces(e, u, v)
  BY <1>8 DEF Pieces
<1> QED BY <1>1, <1>3, <1>9 DEF u, v

-----------------------------------------------------------------------------
(* The reply read back.                                                     *)

Reply(rep, p) == \E u, v : Pieces(rep, u, v) /\ Digits(u, p[1]) /\ Digits(v, p[2])

(* R ends a reply and is nowhere else in it.                                *)
LEMMA OnlyLastR ==
  ASSUME NEW rep, NEW p, Reply(rep, p), NEW x \in 1 .. Len(rep), rep[x] = R
  PROVE  x = Len(rep)
<1>1. PICK u, v : Pieces(rep, u, v) /\ Digits(u, p[1]) /\ Digits(v, p[2])
  BY DEF Reply
<1> DEFINE m == Len(u)
           n == Len(v)
<1>2. u \in Seq(Nat) /\ v \in Seq(Nat) /\ m \in Nat /\ n \in Nat
  BY <1>1 DEF Digits
<1>3. /\ \A i \in 1 .. m : IsDigit(u[i])
      /\ \A i \in 1 .. n : IsDigit(v[i])
  BY <1>1, <1>2 DEF Digits, Numeral
<1>4. /\ Len(rep) = m + n + 4 /\ rep[1] # R /\ rep[2] # R
      /\ (\A i \in 1 .. m : rep[i + 2] = u[i]) /\ rep[m + 3] # R
      /\ (\A i \in 1 .. n : rep[i + m + 3] = v[i])
  BY <1>1 DEF Pieces, ESC, BRACKET, SEMICOLON, R
<1> HIDE DEF m, n
<1>5. x # 1 /\ x # 2 /\ x # m + 3
  BY <1>4
<1>6. \A i \in 1 .. m : rep[i + 2] # R
  BY <1>3, <1>4, CodesDiffer DEF Codes
<1>7. \A i \in 1 .. n : rep[i + m + 3] # R
  BY <1>3, <1>4, CodesDiffer DEF Codes
<1>8. ~(x - 2 \in 1 .. m)
  <2>1. (x - 2) + 2 = x
    BY <1>4
  <2> QED BY <1>6, <2>1
<1>9. ~(x - m - 3 \in 1 .. n)
  <2>1. (x - m - 3) + m + 3 = x
    BY <1>2
  <2> QED BY <1>7, <2>1
<1> QED BY <1>2, <1>4, <1>5, <1>8, <1>9

(* A numeral found in b is the stretch of b it covers.                      *)
LEMMA NumeralAt ==
  ASSUME NEW b \in Seq(Nat), NEW u, NEW n, Digits(u, n), NEW d \in Nat,
         d + Len(u) <= Len(b), \A x \in 1 .. Len(u) : b[x + d] = u[x]
  PROVE  SubSeq(b, d + 1, d + Len(u)) = u
<1> DEFINE t == SubSeq(b, d + 1, d + Len(u))
<1>1. u \in Seq(Nat) /\ u # <<>>
  BY DEF Digits, Numeral
<1>2. Len(u) \in Nat \ {0} /\ Len(b) \in Nat
  BY <1>1
<1>3. d + 1 \in Nat \ {0} /\ d + Len(u) \in 0 .. Len(b) /\ d + 1 <= d + Len(u)
      /\ (d + Len(u)) - (d + 1) + 1 = Len(u)
  BY <1>2
<1>4. /\ t \in Seq(Nat) /\ Len(t) = Len(u)
      /\ \A x \in 1 .. Len(u) : t[x] = b[(d + 1) + x - 1]
  BY <1>3, Stretch
<1> HIDE DEF t
<1>5. \A x \in 1 .. Len(u) : (d + 1) + x - 1 = x + d
  BY <1>2
<1>6. \A x \in 1 .. Len(t) : t[x] = u[x]
  BY <1>4, <1>5
<1>7. t = u
  BY <1>1, <1>4, <1>6, SeqEqual
<1> QED BY <1>7 DEF t

(* A whole reply behind characters that are no ESC is found, and read.      *)
HoldsReply(b, rep, o) ==
  /\ o + Len(rep) <= Len(b) /\ \A x \in 1 .. Len(rep) : b[o + x] = rep[x]
  /\ \A x \in 1 .. o : b[x] # ESC

(* A reply parses to the size it reports.                                   *)
LEMMA ReplyIsRead ==
  ASSUME NEW b \in Seq(Nat), NEW rep, NEW p, Reply(rep, p), NEW o \in Nat, HoldsReply(b, rep, o)
  PROVE  parse_cursor_report(b) = <<p[1] % IntModulus, p[2] % IntModulus>>
<1> USE DEF HoldsReply
<1>1. PICK u, v : Pieces(rep, u, v) /\ Digits(u, p[1]) /\ Digits(v, p[2])
  BY DEF Reply
<1> DEFINE m == Len(u)
           n == Len(v)
           i == o + 1
           j == o + m + 3
           k == o + m + n + 4
<1>2. u \in Seq(Nat) /\ v \in Seq(Nat) /\ m \in Nat \ {0} /\ n \in Nat \ {0}
  BY <1>1 DEF Digits, Numeral
<1>3. /\ Len(rep) = m + n + 4 /\ rep[1] = ESC /\ rep[2] = BRACKET
      /\ (\A x \in 1 .. m : rep[x + 2] = u[x]) /\ rep[m + 3] = SEMICOLON
      /\ (\A x \in 1 .. n : rep[x + m + 3] = v[x]) /\ rep[m + n + 4] = R
  BY <1>1 DEF Pieces
<1> HIDE DEF m, n
<1>4. /\ i \in 1 .. (Len(b) - 1) /\ j \in 1 .. Len(b) /\ k \in 1 .. Len(b)
      /\ o + 1 = i /\ o + 2 = i + 1 /\ o + (m + 3) = j /\ o + (m + n + 4) = k
      /\ 1 \in 1 .. Len(rep) /\ 2 \in 1 .. Len(rep) /\ m + 3 \in 1 .. Len(rep)
      /\ m + n + 4 \in 1 .. Len(rep)
  <2> DEFINE l == Len(b)
  <2>1. l \in Nat /\ o + (m + n + 4) <= l
    BY <1>3
  <2> HIDE DEF l
  <2>2. i \in 1 .. (l - 1) /\ j \in 1 .. l /\ k \in 1 .. l
    BY <1>2, <2>1
  <2>3. o + 1 = i /\ o + 2 = i + 1 /\ o + (m + 3) = j /\ o + (m + n + 4) = k
    BY <1>2
  <2>4. 1 \in 1 .. Len(rep) /\ 2 \in 1 .. Len(rep) /\ m + 3 \in 1 .. Len(rep)
        /\ m + n + 4 \in 1 .. Len(rep)
    BY <1>2, <1>3
  <2> QED BY <2>2, <2>3, <2>4 DEF l
<1>5. b[i] = ESC /\ b[i + 1] = BRACKET /\ b[j] = SEMICOLON /\ b[k] = R
  <2>1. b[o + 1] = ESC /\ b[o + 2] = BRACKET /\ b[o + (m + 3)] = SEMICOLON /\ b[o + (m + n + 4)] = R
    BY <1>3, <1>4
  <2> QED BY <1>4, <2>1
<1>6. \A h \in 1 .. (i - 1) : ~(b[h] = ESC /\ b[h + 1] = BRACKET)
  <2>1. \A h \in 1 .. (i - 1) : h \in 1 .. o
    OBVIOUS
  <2> QED BY <2>1
<1>7. SubSeq(b, i + 2, j - 1) = u
  <2> DEFINE d == o + 2
  <2>1. \A x \in 1 .. m : x + 2 \in 1 .. Len(rep) /\ x + d = o + (x + 2)
    <3>1. Len(rep) = m + n + 4
      BY <1>3
    <3> QED BY <1>2, <3>1
  <2>2. ASSUME NEW x \in 1 .. m PROVE b[x + d] = u[x]
    <3>1. x + 2 \in 1 .. Len(rep) /\ b[x + d] = b[o + (x + 2)]
      BY <2>1
    <3>2. b[o + (x + 2)] = rep[x + 2] /\ rep[x + 2] = u[x]
      BY <1>3, <3>1
    <3> QED BY <3>1, <3>2
  <2>3. d \in Nat /\ d + m <= Len(b) /\ d + 1 = i + 2 /\ d + m = j - 1
    BY <1>2, <1>3
  <2> HIDE DEF d, i, j
  <2>4. SubSeq(b, d + 1, d + m) = u
    BY <1>1, <2>2, <2>3, NumeralAt DEF m
  <2> QED BY <2>3, <2>4
<1>8. SubSeq(b, j + 1, k - 1) = v
  <2> DEFINE d == o + m + 3
  <2>1. \A x \in 1 .. n : x + m + 3 \in 1 .. Len(rep) /\ x + d = o + (x + m + 3)
    <3>1. Len(rep) = m + n + 4
      BY <1>3
    <3> QED BY <1>2, <3>1
  <2>2. ASSUME NEW x \in 1 .. n PROVE b[x + d] = v[x]
    <3>1. x + m + 3 \in 1 .. Len(rep) /\ b[x + d] = b[o + (x + m + 3)]
      BY <2>1
    <3>2. b[o + (x + m + 3)] = rep[x + m + 3] /\ rep[x + m + 3] = v[x]
      BY <1>3, <3>1
    <3> QED BY <3>1, <3>2
  <2>3. d \in Nat /\ d + n <= Len(b) /\ d + 1 = j + 1 /\ d + n = k - 1
    BY <1>2, <1>3
  <2> HIDE DEF d, k, j
  <2>4. SubSeq(b, d + 1, d + n) = v
    BY <1>1, <2>2, <2>3, NumeralAt DEF n
  <2> QED BY <2>3, <2>4
<1> HIDE DEF i, j, k
<1>9. IsReport(b, i, j, k)
  BY <1>1, <1>5, <1>6, <1>7, <1>8 DEF IsReport, Digits
<1>10. parse_cursor_report(b) = Decimals(b, i, j, k)
  BY <1>4, <1>9, ReportIsParsed
<1>11. Decimals(b, i, j, k) = <<p[1] % IntModulus, p[2] % IntModulus>>
  BY <1>1, <1>7, <1>8 DEF Decimals, Digits
<1> QED BY <1>10, <1>11

(* Part of one is no report.                                                *)
LEMMA PartIsNoReport ==
  ASSUME NEW b \in Seq(Nat), NEW rep, NEW p, Reply(rep, p), Len(b) < Len(rep),
         \A x \in 1 .. Len(b) : b[x] = rep[x]
  PROVE  parse_cursor_report(b) = NoReport
<1> SUFFICES ASSUME parse_cursor_report(b) # NoReport PROVE FALSE
  OBVIOUS
<1>1. PICK i \in 1 .. (Len(b) - 1), j \in 1 .. Len(b), k \in 1 .. Len(b) : IsReport(b, i, j, k)
  BY ParsedIsReport
<1>2. rep[k] = R
  BY <1>1 DEF IsReport
<1>3. Len(b) \in Nat /\ Len(rep) \in Nat
  BY DEF Reply, Pieces
<1>4. k \in 1 .. Len(rep) /\ k # Len(rep)
  BY <1>1, <1>3
<1> QED BY <1>2, <1>4, OnlyLastR

(* The far corner of a screen fits an unsigned short, and so survives both  *)
(* moduli.                                                                  *)
LEMMA ClampedSize ==
  ASSUME screen \in Screens
  PROVE  /\ Clamped[1] \in 1 .. (ShortModulus - 1) /\ Clamped[2] \in 1 .. (ShortModulus - 1)
         /\ Clamped = <<Clamped[1], Clamped[2]>> /\ Clamped \in Nat \X Nat
         /\ \A n \in 1 .. (ShortModulus - 1) : n % IntModulus = n /\ n % ShortModulus = n
<1>1. /\ screen[1] \in Nat \ {0} /\ screen[2] \in Nat \ {0}
      /\ Corner \in 1 .. (ShortModulus - 1) /\ ShortModulus \in Nat /\ IntModulus \in Nat
      /\ ShortModulus <= IntModulus
  BY SizeAssumption
<1>2. Clamped[1] \in 1 .. (ShortModulus - 1) /\ Clamped[2] \in 1 .. (ShortModulus - 1)
  BY <1>1 DEF Clamped, Smaller
<1>3. Clamped = <<Clamped[1], Clamped[2]>>
  BY DEF Clamped
<1>4. \A n \in 1 .. (ShortModulus - 1) : n % IntModulus = n /\ n % ShortModulus = n
  <2> SUFFICES ASSUME NEW n \in 1 .. (ShortModulus - 1)
               PROVE  n % IntModulus = n /\ n % ShortModulus = n
    OBVIOUS
  <2>1. n \in Nat /\ n < ShortModulus /\ n < IntModulus
    BY <1>1
  <2> QED BY <1>1, <2>1
<1> QED BY <1>2, <1>3, <1>4

(* What the terminal replies is such a reply.                               *)
LEMMA ReplyOf ==
  ASSUME NEW p, p[1] \in Nat, p[2] \in Nat
  PROVE  Reply(Report(p), p) /\ Report(p) \in Seq(Nat)
BY ReportPieces DEF Reply, Pieces

-----------------------------------------------------------------------------
(* Types.                                                                   *)

(* What is sent, and what is read of it.                                    *)
LEMMA SentTyped ==
  ASSUME NEW chars \in Seq(Nat), NEW from \in {"terminal", "user"}
  PROVE  /\ Sent(from, chars) \in Seq(Characters) /\ Len(Sent(from, chars)) = Len(chars)
         /\ \A i \in 1 .. Len(chars) : Sent(from, chars)[i] = [c |-> chars[i], from |-> from]
<1> DEFINE n == Len(chars)
           s == Sent(from, chars)
<1>1. n \in Nat /\ DOMAIN chars = 1 .. n /\ \A i \in 1 .. n : chars[i] \in Nat
  OBVIOUS
<1>2. s = [i \in 1 .. n |-> [c |-> chars[i], from |-> from]]
  BY <1>1 DEF Sent
<1> HIDE DEF s, n
<1>3. \A i \in 1 .. n : [c |-> chars[i], from |-> from] \in Characters
  BY <1>1 DEF Characters
<1>4. s \in Seq(Characters) /\ Len(s) = n
  BY <1>1, <1>2, <1>3
<1> QED BY <1>2, <1>4 DEF s, n

(* What is read are characters.                                             *)
LEMMA CharsTyped ==
  ASSUME NEW b \in Seq(Characters)
  PROVE  /\ Chars(b) \in Seq(Nat) /\ Len(Chars(b)) = Len(b)
         /\ \A i \in 1 .. Len(b) : Chars(b)[i] = b[i].c
<1> DEFINE n == Len(b)
           s == Chars(b)
<1>1. n \in Nat /\ DOMAIN b = 1 .. n /\ \A i \in 1 .. n : b[i].c \in Nat
  <2>1. n \in Nat /\ DOMAIN b = 1 .. n /\ \A i \in 1 .. n : b[i] \in Characters
    OBVIOUS
  <2> QED BY <2>1 DEF Characters
<1>2. s = [i \in 1 .. n |-> b[i].c]
  BY <1>1 DEF Chars
<1> HIDE DEF s, n
<1>3. s \in Seq(Nat) /\ Len(s) = n
  BY <1>1, <1>2
<1> QED BY <1>2, <1>3 DEF s, n

(* A report is a pair of numbers.                                           *)
LEMMA ParsedTyped ==
  ASSUME NEW b \in Seq(Nat)
  PROVE  parse_cursor_report(b) = NoReport \/ parse_cursor_report(b) \in [1 .. 2 -> Nat]
<1>1. CASE parse_cursor_report(b) = NoReport
  BY <1>1
<1>2. CASE parse_cursor_report(b) # NoReport
  <2>1. PICK i \in 1 .. (Len(b) - 1), j \in 1 .. Len(b), k \in 1 .. Len(b) : IsReport(b, i, j, k)
    BY <1>2, ParsedIsReport
  <2>2. parse_cursor_report(b) = parsed(b).value
    BY <1>2 DEF parse_cursor_report
  <2>3. introducers(b) # {}
    BY <1>2 DEF parse_cursor_report, report_start
  <2>4. Least(introducers(b)) \in 1 .. (Len(b) - 1)
    <3>1. introducers(b) \in SUBSET Nat /\ introducers(b) \subseteq 1 .. (Len(b) - 1)
      BY DEF introducers
    <3>2. Least(introducers(b)) \in introducers(b)
      BY <2>3, <3>1, LeastOf
    <3> QED BY <3>1, <3>2
  <2>5. parsed(b) \in ParseStates
    <3> DEFINE s == SubSeq(b, Least(introducers(b)) + 2, Len(b))
    <3>1. s \in Seq(Nat)
      BY <2>4, Behind
    <3>2. parsed(b) = FoldLeft(parse_step, NothingParsed, s)
      BY DEF parsed, report_start
    <3> HIDE DEF s
    <3> QED BY <3>1, <3>2, ParseEnds
  <2> QED BY <2>2, <2>5 DEF ParseStates
<1> QED BY <1>1, <1>2

(* While it reads there is room for another character.                      *)
TypeInv == TypeOK /\ (pc \in {"poll", "read"} => Len(buf) < BufSize - 1)

(* TypeInv, step by step.                                                   *)
LEMMA TypeInit ==
  ASSUME Init
  PROVE  TypeInv
<1>1. console_size \in (0 .. (ShortModulus - 1)) \X (0 .. (ShortModulus - 1))
  BY SizeAssumption DEF Init
<1>2. cursor \in Nat \X Nat /\ saved \in Nat \X Nat /\ 0 \in Nat
  BY DEF Init, Origin
<1>3. buf \in Seq(Characters) /\ Len(buf) < BufSize /\ coming \in Seq(Characters)
      /\ to_terminal \in Seq({"query", "restore"})
  BY SizeAssumption DEF Init
<1> QED BY <1>1, <1>2, <1>3 DEF Init, TypeInv, TypeOK

(* Each part of Next keeps the types.                                       *)
LEMMA TypeCalls ==
  ASSUME TypeInv, Calls
  PROVE  TypeInv'
<1>1. ASSUME NEW fd, ioctl_winsize(fd) PROVE TypeInv'
  <2>1. /\ UNCHANGED <<console_size, console_termios, attributes, coming, screen, cursor, saved,
                       keys, gave_up>>
        /\ console_size_known' = TRUE /\ queries' = queries + 1 /\ buf' = <<>> /\ pc' = "poll"
        /\ to_terminal' = Append(to_terminal, "query")
    BY <1>1 DEF ioctl_winsize, termios, terminal
  <2>2. queries' \in Nat /\ to_terminal' \in Seq({"query", "restore"})
    BY <2>1 DEF TypeInv, TypeOK
  <2>3. buf' \in Seq(Characters) /\ Len(buf') < BufSize - 1 /\ Len(buf') < BufSize
    BY <2>1, SizeAssumption
  <2> QED BY <2>1, <2>2, <2>3 DEF TypeInv, TypeOK
<1>2. ASSUME NEW stored, NEW said, SetsAttributes(stored, said),
             stored \in Settings \cup {"unset", "cooked"}, said \in Settings \cup {"cooked"}
      PROVE  TypeInv'
  BY <1>2 DEF SetsAttributes, size, line, terminal, TypeInv, TypeOK
<1>3. CASE tcgetattr
  <2>1. console_termios_init \in Settings \cup {"cooked"}
    BY DEF console_termios_init, TypeInv, TypeOK
  <2> QED BY <1>2, <1>3, <2>1 DEF tcgetattr
<1>4. ASSUME NEW t \in Settings, tcsetattr(t) PROVE TypeInv'
  BY <1>2, <1>4 DEF tcsetattr
<1>5. CASE RubyReads
  <2>1. coming' \in Seq(Characters)
    BY <1>5 DEF RubyReads, TypeInv, TypeOK
  <2> QED BY <1>5, <2>1 DEF RubyReads, size, termios, terminal, TypeInv, TypeOK
<1> QED BY <1>1, <1>3, <1>4, <1>5 DEF Calls

LEMMA TypeMeasure ==
  ASSUME TypeInv, Measure
  PROVE  TypeInv'
<1>1. CASE PollReady
  BY <1>1 DEF PollReady, size, termios, line, terminal, TypeInv, TypeOK
<1>2. CASE PollTimesOut
  BY <1>2 DEF PollTimesOut, GivesUp, size, termios, line, terminal, TypeInv, TypeOK
<1>3. CASE ReadByte
  <2>1. Head(coming) \in Characters /\ coming' \in Seq(Characters)
    BY <1>3 DEF ReadByte, TypeInv, TypeOK
  <2>2. buf \in Seq(Characters) /\ Len(buf) < BufSize - 1 /\ BufSize \in Nat
    BY <1>3, SizeAssumption DEF ReadByte, TypeInv, TypeOK
  <2>3. buf' \in Seq(Characters) /\ Len(buf') = Len(buf) + 1
    BY <1>3, <2>1, <2>2 DEF ReadByte
  <2>4. Len(buf') < BufSize /\ (Len(buf) + 1 >= BufSize - 1 \/ Len(buf') < BufSize - 1)
    BY <2>2, <2>3
  <2>5. pc' \in {"poll", "restore"} /\ (pc' = "poll" => ~(Len(buf) + 1 >= BufSize - 1))
    BY <1>3 DEF ReadByte
  <2> QED BY <1>3, <2>1, <2>3, <2>4, <2>5 DEF ReadByte, size, termios, terminal, TypeInv, TypeOK
<1>4. CASE Restore
  <2> DEFINE report == parse_cursor_report(Chars(buf))
  <2>1. /\ console_size' = IF report # NoReport /\ report[1] > 0 /\ report[2] > 0
                            THEN <<report[1] % ShortModulus, report[2] % ShortModulus>>
                            ELSE console_size
        /\ UNCHANGED <<console_size_known, console_termios, attributes, buf, coming,
                       screen, cursor, saved, keys, queries, gave_up>>
        /\ pc' = "idle" /\ to_terminal' = Append(to_terminal, "restore")
    BY <1>4 DEF Restore, RestoreAndStore, termios, terminal
  <2>2. report = NoReport \/ report \in [1 .. 2 -> Nat]
    BY CharsTyped, ParsedTyped DEF TypeInv, TypeOK
  <2> HIDE DEF report
  <2>3. report # NoReport =>
          /\ report[1] % ShortModulus \in 0 .. (ShortModulus - 1)
          /\ report[2] % ShortModulus \in 0 .. (ShortModulus - 1)
    BY <2>2, Modulus
  <2>4. console_size' \in (0 .. (ShortModulus - 1)) \X (0 .. (ShortModulus - 1))
    BY <2>1, <2>3 DEF TypeInv, TypeOK
  <2>5. to_terminal' \in Seq({"query", "restore"})
    BY <2>1 DEF TypeInv, TypeOK
  <2> QED BY <2>1, <2>4, <2>5 DEF TypeInv, TypeOK
<1> QED BY <1>1, <1>2, <1>3, <1>4 DEF Measure

LEMMA TypeTerminal ==
  ASSUME TypeInv, Terminal
  PROVE  TypeInv'
<1>1. CASE TerminalAnswers
  <2>1. screen \in Screens
    BY <1>1 DEF TerminalAnswers, TypeInv, TypeOK
  <2>2. Clamped[1] \in Nat /\ Clamped[2] \in Nat /\ Clamped \in Nat \X Nat
    BY <2>1, ClampedSize
  <2>3. Sent("terminal", Report(Clamped)) \in Seq(Characters)
    BY <2>2, ReplyOf, SentTyped
  <2>4. coming' \in Seq(Characters) /\ to_terminal' \in Seq({"query", "restore"})
    BY <1>1, <2>3 DEF TerminalAnswers, TypeInv, TypeOK
  <2> HIDE DEF TypeInv
  <2>5. /\ saved' = cursor /\ cursor' = Clamped
        /\ UNCHANGED <<console_size, console_size_known, console_termios, attributes, pc, buf,
                       screen, keys, queries, gave_up>>
    BY <1>1 DEF TerminalAnswers, size, termios
  <2> QED BY <2>2, <2>4, <2>5 DEF TypeInv, TypeOK
<1>2. CASE TerminalRestores
  <2>1. to_terminal' \in Seq({"query", "restore"})
    BY <1>2 DEF TerminalRestores, TypeInv, TypeOK
  <2> QED BY <1>2, <2>1 DEF TerminalRestores, size, termios, TypeInv, TypeOK
<1>3. ASSUME NEW key \in Keys, PressKey(key) PROVE TypeInv'
  <2>1. key \in Seq(Nat)
    BY SizeAssumption
  <2>2. Sent("user", key) \in Seq(Characters)
    BY <2>1, SentTyped
  <2>3. coming' \in Seq(Characters)
    BY <1>3, <2>2 DEF PressKey, TypeInv, TypeOK
  <2> QED BY <1>3, <2>3 DEF PressKey, size, termios, terminal, TypeInv, TypeOK
<1> QED BY <1>1, <1>2, <1>3 DEF Terminal

-----------------------------------------------------------------------------
(* What the terminal has still to take, and where its cursor is meanwhile:  *)
(* nothing was asked; or the query is out and not answered; or it was       *)
(* answered, and the restore is not out, not taken, or taken.               *)
Exchange ==
  /\ saved = Origin
  /\ ~console_size_known => pc = "idle" /\ to_terminal = <<>> /\ cursor = Origin
  /\ console_size_known /\ pc # "idle" =>
       \/ to_terminal = <<"query">> /\ cursor = Origin
       \/ to_terminal = <<>>
  /\ console_size_known /\ pc = "idle" =>
       \/ to_terminal = <<"query", "restore">> /\ cursor = Origin
       \/ to_terminal = <<"restore">>
       \/ to_terminal = <<>> /\ cursor = Origin

(* console_termios is what was last said, once there is anything in it.     *)
Attributes ==
  IF console_termios = "unset" THEN attributes = "cooked"
  ELSE console_termios = attributes

IInv == Exchange /\ Attributes

-----------------------------------------------------------------------------

LEMMA Pair ==
  ASSUME NEW S, NEW s \in Seq(S), Len(s) = 2
  PROVE  s = <<s[1], s[2]>>
  OBVIOUS

LEMMA AppendToOne ==
  ASSUME NEW x, NEW y
  PROVE  Append(<<x>>, y) = <<x, y>>
  <1> DEFINE s == Append(<<x>>, y)
  <1>1. s \in Seq({x, y}) /\ Len(s) = 2 /\ s[1] = x /\ s[2] = y
    OBVIOUS
  <1> HIDE DEF s
  <1>2. s = <<x, y>>
    BY <1>1, Pair
  <1> QED BY <1>2 DEF s

(* Each part of Next keeps the exchange.                                    *)
LEMMA CallsStep ==
  ASSUME IInv, Calls
  PROVE  IInv'
  <1>1. ASSUME NEW fd, ioctl_winsize(fd)
        PROVE  IInv'
    <2>1. to_terminal' = <<"query">> /\ console_size_known' /\ pc' = "poll"
      BY <1>1 DEF IInv, Exchange, ioctl_winsize, measures
    <2>2. Exchange'
      BY <1>1, <2>1 DEF IInv, Exchange, ioctl_winsize, measures, terminal
    <2>3. Attributes'
      BY <1>1 DEF IInv, Attributes, ioctl_winsize, termios
    <2> QED BY <2>2, <2>3 DEF IInv
  <1>2. ASSUME UNCHANGED <<size, pc, to_terminal, terminal>>
        PROVE  Exchange'
    BY <1>2 DEF IInv, Exchange, size, terminal
  <1>3. CASE tcgetattr
    BY <1>2, <1>3 DEF IInv, Attributes, tcgetattr, SetsAttributes, console_termios_init, line
  <1>4. ASSUME NEW t \in Settings, tcsetattr(t)
        PROVE  IInv'
    BY <1>2, <1>4, SizeAssumption DEF IInv, Attributes, tcsetattr, SetsAttributes, line
  <1>5. CASE RubyReads
    BY <1>2, <1>5 DEF IInv, Attributes, RubyReads, termios
  <1> QED BY <1>1, <1>3, <1>4, <1>5 DEF Calls

LEMMA MeasureStep ==
  ASSUME IInv, Measure
  PROVE  IInv'
  <1>1. UNCHANGED termios
    BY DEF Measure, PollReady, PollTimesOut, GivesUp, ReadByte, Restore,
        RestoreAndStore
  <1>2. Attributes'
    BY <1>1 DEF IInv, Attributes, termios
  <1>3. pc # "idle" /\ console_size_known
    BY DEF Measure, PollReady, PollTimesOut, GivesUp, ReadByte, Restore,
        RestoreAndStore, IInv, Exchange
  <1>4. UNCHANGED terminal /\ console_size_known' = console_size_known
    BY DEF Measure, PollReady, PollTimesOut, GivesUp, ReadByte, Restore,
        RestoreAndStore, size
  <1>5. Exchange'
    <2>1. CASE Restore
      <3>1. \/ to_terminal = <<"query">> /\ cursor = Origin
            \/ to_terminal = <<>>
        BY <1>3 DEF IInv, Exchange
      <3>2. pc' = "idle" /\ to_terminal' = Append(to_terminal, "restore")
        BY <2>1 DEF Restore, RestoreAndStore
      <3>3. \/ to_terminal' = <<"query", "restore">> /\ cursor = Origin
            \/ to_terminal' = <<"restore">>
        <4>1. /\ Append(<<"query">>, "restore") = <<"query", "restore">>
              /\ Append(<<>>, "restore") = <<"restore">>
          BY AppendToOne
        <4> QED BY <3>1, <3>2, <4>1
      <3> QED BY <1>3, <1>4, <3>2, <3>3 DEF IInv, Exchange, terminal
    <2>2. CASE PollReady \/ PollTimesOut \/ ReadByte
      <3>1. pc' # "idle" /\ to_terminal' = to_terminal
        BY <2>2 DEF PollReady, PollTimesOut, GivesUp, ReadByte, line
      <3> QED BY <1>3, <1>4, <3>1 DEF IInv, Exchange, terminal
    <2> QED BY <2>1, <2>2 DEF Measure
  <1> QED BY <1>2, <1>5 DEF IInv

LEMMA TerminalStep ==
  ASSUME IInv, Terminal
  PROVE  IInv'
  <1>1. UNCHANGED <<size, pc, termios>>
    BY DEF Terminal, TerminalAnswers, TerminalRestores, PressKey
  <1>2. Attributes'
    BY <1>1 DEF IInv, Attributes, termios
  <1>3. CASE TerminalAnswers
    <2>1. /\ to_terminal = <<"query">> \/ to_terminal = <<"query", "restore">>
          /\ cursor = Origin /\ console_size_known
      BY <1>3 DEF TerminalAnswers, IInv, Exchange
    <2>2. saved' = Origin
      BY <1>3, <2>1 DEF TerminalAnswers
    <2>3. CASE to_terminal = <<"query">>
      <3>1. to_terminal' = <<>> /\ pc # "idle"
        BY <1>3, <2>1, <2>3 DEF TerminalAnswers, IInv, Exchange
      <3> QED BY <1>1, <1>2, <2>1, <2>2, <3>1 DEF IInv, Exchange, size
    <2>4. CASE to_terminal = <<"query", "restore">>
      <3>1. to_terminal' = <<"restore">> /\ pc = "idle"
        BY <1>3, <2>1, <2>4 DEF TerminalAnswers, IInv, Exchange
      <3> QED BY <1>1, <1>2, <2>1, <2>2, <3>1 DEF IInv, Exchange, size
    <2> QED BY <2>1, <2>3, <2>4
  <1>4. CASE TerminalRestores
    <2>1. to_terminal = <<"restore">> /\ pc = "idle" /\ console_size_known
      BY <1>4 DEF TerminalRestores, IInv, Exchange
    <2>2. to_terminal' = <<>> /\ cursor' = Origin /\ saved' = Origin
      BY <1>4, <2>1 DEF TerminalRestores, IInv, Exchange
    <2> QED BY <1>1, <1>2, <2>1, <2>2 DEF IInv, Exchange, size
  <1>5. ASSUME NEW key, PressKey(key)
        PROVE  IInv'
    BY <1>1, <1>2, <1>5 DEF PressKey, IInv, Exchange, size, terminal
  <1> QED BY <1>3, <1>4, <1>5 DEF Terminal

-----------------------------------------------------------------------------
(* The measurement.                                                         *)

(* All of t is typed; or t holds the reply behind o characters, and         *)
(* everything else in it is typed.                                          *)
AllTyped(t) == \A x \in 1 .. Len(t) : t[x].from = "user"

Answered(t, rep, o) ==
  /\ o + Len(rep) <= Len(t)
  /\ \A x \in 1 .. Len(rep) : t[o + x] = [c |-> rep[x], from |-> "terminal"]
  /\ \A x \in 1 .. Len(t) : x \in (o + 1) .. (o + Len(rep)) \/ t[x].from = "user"

HasReply(t, rep) == \E o \in Nat : Answered(t, rep, o)

(* What is read and what is to be read, until the measurement ends.         *)
Stream ==
  /\ ~console_size_known => AllTyped(coming)
  /\ pc # "idle" /\ to_terminal = <<"query">> => AllTyped(buf \o coming)
  /\ pc # "idle" /\ to_terminal = <<>> =>
       screen \in Screens /\ HasReply(buf \o coming, Report(Clamped))

(* What the measurement ends with.                                          *)
AllTaken == ~gave_up /\ TypedAhead /\ Len(buf) < BufSize - 1

Outcome ==
  /\ ~Measured => console_size = DefaultSize
  /\ pc = "restore" /\ ~gave_up =>
       Len(buf) >= BufSize - 1 \/ (buf # <<>> /\ buf[Len(buf)].c = R)
  /\ NoThirdSize
  /\ AnswerIsTaken
  /\ Measured /\ AllTaken => to_terminal # <<"query", "restore">>

MeasureInv == TypeInv /\ IInv /\ Stream /\ Outcome

(* Two sequences of sent characters, one behind the other.                  *)
LEMMA JoinIndex ==
  ASSUME NEW m \in Nat, NEW n \in Nat, NEW x \in 1 .. (m + n)
  PROVE  x \in 1 .. m \/ (x - m \in 1 .. n /\ (x - m) + m = x)
OBVIOUS

LEMMA JoinAssoc ==
  ASSUME NEW S, NEW s \in Seq(S), NEW t \in Seq(S), NEW u \in Seq(S)
  PROVE  s \o (t \o u) = (s \o t) \o u
OBVIOUS

LEMMA JoinHead ==
  ASSUME NEW S, NEW s \in Seq(S), NEW t \in Seq(S), t # <<>>
  PROVE  Append(s, Head(t)) \o Tail(t) = s \o t
OBVIOUS

(* Typing more leaves what is typed typed ...                               *)
LEMMA TypedMore ==
  ASSUME NEW t \in Seq(Characters), NEW w \in Seq(Characters), AllTyped(t), AllTyped(w)
  PROVE  AllTyped(t \o w)
<1> DEFINE j == t \o w
<1>1. /\ Len(j) = Len(t) + Len(w) /\ \A x \in 1 .. Len(t) : j[x] = t[x]
      /\ \A x \in 1 .. Len(w) : j[x + Len(t)] = w[x]
  BY Join
<1>2. Len(t) \in Nat /\ Len(w) \in Nat
  OBVIOUS
<1> HIDE DEF j
<1>3. ASSUME NEW x \in 1 .. Len(j) PROVE j[x].from = "user"
  <2>1. x \in 1 .. Len(t) \/ (x - Len(t) \in 1 .. Len(w) /\ (x - Len(t)) + Len(t) = x)
    BY <1>1, <1>2, JoinIndex
  <2>2. CASE x \in 1 .. Len(t)
    BY <1>1, <2>2 DEF AllTyped
  <2>3. CASE x - Len(t) \in 1 .. Len(w) /\ (x - Len(t)) + Len(t) = x
    <3>1. j[x] = w[x - Len(t)]
      BY <1>1, <2>3
    <3> QED BY <2>3, <3>1 DEF AllTyped
  <2> QED BY <2>1, <2>2, <2>3
<1> QED BY <1>3 DEF AllTyped, j

(* ... and a reply where it is.                                             *)
LEMMA ReplyMore ==
  ASSUME NEW t \in Seq(Characters), NEW w \in Seq(Characters), NEW rep \in Seq(Nat),
         HasReply(t, rep), AllTyped(w)
  PROVE  HasReply(t \o w, rep)
<1> DEFINE j == t \o w
<1>1. /\ Len(j) = Len(t) + Len(w) /\ \A x \in 1 .. Len(t) : j[x] = t[x]
      /\ \A x \in 1 .. Len(w) : j[x + Len(t)] = w[x]
  BY Join
<1>2. Len(t) \in Nat /\ Len(w) \in Nat /\ Len(rep) \in Nat
  OBVIOUS
<1> HIDE DEF j
<1>3. PICK o \in Nat : Answered(t, rep, o)
  BY DEF HasReply
<1>4. /\ o + Len(rep) <= Len(t)
      /\ \A x \in 1 .. Len(rep) : t[o + x] = [c |-> rep[x], from |-> "terminal"]
      /\ \A x \in 1 .. Len(t) : x \in (o + 1) .. (o + Len(rep)) \/ t[x].from = "user"
  BY <1>3 DEF Answered
<1>5. o + Len(rep) <= Len(j)
  BY <1>1, <1>2, <1>4
<1>6. ASSUME NEW x \in 1 .. Len(rep) PROVE j[o + x] = [c |-> rep[x], from |-> "terminal"]
  <2>1. o + x \in 1 .. Len(t)
    BY <1>2, <1>4
  <2> QED BY <1>1, <1>4, <2>1
<1>7. ASSUME NEW x \in 1 .. Len(j) PROVE x \in (o + 1) .. (o + Len(rep)) \/ j[x].from = "user"
  <2>1. x \in 1 .. Len(t) \/ (x - Len(t) \in 1 .. Len(w) /\ (x - Len(t)) + Len(t) = x)
    BY <1>1, <1>2, JoinIndex
  <2>2. CASE x \in 1 .. Len(t)
    BY <1>1, <1>4, <2>2
  <2>3. CASE x - Len(t) \in 1 .. Len(w) /\ (x - Len(t)) + Len(t) = x
    <3>1. j[x] = w[x - Len(t)]
      BY <1>1, <2>3
    <3> QED BY <2>3, <3>1 DEF AllTyped
  <2> QED BY <2>1, <2>2, <2>3
<1>8. Answered(j, rep, o)
  BY <1>5, <1>6, <1>7 DEF Answered
<1> QED BY <1>8 DEF HasReply, j

(* A reply comes behind everything typed before it.                         *)
LEMMA ReplyComes ==
  ASSUME NEW t \in Seq(Characters), NEW rep \in Seq(Nat), AllTyped(t)
  PROVE  HasReply(t \o Sent("terminal", rep), rep)
<1> DEFINE w == Sent("terminal", rep)
           j == t \o w
           o == Len(t)
<1>1. /\ w \in Seq(Characters) /\ Len(w) = Len(rep)
      /\ \A x \in 1 .. Len(rep) : w[x] = [c |-> rep[x], from |-> "terminal"]
  BY SentTyped
<1> HIDE DEF w
<1>2. /\ Len(j) = Len(t) + Len(w) /\ \A x \in 1 .. Len(t) : j[x] = t[x]
      /\ \A x \in 1 .. Len(w) : j[x + Len(t)] = w[x]
  <2>1. w \in Seq(Characters)
    BY <1>1
  <2> QED BY <2>1, Join
<1>3. o \in Nat /\ Len(w) \in Nat /\ Len(rep) \in Nat
  BY <1>1
<1> HIDE DEF j
<1>4. o + Len(rep) <= Len(j)
  BY <1>1, <1>2, <1>3
<1>5. ASSUME NEW x \in 1 .. Len(rep) PROVE j[o + x] = [c |-> rep[x], from |-> "terminal"]
  <2>1. o + x = x + Len(t)
    BY <1>3
  <2>2. j[x + Len(t)] = w[x]
    BY <1>1, <1>2
  <2> QED BY <1>1, <2>1, <2>2
<1>6. ASSUME NEW x \in 1 .. Len(j) PROVE x \in (o + 1) .. (o + Len(rep)) \/ j[x].from = "user"
  <2>1. x \in 1 .. Len(t) \/ x \in (o + 1) .. (o + Len(rep))
    BY <1>1, <1>2, <1>3
  <2> QED BY <1>2, <2>1 DEF AllTyped
<1>7. Answered(j, rep, o)
  BY <1>4, <1>5, <1>6 DEF Answered
<1> QED BY <1>3, <1>7 DEF HasReply, j, w

(* What is in the buffer when the measurement ends.                         *)
LEMMA BufferHolds ==
  ASSUME TypeInv, NEW rep \in Seq(Nat), HasReply(buf \o coming, rep)
  PROVE  \E o \in Nat :
           /\ \A x \in 1 .. Len(rep) :
                o + x <= Len(buf) => Chars(buf)[o + x] = rep[x] /\ buf[o + x].from = "terminal"
           /\ \A x \in 1 .. Len(buf) : x \in (o + 1) .. (o + Len(rep)) \/ buf[x].from = "user"
           /\ \A x \in 1 .. Len(coming) :
                x + Len(buf) \in (o + 1) .. (o + Len(rep)) \/ coming[x].from = "user"
<1> DEFINE t == buf \o coming
<1>1. buf \in Seq(Characters) /\ coming \in Seq(Characters)
  BY DEF TypeInv, TypeOK
<1>2. /\ Len(t) = Len(buf) + Len(coming) /\ \A x \in 1 .. Len(buf) : t[x] = buf[x]
      /\ \A x \in 1 .. Len(coming) : t[x + Len(buf)] = coming[x]
  BY <1>1, Join
<1>3. Len(buf) \in Nat /\ Len(coming) \in Nat /\ Len(rep) \in Nat
  BY <1>1
<1>4. \A x \in 1 .. Len(buf) : Chars(buf)[x] = buf[x].c
  BY <1>1, CharsTyped
<1>5. PICK o \in Nat : Answered(t, rep, o)
  BY DEF HasReply
<1> HIDE DEF t
<1>6. /\ \A x \in 1 .. Len(rep) : t[o + x] = [c |-> rep[x], from |-> "terminal"]
      /\ \A x \in 1 .. Len(t) : x \in (o + 1) .. (o + Len(rep)) \/ t[x].from = "user"
  BY <1>5 DEF Answered
<1>7. ASSUME NEW x \in 1 .. Len(rep), o + x <= Len(buf)
      PROVE  Chars(buf)[o + x] = rep[x] /\ buf[o + x].from = "terminal"
  <2>1. o + x \in 1 .. Len(buf)
    BY <1>3, <1>7
  <2>2. buf[o + x] = [c |-> rep[x], from |-> "terminal"]
    BY <1>2, <1>6, <2>1
  <2> QED BY <1>4, <2>1, <2>2
<1>8. ASSUME NEW x \in 1 .. Len(buf)
      PROVE  x \in (o + 1) .. (o + Len(rep)) \/ buf[x].from = "user"
  <2>1. x \in 1 .. Len(t)
    BY <1>2, <1>3
  <2> QED BY <1>2, <1>6, <2>1
<1>9. ASSUME NEW x \in 1 .. Len(coming)
      PROVE  x + Len(buf) \in (o + 1) .. (o + Len(rep)) \/ coming[x].from = "user"
  <2>1. x + Len(buf) \in 1 .. Len(t)
    BY <1>2, <1>3
  <2>2. coming[x] = t[x + Len(buf)]
    BY <1>2
  <2> QED BY <1>6, <2>1, <2>2
<1> QED BY <1>7, <1>8, <1>9

(* What Restore stores: the default it found, or the corner the terminal    *)
(* told.                                                                    *)
LEMMA RestoreSize ==
  ASSUME MeasureInv, Restore
  PROVE  LET report == parse_cursor_report(Chars(buf)) IN
         /\ report = NoReport => console_size' = DefaultSize
         /\ screen \in Screens /\ report = <<Clamped[1] % IntModulus, Clamped[2] % IntModulus>>
              => console_size' = Clamped
<1> DEFINE report == parse_cursor_report(Chars(buf))
<1>1. console_size' = IF report # NoReport /\ report[1] > 0 /\ report[2] > 0
                        THEN <<report[1] % ShortModulus, report[2] % ShortModulus>>
                        ELSE console_size
  BY DEF Restore, RestoreAndStore
<1>2. console_size = DefaultSize
  BY DEF MeasureInv, Outcome, Measured, Restore, RestoreAndStore
<1>3. ASSUME screen \in Screens, report = <<Clamped[1] % IntModulus, Clamped[2] % IntModulus>>
      PROVE  console_size' = Clamped
  <2>1. /\ Clamped[1] \in 1 .. (ShortModulus - 1) /\ Clamped[2] \in 1 .. (ShortModulus - 1)
        /\ Clamped = <<Clamped[1], Clamped[2]>>
        /\ \A n \in 1 .. (ShortModulus - 1) : n % IntModulus = n /\ n % ShortModulus = n
    BY <1>3, ClampedSize
  <2> DEFINE r == Clamped[1]
             c == Clamped[2]
  <2>2. r % IntModulus = r /\ c % IntModulus = c /\ r % ShortModulus = r /\ c % ShortModulus = c
    BY <2>1
  <2>3. r \in Nat /\ c \in Nat /\ r > 0 /\ c > 0
    <3>1. ShortModulus \in Nat
      BY Modulus
    <3> QED BY <2>1, <3>1
  <2>4. report = <<r, c>> /\ Clamped = <<r, c>>
    BY <1>3, <2>1, <2>2
  <2> HIDE DEF r, c, report
  <2>5. report # NoReport /\ report[1] = r /\ report[2] = c
    BY <2>4 DEF NoReport
  <2> QED BY <1>1, <2>2, <2>3, <2>4, <2>5
<1> QED BY <1>1, <1>2, <1>3

(* A buffer that holds nothing that was typed.                              *)
LEMMA OnlyReply ==
  ASSUME MeasureInv, Restore, \A i \in DOMAIN buf : buf[i].from = "terminal"
  PROVE  console_size' = DefaultSize \/ console_size' = Clamped
<1> DEFINE b == Chars(buf)
           rep == Report(Clamped)
<1>1. /\ buf \in Seq(Characters) /\ coming \in Seq(Characters)
      /\ b \in Seq(Nat) /\ Len(b) = Len(buf) /\ Len(buf) \in Nat
  BY CharsTyped DEF MeasureInv, TypeInv, TypeOK
<1>2. \A x \in 1 .. Len(buf) : buf[x].from # "user"
  BY <1>1
<1>3. CASE Len(buf) = 0
  <2>1. parse_cursor_report(b) = NoReport
    <3>1. ~\E i \in 1 .. (Len(b) - 1) : TRUE
      BY <1>1, <1>3
    <3> QED BY <1>1, <3>1, ParsedIsReport
  <2> QED BY <2>1, RestoreSize
<1>4. CASE Len(buf) > 0
  <2>1. to_terminal = <<>>
    <3>1. pc # "idle"
      BY DEF Restore, RestoreAndStore
    <3>2. ~AllTyped(buf \o coming)
      <4>1. /\ Len(buf \o coming) = Len(buf) + Len(coming) /\ Len(coming) \in Nat
            /\ 1 \in 1 .. Len(buf) /\ (buf \o coming)[1] = buf[1]
        BY <1>1, <1>4, Join
      <4>2. 1 \in 1 .. Len(buf \o coming)
        BY <1>1, <4>1
      <4> QED BY <1>2, <4>1, <4>2 DEF AllTyped
    <3> QED BY <3>1, <3>2 DEF MeasureInv, IInv, Exchange, Stream
  <2>2. screen \in Screens /\ HasReply(buf \o coming, rep)
    BY <2>1 DEF MeasureInv, Stream, Restore, RestoreAndStore
  <2>3. Clamped[1] \in Nat /\ Clamped[2] \in Nat
    BY <2>2, ClampedSize
  <2>4. Reply(rep, Clamped) /\ rep \in Seq(Nat)
    BY <2>3, ReplyOf
  <2> HIDE DEF rep
  <2>5. Len(rep) \in Nat
    BY <2>4
  <2>6. PICK o \in Nat :
          /\ \A x \in 1 .. Len(rep) :
               o + x <= Len(buf) => b[o + x] = rep[x] /\ buf[o + x].from = "terminal"
          /\ \A x \in 1 .. Len(buf) : x \in (o + 1) .. (o + Len(rep)) \/ buf[x].from = "user"
    BY <2>2, <2>4, BufferHolds DEF MeasureInv
  <2> HIDE DEF b
  <2>7. o = 0
    <3>1. 1 \in 1 .. Len(buf)
      BY <1>1, <1>4
    <3>2. 1 \in (o + 1) .. (o + Len(rep))
      BY <1>2, <2>6, <3>1
    <3> QED BY <2>5, <3>2
  <2>8. Len(buf) <= Len(rep)
    <3>1. Len(buf) \in 1 .. Len(buf)
      BY <1>1, <1>4
    <3>2. Len(buf) \in (o + 1) .. (o + Len(rep))
      BY <1>2, <2>6, <3>1
    <3> QED BY <2>5, <2>7, <3>2
  <2>9. \A x \in 1 .. Len(b) : b[x] = rep[x]
    <3> SUFFICES ASSUME NEW x \in 1 .. Len(b) PROVE b[x] = rep[x]
      OBVIOUS
    <3>1. x \in 1 .. Len(rep) /\ 0 + x <= Len(buf) /\ 0 + x = x
      BY <1>1, <2>5, <2>8
    <3> QED BY <2>6, <2>7, <3>1
  <2>10. CASE Len(b) < Len(rep)
    <3>1. parse_cursor_report(b) = NoReport
      BY <1>1, <2>4, <2>9, <2>10, PartIsNoReport
    <3> QED BY <3>1, RestoreSize DEF b
  <2>11. CASE Len(b) = Len(rep)
    <3>1. o + Len(rep) <= Len(b)
      BY <1>1, <2>5, <2>7, <2>11
    <3>2. \A x \in 1 .. Len(rep) : b[o + x] = rep[x]
      BY <1>1, <2>5, <2>6, <2>7, <2>11
    <3>3. \A x \in 1 .. o : b[x] # ESC
      BY <2>7
    <3>4. HoldsReply(b, rep, o)
      BY <3>1, <3>2, <3>3 DEF HoldsReply
    <3>5. parse_cursor_report(b) = <<Clamped[1] % IntModulus, Clamped[2] % IntModulus>>
      BY <1>1, <2>4, <3>4, ReplyIsRead
    <3> QED BY <2>2, <3>5, RestoreSize DEF b
  <2> QED BY <1>1, <2>5, <2>8, <2>10, <2>11
<1> QED BY <1>1, <1>3, <1>4

(* A buffer that ends with the reply, and nothing typed in it that is in    *)
(* its way.                                                                 *)
LEMMA WholeReply ==
  ASSUME MeasureInv, Restore, AllTaken
  PROVE  /\ console_size' = Clamped /\ to_terminal = <<>>
         /\ \A i \in DOMAIN coming : coming[i].from = "user"
<1> DEFINE b == Chars(buf)
           rep == Report(Clamped)
           n == Len(buf)
<1>1. /\ buf \in Seq(Characters) /\ coming \in Seq(Characters)
      /\ b \in Seq(Nat) /\ Len(b) = n /\ n \in Nat
      /\ \A i \in 1 .. n : b[i] = buf[i].c
  BY CharsTyped DEF MeasureInv, TypeInv, TypeOK
<1>2. n > 0 /\ buf[n].c = R
  <2>1. buf # <<>> /\ buf[n].c = R
    <3>1. BufSize \in Nat
      BY SizeAssumption
    <3>2. ~(n >= BufSize - 1)
      BY <1>1, <3>1 DEF AllTaken
    <3> QED BY <3>2 DEF AllTaken, MeasureInv, Outcome, Restore, RestoreAndStore
  <2> QED BY <1>1, <2>1
<1>3. \A i \in 1 .. n : buf[i].from = "user" => buf[i].c # ESC /\ buf[i].c # R
  BY <1>1 DEF AllTaken, TypedAhead
<1>4. n \in 1 .. n /\ buf[n].from # "user"
  <2>1. n \in 1 .. n
    BY <1>1, <1>2
  <2> QED BY <1>2, <1>3, <2>1
<1>5. to_terminal = <<>>
  <2>1. pc # "idle"
    BY DEF Restore, RestoreAndStore
  <2>2. ~AllTyped(buf \o coming)
    <3>1. /\ Len(buf \o coming) = Len(buf) + Len(coming) /\ Len(coming) \in Nat
          /\ (buf \o coming)[n] = buf[n]
      BY <1>1, <1>4, Join
    <3>2. n \in 1 .. Len(buf \o coming)
      BY <1>1, <1>2, <3>1
    <3> HIDE DEF n
    <3> QED BY <1>4, <3>1, <3>2 DEF AllTyped
  <2> QED BY <2>1, <2>2 DEF MeasureInv, IInv, Exchange, Stream
<1>6. screen \in Screens /\ HasReply(buf \o coming, rep)
  BY <1>5 DEF MeasureInv, Stream, Restore, RestoreAndStore
<1>7. Clamped[1] \in Nat /\ Clamped[2] \in Nat
  BY <1>6, ClampedSize
<1>8. Reply(rep, Clamped) /\ rep \in Seq(Nat)
  BY <1>7, ReplyOf
<1> HIDE DEF rep
<1>9. Len(rep) \in Nat
  BY <1>8
<1>10. PICK o \in Nat :
         /\ \A x \in 1 .. Len(rep) :
              o + x <= Len(buf) => b[o + x] = rep[x] /\ buf[o + x].from = "terminal"
         /\ \A x \in 1 .. Len(buf) : x \in (o + 1) .. (o + Len(rep)) \/ buf[x].from = "user"
         /\ \A x \in 1 .. Len(coming) :
              x + Len(buf) \in (o + 1) .. (o + Len(rep)) \/ coming[x].from = "user"
  BY <1>6, <1>8, BufferHolds DEF MeasureInv
<1> HIDE DEF b, n
<1>11. n = o + Len(rep)
  <2> DEFINE x == n - o
  <2>1. n \in (o + 1) .. (o + Len(rep))
    BY <1>4, <1>10 DEF n
  <2>2. x \in 1 .. Len(rep) /\ o + x = n /\ o + x <= n
    BY <1>1, <1>9, <2>1
  <2> HIDE DEF x
  <2>3. b[n] = rep[x]
    BY <1>10, <2>2 DEF n
  <2>4. rep[x] = R
    BY <1>1, <1>2, <1>4, <2>3
  <2>5. x = Len(rep)
    BY <1>8, <2>2, <2>4, OnlyLastR
  <2> QED BY <2>2, <2>5
<1>12. parse_cursor_report(b) = <<Clamped[1] % IntModulus, Clamped[2] % IntModulus>>
  <2>1. o + Len(rep) <= Len(b)
    BY <1>1, <1>9, <1>11
  <2>2. ASSUME NEW x \in 1 .. Len(rep) PROVE b[o + x] = rep[x]
    <3>1. o + x <= n
      BY <1>9, <1>11
    <3> QED BY <1>10, <3>1 DEF n
  <2>3. ASSUME NEW x \in 1 .. o PROVE b[x] # ESC
    <3>1. x \in 1 .. n /\ ~(x \in (o + 1) .. (o + Len(rep)))
      BY <1>9, <1>11
    <3>2. buf[x].from = "user"
      BY <1>10, <3>1 DEF n
    <3> QED BY <1>1, <1>3, <3>1, <3>2
  <2>4. HoldsReply(b, rep, o)
    BY <2>1, <2>2, <2>3 DEF HoldsReply
  <2> QED BY <1>1, <1>8, <2>4, ReplyIsRead
<1>13. ASSUME NEW i \in DOMAIN coming PROVE coming[i].from = "user"
  <2>1. i \in 1 .. Len(coming) /\ ~(i + n \in (o + 1) .. (o + Len(rep)))
    BY <1>1, <1>9, <1>11
  <2> QED BY <1>10, <2>1 DEF n
<1>14. console_size' = Clamped
  BY <1>6, <1>12, RestoreSize DEF b
<1> QED BY <1>5, <1>13, <1>14

(* Outcome, step by step.                                                   *)
LEMMA OutcomeInit ==
  ASSUME Init
  PROVE  Stream /\ Outcome
BY DEF Init, Stream, Outcome, AllTyped, Measured, NoThirdSize, AnswerIsTaken, DefaultSize

(* A step of somebody else leaves what was measured.                        *)
LEMMA OutcomeKept ==
  ASSUME Outcome, UNCHANGED <<size, pc, buf, screen, gave_up>>,
         Measured /\ AllTaken =>
           /\ (\A i \in DOMAIN coming : coming[i].from = "user") =>
                \A i \in DOMAIN coming' : coming'[i].from = "user"
           /\ to_terminal # <<"query", "restore">> => to_terminal' # <<"query", "restore">>
  PROVE  Outcome'
<1>1. Clamped' = Clamped /\ Measured' = Measured /\ AllTaken' = AllTaken
  BY DEF Clamped, Measured, AllTaken, TypedAhead, size
<1>2. /\ ~Measured' => console_size' = DefaultSize
      /\ pc' = "restore" /\ ~gave_up' =>
           Len(buf') >= BufSize - 1 \/ (buf' # <<>> /\ buf'[Len(buf')].c = R)
  BY <1>1 DEF Outcome, size
<1>3. NoThirdSize'
  BY <1>1 DEF Outcome, NoThirdSize, size
<1>4. AnswerIsTaken'
  <2>1. AnswerIsTaken <=> (Measured /\ AllTaken =>
          console_size = Clamped /\ \A i \in DOMAIN coming : coming[i].from = "user")
    BY DEF AnswerIsTaken, AllTaken
  <2>2. AnswerIsTaken' <=> (Measured' /\ AllTaken' =>
          console_size' = Clamped' /\ \A i \in DOMAIN coming' : coming'[i].from = "user")
    BY DEF AnswerIsTaken, AllTaken
  <2> QED BY <1>1, <2>1, <2>2 DEF Outcome, size
<1>5. Measured' /\ AllTaken' => to_terminal' # <<"query", "restore">>
  BY <1>1 DEF Outcome
<1> QED BY <1>2, <1>3, <1>4, <1>5 DEF Outcome

(* Each part of Next keeps what was read and what came of it.               *)
LEMMA OutcomeCalls ==
  ASSUME MeasureInv, Calls
  PROVE  Stream' /\ Outcome'
<1>1. ASSUME NEW fd, ioctl_winsize(fd) PROVE Stream' /\ Outcome'
  <2>1. /\ ~console_size_known /\ console_size_known' /\ pc' = "poll" /\ buf' = <<>>
        /\ UNCHANGED <<console_size, coming>>
        /\ to_terminal' = Append(to_terminal, "query") /\ to_terminal = <<>>
    BY <1>1 DEF ioctl_winsize, measures, MeasureInv, IInv, Exchange
  <2>2. to_terminal' = <<"query">> /\ to_terminal' # <<>>
    BY <2>1
  <2>3. coming \in Seq(Characters)
    BY DEF MeasureInv, TypeInv, TypeOK
  <2>4. buf' \o coming' = coming
    BY <2>1, <2>3
  <2>5. AllTyped(coming)
    BY <2>1 DEF MeasureInv, Stream
  <2>6. Stream'
    BY <2>1, <2>2, <2>4, <2>5 DEF Stream
  <2>7. ~Measured' /\ console_size = DefaultSize
    BY <2>1 DEF Measured, MeasureInv, Outcome
  <2> QED BY <2>1, <2>6, <2>7 DEF Outcome, NoThirdSize, AnswerIsTaken
<1>2. ASSUME NEW stored, NEW said, SetsAttributes(stored, said)
      PROVE  Stream' /\ Outcome'
  <2>1. UNCHANGED <<size, pc, buf, screen, gave_up, coming, to_terminal>> /\ pc = "idle"
    BY <1>2 DEF SetsAttributes, line, terminal
  <2>2. Stream'
    BY <2>1 DEF MeasureInv, Stream, size, AllTyped
  <2> QED BY <2>1, <2>2, OutcomeKept DEF MeasureInv
<1>3. CASE RubyReads
  <2>1. /\ UNCHANGED <<size, pc, buf, screen, gave_up, to_terminal>> /\ pc = "idle"
        /\ coming # <<>> /\ coming' = Tail(coming)
    BY <1>3 DEF RubyReads, terminal
  <2>2. coming \in Seq(Characters)
    BY DEF MeasureInv, TypeInv, TypeOK
  <2>3. ASSUME \A i \in DOMAIN coming : coming[i].from = "user"
        PROVE  \A i \in DOMAIN coming' : coming'[i].from = "user"
    <3> SUFFICES ASSUME NEW i \in DOMAIN coming' PROVE coming'[i].from = "user"
      OBVIOUS
    <3>1. i + 1 \in DOMAIN coming /\ coming'[i] = coming[i + 1]
      BY <2>1, <2>2
    <3> QED BY <2>3, <3>1
  <2>4. AllTyped(coming) => AllTyped(coming')
    <3>1. coming' \in Seq(Characters)
      BY <2>1, <2>2
    <3>2. DOMAIN coming = 1 .. Len(coming) /\ DOMAIN coming' = 1 .. Len(coming')
      BY <2>2, <3>1
    <3> QED BY <2>3, <3>2 DEF AllTyped
  <2>5. Stream'
    BY <2>1, <2>4 DEF MeasureInv, Stream, size
  <2>6. Outcome'
    BY <2>1, <2>3, OutcomeKept DEF MeasureInv
  <2> QED BY <2>5, <2>6
<1> QED BY <1>1, <1>2, <1>3 DEF Calls, tcgetattr, tcsetattr

LEMMA OutcomeMeasure ==
  ASSUME MeasureInv, Measure
  PROVE  Stream' /\ Outcome'
<1>1. buf \in Seq(Characters) /\ coming \in Seq(Characters)
  BY DEF MeasureInv, TypeInv, TypeOK
<1>2. pc # "idle" /\ console_size_known /\ ~Measured
  BY DEF Measure, PollReady, PollTimesOut, GivesUp, ReadByte, Restore, RestoreAndStore,
         MeasureInv, IInv, Exchange, Measured
<1>3. console_size = DefaultSize
  BY <1>2 DEF MeasureInv, Outcome
<1>4. ASSUME UNCHANGED <<size, screen, to_terminal>>, buf' \o coming' = buf \o coming,
             pc' # "idle",
             pc' = "restore" /\ ~gave_up' =>
               Len(buf') >= BufSize - 1 \/ (buf' # <<>> /\ buf'[Len(buf')].c = R)
      PROVE  Stream' /\ Outcome'
  <2>1. Clamped' = Clamped
    BY <1>4 DEF Clamped
  <2>2. ~Measured' /\ console_size' = DefaultSize /\ console_size_known'
    BY <1>2, <1>3, <1>4 DEF Measured, size
  <2>3. Stream'
    <3>1. Report(Clamped)' = Report(Clamped)
      BY <2>1 DEF Report
    <3>2. to_terminal = <<"query">> => AllTyped(buf \o coming)
      BY <1>2 DEF MeasureInv, Stream
    <3>3. to_terminal = <<>> => screen \in Screens /\ HasReply(buf \o coming, Report(Clamped))
      BY <1>2 DEF MeasureInv, Stream
    <3>4. to_terminal' = to_terminal /\ screen' = screen
      BY <1>4
    <3>5. to_terminal' = <<"query">> => AllTyped(buf' \o coming')
      BY <1>4, <3>2, <3>4
    <3>6. to_terminal' = <<>> => screen' \in Screens /\ HasReply(buf' \o coming', Report(Clamped)')
      BY <1>4, <3>1, <3>3, <3>4
    <3> QED BY <2>2, <3>5, <3>6 DEF Stream
  <2> QED BY <1>4, <2>2, <2>3 DEF Outcome, NoThirdSize, AnswerIsTaken
<1>5. CASE PollReady
  BY <1>4, <1>5 DEF PollReady, line, terminal
<1>6. CASE PollTimesOut
  BY <1>4, <1>6 DEF PollTimesOut, GivesUp, line, terminal
<1>7. CASE ReadByte
  <2>1. /\ UNCHANGED <<size, screen, to_terminal>> /\ coming # <<>>
        /\ buf' = Append(buf, Head(coming)) /\ coming' = Tail(coming)
        /\ pc' = IF Head(coming).c = R \/ Len(buf) + 1 >= BufSize - 1 THEN "restore" ELSE "poll"
    BY <1>7 DEF ReadByte, terminal
  <2>2. buf' \o coming' = buf \o coming
    BY <1>1, <2>1, JoinHead
  <2>3. Head(coming) \in Characters
    BY <1>1, <2>1
  <2>4. Len(buf') = Len(buf) + 1 /\ buf' # <<>> /\ buf'[Len(buf) + 1] = Head(coming)
    BY <1>1, <2>1, <2>3, AppendProperties
  <2> QED BY <1>4, <2>1, <2>2, <2>4
<1>8. CASE Restore
  <2>1. /\ UNCHANGED <<console_size_known, buf, coming, screen, gave_up>>
        /\ pc' = "idle" /\ to_terminal' = Append(to_terminal, "restore")
    BY <1>8 DEF Restore, RestoreAndStore, terminal
  <2>2. Stream'
    BY <1>2, <2>1 DEF Stream
  <2>3. Measured' /\ Clamped' = Clamped /\ AllTaken' = AllTaken
    BY <1>2, <2>1 DEF Measured, Clamped, AllTaken, TypedAhead
  <2>4. NoThirdSize'
    BY <1>8, <2>1, <2>3, OnlyReply DEF NoThirdSize
  <2>5. AllTaken' =>
          /\ console_size' = Clamped' /\ (\A i \in DOMAIN coming' : coming'[i].from = "user")
          /\ to_terminal' # <<"query", "restore">>
    <3> SUFFICES ASSUME AllTaken
                 PROVE  /\ console_size' = Clamped
                        /\ (\A i \in DOMAIN coming : coming[i].from = "user")
                        /\ to_terminal' # <<"query", "restore">>
      BY <2>1, <2>3
    <3>1. /\ console_size' = Clamped /\ to_terminal = <<>>
          /\ \A i \in DOMAIN coming : coming[i].from = "user"
      BY <1>8, WholeReply
    <3>2. to_terminal' # <<"query", "restore">>
      <4>1. to_terminal' = <<"restore">>
        BY <2>1, <3>1
      <4> QED BY <4>1
    <3> QED BY <3>1, <3>2
  <2>6. AnswerIsTaken'
    BY <2>5 DEF AnswerIsTaken, AllTaken
  <2> QED BY <2>1, <2>2, <2>3, <2>4, <2>5, <2>6 DEF Outcome
<1> QED BY <1>5, <1>6, <1>7, <1>8 DEF Measure

LEMMA OutcomeTerminal ==
  ASSUME MeasureInv, Terminal
  PROVE  Stream' /\ Outcome'
<1>1. buf \in Seq(Characters) /\ coming \in Seq(Characters)
  BY DEF MeasureInv, TypeInv, TypeOK
<1>2. UNCHANGED <<size, pc, buf, screen, gave_up>> /\ Clamped' = Clamped
      /\ Report(Clamped)' = Report(Clamped)
  BY DEF Terminal, TerminalAnswers, TerminalRestores, PressKey, terminal, Clamped, Report
<1>3. CASE TerminalAnswers
  <2>1. /\ to_terminal = <<"query">> \/ to_terminal = <<"query", "restore">>
        /\ console_size_known /\ screen \in Screens
    BY <1>3 DEF TerminalAnswers, MeasureInv, IInv, Exchange, TypeInv, TypeOK
  <2>2. coming' = coming \o Sent("terminal", Report(Clamped)) /\ to_terminal' = Tail(to_terminal)
    BY <1>3 DEF TerminalAnswers
  <2>3. Report(Clamped) \in Seq(Nat)
    BY <2>1, ClampedSize, ReplyOf
  <2>4. CASE to_terminal = <<"query">>
    <3>1. pc # "idle" /\ to_terminal' = <<>> /\ to_terminal' # <<"query">>
      BY <2>1, <2>2, <2>4 DEF MeasureInv, IInv, Exchange
    <3>2. AllTyped(buf \o coming)
      BY <2>4, <3>1 DEF MeasureInv, Stream
    <3>3. buf \o coming' = (buf \o coming) \o Sent("terminal", Report(Clamped))
      <4>1. Sent("terminal", Report(Clamped)) \in Seq(Characters)
        BY <2>3, SentTyped
      <4> QED BY <1>1, <2>2, <4>1, JoinAssoc
    <3>4. HasReply(buf \o coming', Report(Clamped))
      <4>1. buf \o coming \in Seq(Characters)
        BY <1>1
      <4> QED BY <2>3, <3>2, <3>3, <4>1, ReplyComes
    <3>5. Stream'
      <4>1. buf' \o coming' = buf \o coming' /\ screen' \in Screens /\ console_size_known'
        BY <1>2, <2>1 DEF size
      <4> QED BY <1>2, <3>1, <3>4, <4>1 DEF Stream
    <3>6. ~Measured
      BY <3>1 DEF Measured
    <3> QED BY <1>2, <3>5, <3>6, OutcomeKept DEF MeasureInv
  <2>5. CASE to_terminal = <<"query", "restore">>
    <3>1. pc = "idle" /\ Measured
      BY <2>1, <2>5 DEF MeasureInv, IInv, Exchange, Measured
    <3>2. Stream'
      BY <1>2, <2>1, <3>1 DEF Stream, size
    <3>3. ~AllTaken
      BY <2>5, <3>1 DEF MeasureInv, Outcome
    <3> QED BY <1>2, <3>2, <3>3, OutcomeKept DEF MeasureInv
  <2> QED BY <2>1, <2>4, <2>5
<1>4. CASE TerminalRestores
  <2>1. to_terminal = <<"restore">> /\ pc = "idle" /\ console_size_known
    BY <1>4 DEF TerminalRestores, MeasureInv, IInv, Exchange
  <2>2. to_terminal' = <<>> /\ coming' = coming
    BY <1>4, <2>1 DEF TerminalRestores
  <2>3. Stream'
    BY <1>2, <2>1 DEF Stream, size
  <2>4. to_terminal' # <<"query", "restore">>
    BY <2>2
  <2> QED BY <1>2, <2>2, <2>3, <2>4, OutcomeKept DEF MeasureInv
<1>5. ASSUME NEW key \in Keys, PressKey(key) PROVE Stream' /\ Outcome'
  <2> DEFINE w == Sent("user", key)
  <2>1. coming' = coming \o w /\ to_terminal' = to_terminal
    BY <1>5 DEF PressKey
  <2>2. /\ w \in Seq(Characters) /\ Len(w) = Len(key)
        /\ \A i \in 1 .. Len(key) : w[i] = [c |-> key[i], from |-> "user"]
    BY SizeAssumption, SentTyped
  <2> HIDE DEF w
  <2>3. AllTyped(w)
    <3> SUFFICES ASSUME NEW x \in 1 .. Len(w) PROVE w[x].from = "user"
      BY DEF AllTyped
    <3>1. w[x] = [c |-> key[x], from |-> "user"]
      BY <2>2
    <3> QED BY <3>1
  <2>4. AllTyped(coming) => AllTyped(coming')
    BY <1>1, <2>1, <2>2, <2>3, TypedMore
  <2>5. buf' \o coming' = (buf \o coming) \o w /\ buf \o coming \in Seq(Characters)
    <3>1. buf' \o coming' = buf \o (coming \o w)
      BY <1>2, <2>1
    <3>2. buf \o (coming \o w) = (buf \o coming) \o w
      BY <1>1, <2>2, JoinAssoc
    <3>3. buf \o coming \in Seq(Characters)
      BY <1>1, Join
    <3> QED BY <3>1, <3>2, <3>3, Zenon
  <2>6. AllTyped(buf \o coming) => AllTyped(buf' \o coming')
    <3> DEFINE t == buf \o coming
    <3>1. t \in Seq(Characters) /\ buf' \o coming' = t \o w
      BY <2>5
    <3> HIDE DEF t
    <3>2. AllTyped(t) => AllTyped(t \o w)
      BY <2>2, <2>3, <3>1, TypedMore
    <3>3. AllTyped(t) => AllTyped(buf' \o coming')
      BY <3>1, <3>2
    <3> QED BY <3>3 DEF t
  <2>7. ASSUME screen \in Screens, HasReply(buf \o coming, Report(Clamped))
        PROVE  screen' \in Screens /\ HasReply(buf' \o coming', Report(Clamped)')
    <3>1. Report(Clamped) \in Seq(Nat)
      BY <2>7, ClampedSize, ReplyOf
    <3>2. HasReply((buf \o coming) \o w, Report(Clamped))
      BY <2>2, <2>3, <2>5, <2>7, <3>1, ReplyMore
    <3> QED BY <1>2, <2>5, <2>7, <3>2
  <2>8. Stream'
    BY <1>2, <2>1, <2>4, <2>6, <2>7 DEF MeasureInv, Stream, size
  <2>9. (\A i \in DOMAIN coming : coming[i].from = "user") =>
          \A i \in DOMAIN coming' : coming'[i].from = "user"
    <3>1. coming' \in Seq(Characters)
      BY <1>1, <2>1, <2>2
    <3>2. DOMAIN coming = 1 .. Len(coming) /\ DOMAIN coming' = 1 .. Len(coming')
      BY <1>1, <3>1
    <3> QED BY <2>4, <3>2 DEF AllTyped
  <2> QED BY <1>2, <2>1, <2>8, <2>9, OutcomeKept DEF MeasureInv
<1> QED BY <1>3, <1>4, <1>5 DEF Terminal

(* Everything above is kept by every step, and true at first.               *)
THEOREM MeasurementInvariant == Spec => [](TypeInv /\ IInv /\ Stream /\ Outcome)
<1>1. Init => MeasureInv
  BY TypeInit, OutcomeInit DEF MeasureInv, Init, IInv, Exchange, Attributes
<1>2. MeasureInv /\ [Next]_vars => MeasureInv'
  <2> SUFFICES ASSUME MeasureInv, [Next]_vars PROVE MeasureInv'
    OBVIOUS
  <2>1. TypeInv /\ IInv
    BY DEF MeasureInv
  <2>2. CASE UNCHANGED vars
    <3>1. TypeInv'
      BY <2>1, <2>2 DEF TypeInv, TypeOK, vars, size, termios, line, terminal
    <3>2. IInv'
      BY <2>1, <2>2 DEF IInv, Exchange, Attributes, vars, size, termios, line, terminal
    <3>3. UNCHANGED <<size, pc, buf, screen, gave_up, coming, to_terminal>>
      BY <2>2 DEF vars, line, terminal
    <3>4. Outcome'
      BY <3>3, OutcomeKept DEF MeasureInv
    <3>5. Stream'
      <4>1. Report(Clamped)' = Report(Clamped)
        BY <3>3 DEF Report, Clamped
      <4> QED BY <3>3, <4>1 DEF MeasureInv, Stream, size
    <3> QED BY <3>1, <3>2, <3>4, <3>5 DEF MeasureInv
  <2>3. CASE Calls
    BY <2>1, <2>3, TypeCalls, CallsStep, OutcomeCalls DEF MeasureInv
  <2>4. CASE Measure
    BY <2>1, <2>4, TypeMeasure, MeasureStep, OutcomeMeasure DEF MeasureInv
  <2>5. CASE Terminal
    BY <2>1, <2>5, TypeTerminal, TerminalStep, OutcomeTerminal DEF MeasureInv
  <2> QED BY <2>2, <2>3, <2>4, <2>5 DEF Next
<1> QED BY <1>1, <1>2, PTL DEF Spec, MeasureInv

-----------------------------------------------------------------------------

(* The size of the buffer bounds a measurement: each of its steps leaves    *)
(* fewer, and nothing the user or the terminal does adds one                *)
(* (ruby_syscall_tty.c:35-36, 139-158).                                     *)
THEOREM MeasurementIsShort == Spec => MeasureIsShort
<1> DEFINE Short == pc # "idle" => /\ 0 < StepsLeft /\ StepsLeft' <= StepsLeft
                                   /\ pc' # pc => StepsLeft' < StepsLeft
           room == BufSize - 1 - Len(buf)
<1>1. TypeInv /\ [Next]_vars => Short
  <2> SUFFICES ASSUME TypeInv, [Next]_vars, pc # "idle" PROVE Short
    OBVIOUS
  <2>1. /\ pc \in {"poll", "read", "restore"} /\ room \in Int
        /\ pc \in {"poll", "read"} => room >= 1
    <3>1. BufSize \in Nat /\ Len(buf) \in Nat
      BY SizeAssumption DEF TypeInv, TypeOK
    <3> QED BY <3>1 DEF TypeInv, TypeOK
  <2>2. StepsLeft = CASE pc = "idle"    -> 0
                      [] pc = "restore" -> 1
                      [] pc = "read"    -> 2 * room
                      [] pc = "poll"    -> 2 * room + 1
    BY DEF StepsLeft
  <2>3. UNCHANGED <<pc, buf>> => StepsLeft' = StepsLeft
    BY DEF StepsLeft
  <2>4. ReadByte => buf' = Append(buf, Head(coming)) /\ Len(buf') = Len(buf) + 1
    BY DEF ReadByte, TypeInv, TypeOK
  <2>5. 0 < StepsLeft
    BY <2>1, <2>2
  <2>6. CASE Measure
    <3>1. CASE PollReady
      <4>1. pc = "poll" /\ pc' = "read" /\ room' = room
        BY <3>1 DEF PollReady
      <4>2. StepsLeft' = 2 * room
        BY <4>1 DEF StepsLeft
      <4> QED BY <2>1, <2>2, <4>1, <4>2
    <3>2. CASE PollTimesOut
      <4>1. pc = "poll" /\ pc' = "restore"
        BY <3>2 DEF PollTimesOut, GivesUp
      <4>2. StepsLeft' = 1
        BY <4>1 DEF StepsLeft
      <4> QED BY <2>1, <2>2, <4>1, <4>2
    <3>3. CASE ReadByte
      <4>1. pc = "read" /\ pc' \in {"poll", "restore"}
        BY <3>3 DEF ReadByte
      <4>2. room' = room - 1
        <5>1. BufSize \in Nat /\ Len(buf) \in Nat
          BY SizeAssumption DEF TypeInv, TypeOK
        <5> QED BY <2>4, <3>3, <5>1
      <4>3. StepsLeft' = IF pc' = "poll" THEN 2 * room' + 1 ELSE 1
        BY <4>1 DEF StepsLeft
      <4> HIDE DEF room
      <4> QED BY <2>1, <2>2, <4>1, <4>2, <4>3
    <3>4. CASE Restore
      <4>1. pc = "restore" /\ pc' = "idle"
        BY <3>4 DEF Restore, RestoreAndStore
      <4>2. StepsLeft' = 0
        BY <4>1 DEF StepsLeft
      <4> QED BY <2>2, <4>1, <4>2
    <3> QED BY <2>5, <2>6, <3>1, <3>2, <3>3, <3>4 DEF Measure
  <2>7. CASE ~Measure
    <3>1. ~Calls
      BY DEF Calls, ioctl_winsize, tcgetattr, tcsetattr, SetsAttributes, RubyReads
    <3>2. Terminal => UNCHANGED <<pc, buf>>
      BY DEF Terminal, TerminalAnswers, TerminalRestores, PressKey
    <3>3. UNCHANGED <<pc, buf>>
      BY <2>7, <3>1, <3>2 DEF Next, vars
    <3>4. StepsLeft \in Int
      BY <2>1, <2>2
    <3> QED BY <2>3, <2>5, <3>3, <3>4
  <2> QED BY <2>6, <2>7
<1>2. TypeInv /\ [Next]_vars => [Short]_vars
  BY <1>1
<1> QED BY <1>2, MeasurementInvariant, PTL DEF Spec, MeasureIsShort

(* The part of it that the terminal and the attributes alone need.          *)
THEOREM Invariant == Spec => []IInv
  <1>1. Init => IInv
    BY DEF Init, IInv, Exchange, Attributes
  <1>2. IInv /\ [Next]_vars => IInv'
    <2>1. IInv /\ UNCHANGED vars => IInv'
      BY DEF IInv, Exchange, Attributes, vars, size, termios, line, terminal
    <2> QED BY <2>1, CallsStep, MeasureStep, TerminalStep DEF Next
  <1> QED BY <1>1, <1>2, PTL DEF Spec

(* "The position is saved and restored around the query so that whatever    *)
(* the caller was drawing is left alone" (ruby_syscall_tty.c:114-116).      *)
THEOREM CursorComesBack == Spec => []CursorLeftAlone
  <1>1. IInv => CursorLeftAlone
    BY DEF IInv, Exchange, CursorLeftAlone
  <1> QED BY <1>1, Invariant, PTL

(* "Only stdin is measured, and only once" (ruby_syscall_tty.c:118).        *)
THEOREM MeasuresOnce == Spec => MeasuredOnce
  <1>1. [Next]_vars => [Measured => UNCHANGED <<size, queries>>]_vars
    <2> SUFFICES ASSUME Next, Measured
                 PROVE  UNCHANGED <<size, queries>>
      OBVIOUS
    <2>1. console_size_known /\ pc = "idle"
      BY DEF Measured
    <2>2. CASE Calls
      BY <2>1, <2>2 DEF Calls, ioctl_winsize, measures, tcgetattr, tcsetattr,
        SetsAttributes, RubyReads
    <2>3. ~Measure
      BY <2>1 DEF Measure, PollReady, PollTimesOut, GivesUp, ReadByte, Restore,
        RestoreAndStore
    <2>4. CASE Terminal
      BY <2>4 DEF Terminal, TerminalAnswers, TerminalRestores, PressKey
    <2> QED BY <2>2, <2>3, <2>4 DEF Next
  <1> QED BY <1>1, PTL DEF Spec, MeasuredOnce

(* tcgetattr answers what was last set, before or after the first look at   *)
(* the attributes (ruby_syscall_tty.c:53-57, 208).                          *)
THEOREM AttributesKept == Spec => KeepsAttributes
  <1>1. IInv => [tcgetattr => attributes' = attributes]_vars
    BY DEF IInv, Attributes, tcgetattr, SetsAttributes, console_termios_init
  <1> QED BY <1>1, Invariant, PTL DEF KeepsAttributes

(* The variables keep their types: sizes fit their 16 bits, and a           *)
(* measurement reads at most one character less than its buffer holds       *)
(* (ruby_syscall_tty.c:139-165).                                            *)
THEOREM TypesKept == Spec => []TypeOK
<1>1. TypeInv => TypeOK
  BY DEF TypeInv
<1> QED BY <1>1, MeasurementInvariant, PTL

(* "Parse a cursor position report: ESC [ rows ; cols R"                    *)
(* (ruby_syscall_tty.c:70): whatever was read, a report that stands right   *)
(* behind the first introducer is found, nothing else is taken for one, and *)
(* its numbers are the decimals in it.                                      *)
THEOREM ReportsAreFound == Spec => []ParsesReport
<1>1. TypeInv => ParsesReport
  BY CharsTyped, ReportParsed DEF TypeInv, TypeOK
<1> QED BY <1>1, MeasurementInvariant, PTL

(* Unless the user typed during it, a measurement ends with the size of the *)
(* terminal or the default (ruby_syscall_tty.c:30-31, 105, 162).            *)
THEOREM OneOfTwoSizes == Spec => []NoThirdSize
<1>1. Outcome => NoThirdSize
  BY DEF Outcome
<1> QED BY <1>1, MeasurementInvariant, PTL

(* The reply behind what was typed ahead is read whole, and nothing of it   *)
(* is left to be read as typed (ruby_syscall_tty.c:79-86, 139-165).         *)
THEOREM ReplyIsTaken == Spec => []AnswerIsTaken
<1>1. Outcome => AnswerIsTaken
  BY DEF Outcome
<1> QED BY <1>1, MeasurementInvariant, PTL
=============================================================================
