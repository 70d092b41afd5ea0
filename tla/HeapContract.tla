---------------------------- MODULE HeapContract ----------------------------
(***************************************************************************)
(* What callers of the allocator rely on, with no heap in sight: a set of   *)
(* owned ranges of addresses and which of the owned bytes are not zero.     *)
(***************************************************************************)
EXTENDS Integers

CONSTANTS ArenaBase, ArenaEnd, Unspecified

VARIABLES live, content

contractVars == <<live, content>>

RangeOf(l) == l.lo .. l.hi

Apart(l, m) == l.lo # m.lo /\ RangeOf(l) \cap RangeOf(m) = {}

(* The contents of every range but those in S are what they were.           *)
Untouched(S) ==
  \A m \in live \ S : content' \cap RangeOf(m) = content \cap RangeOf(m)

Fits(l) == RangeOf(l) \subseteq ArenaBase .. (ArenaEnd - 1)

(* A range reads as its first data bytes and then zeroes.                   *)
ReadsAs(l, data) == content' \cap RangeOf(l) = l.lo .. (l.lo + data - 1)

ContractInit == live = {} /\ content = {}

Grant ==
  \E l \in live' \ live :
    /\ live' = live \cup {l}
    /\ Fits(l)
    /\ \A m \in live : Apart(l, m)
    /\ l.data # Unspecified => ReadsAs(l, l.data)
    /\ Untouched({})

Release ==
  \E l \in live \ live' :
    /\ live' = live \ {l}
    /\ Untouched({l})

(* A range is replaced by another that starts with the same contents.       *)
Resize ==
  \E l \in live \ live', m \in live' :
    /\ live' = (live \ {l}) \cup {m}
    /\ Fits(m)
    /\ \A o \in live \ {l} : Apart(m, o)
    /\ \A k \in 0 .. (l.hi - l.lo) :
         m.lo + k <= m.hi => (m.lo + k \in content' <=> l.lo + k \in content)
    /\ Untouched({l})

(* A range loses some of its end or of its beginning.                       *)
Trim ==
  \E l \in live \ live', m \in live' :
    /\ live' = (live \ {l}) \cup {m}
    /\ RangeOf(m) \subseteq RangeOf(l)
    /\ content' \cap RangeOf(m) = content \cap RangeOf(m)
    /\ Untouched({l})

Scribble ==
  /\ UNCHANGED live
  /\ \E l \in live : Untouched({l})

ContractNext == Grant \/ Release \/ Resize \/ Trim \/ Scribble

Spec == ContractInit /\ [][ContractNext]_contractVars
=============================================================================
