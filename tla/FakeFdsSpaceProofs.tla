------------------------- MODULE FakeFdsSpaceProofs --------------------------
(***************************************************************************)
(* The tables of FakeFds implement EventSpace, for every size of them: each *)
(* call is a step of the abstract specification or leaves it as it is.      *)
(***************************************************************************)
EXTENDS FakeFdsProofs

(* A set has as many elements as what distinguishes them.                   *)
LEMMA AsMany ==
  ASSUME NEW S, IsFiniteSet(S), NEW T, NEW g \in [S -> T],
         \A t \in T : \E i \in S : g[i] = t,
         \A i, j \in S : g[i] = g[j] => i = j
  PROVE  IsFiniteSet(T) /\ Cardinality(T) = Cardinality(S)
<1>1. g \in Bijection(S, T)
  BY DEF Bijection, Injection, Surjection, IsInjective
<1> QED
  BY <1>1, FS_Bijection, Zenon DEF ExistsBijection

(* The first m elements of a set of indices.                                *)
First(S, m) == {i \in S : Cardinality({j \in S : j < i}) < m}

LEMMA FirstHasAll ==
  ASSUME NEW n \in Nat, NEW S \in SUBSET (1 .. n), NEW m \in Nat
  PROVE  /\ IsFiniteSet(S) /\ Cardinality(S) \in Nat
         /\ Cardinality(First(S, m)) = IF Cardinality(S) < m THEN Cardinality(S) ELSE m
<1> DEFINE Size(s) == Cardinality(First(s, m)) = IF Cardinality(s) < m THEN Cardinality(s) ELSE m
           P == {s \in SUBSET (1 .. n) : Size(s)}
<1>1. \A s \in SUBSET (1 .. n) : IsFiniteSet(s) /\ Cardinality(s) \in Nat
  <2>1. IsFiniteSet(1 .. n)
    BY FS_Interval
  <2> QED
    BY <2>1, FS_Subset, FS_CardinalityType
<1>2. Size({})
  <2>1. First({}, m) = {} /\ Cardinality({}) = 0
    BY FS_EmptySet DEF First
  <2> QED
    BY <2>1
<1>3. ASSUME NEW s \in SUBSET (1 .. n), s # {}, Size(s \ {Max(s)})
      PROVE  Size(s)
  <2> DEFINE x == Max(s)
             t == s \ {x}
  <2>1. x \in s /\ \A j \in s : x >= j
    BY <1>3, MaxOf
  <2>2. /\ IsFiniteSet(t) /\ Cardinality(t) \in Nat /\ Cardinality(s) = Cardinality(t) + 1
        /\ t \in SUBSET (1 .. n)
    <3>1. t \in SUBSET (1 .. n)
      OBVIOUS
    <3>2. IsFiniteSet(t) /\ Cardinality(t) \in Nat
      BY <1>1, <3>1
    <3>3. t \cup {x} = s /\ x \notin t
      BY <2>1
    <3> HIDE DEF t, x
    <3>4. Cardinality(t \cup {x}) = Cardinality(t) + 1
      BY <3>2, <3>3, FS_AddElement
    <3> QED
      BY <3>1, <3>2, <3>3, <3>4
  <2>3. {j \in s : j < x} = t
    <3>1. \A j \in s : j \in Int
      OBVIOUS
    <3>2. \A j \in s : j \in Int /\ x \in Int /\ x >= j
      BY <2>1, <3>1
    <3> HIDE DEF x
    <3>3. \A j \in s : j < x <=> j # x
      BY <3>2
    <3> QED
      BY <3>3
  <2>4. \A i \in t : {j \in s : j < i} = {j \in t : j < i}
    <3>1. \A j \in s : j \in Int
      OBVIOUS
    <3>2. \A i \in t : i \in Int /\ x \in Int /\ x >= i
      BY <2>1, <3>1
    <3> HIDE DEF x
    <3> QED
      BY <3>2
  <2>5. Size(t)
    BY <1>3
  <2>6. s = t \cup {x} /\ x \notin t
    BY <2>1
  <2> HIDE DEF t, x
  <2>7. First(s, m) = IF Cardinality(t) < m THEN First(t, m) \cup {x} ELSE First(t, m)
    BY <2>3, <2>4, <2>6 DEF First
  <2>8. x \notin First(t, m) /\ IsFiniteSet(First(t, m)) /\ Cardinality(First(t, m)) \in Nat
    <3>1. First(t, m) \in SUBSET t
      BY DEF First
    <3> QED
      BY <2>2, <2>6, <3>1, FS_Subset, FS_CardinalityType
  <2>9. Cardinality(First(t, m) \cup {x}) = Cardinality(First(t, m)) + 1
    BY <2>8, FS_AddElement
  <2> QED
    BY <2>2, <2>5, <2>7, <2>9
<1> HIDE DEF Size
<1>4. P \in SUBSET (SUBSET (1 .. n)) /\ {} \in P
  BY <1>2
<1>5. \A s \in SUBSET (1 .. n) : s # {} /\ s \ {Max(s)} \in P => s \in P
  BY <1>3
<1> HIDE DEF P
<1>6. P = SUBSET (1 .. n)
  BY <1>4, <1>5, IndexInduction
<1>7. Size(S)
  BY <1>6 DEF P
<1> QED
  BY <1>1, <1>7 DEF Size

-----------------------------------------------------------------------------
(* The interests of a table of watches.                                     *)

WatchTables == [Watches -> WatchType]

Pairs(t) == {<<w.fd, w.in>> : w \in {v \in Range(t) : v.used}}
Pair(t, i) == <<t[i].fd, t[i].in>>
UsedIn(t) == {i \in Watches : t[i].used}
NoTwice(t) == \A i, j \in Watches : t[i].used /\ t[j].used /\ t[i].fd = t[j].fd => i = j

LEMMA PairsAre ==
  ASSUME NEW t \in WatchTables
  PROVE  \A p : p \in Pairs(t) <=> \E i \in UsedIn(t) : p = Pair(t, i)
<1>1. DOMAIN t = Watches
  BY DEF WatchTables
<1>2. ASSUME NEW p \in Pairs(t) PROVE \E i \in UsedIn(t) : p = Pair(t, i)
  <2>1. PICK w \in Range(t) : w.used /\ p = <<w.fd, w.in>>
    BY <1>2 DEF Pairs
  <2>2. PICK i \in Watches : w = t[i]
    BY <1>1, <2>1 DEF Range
  <2> QED
    BY <2>1, <2>2 DEF UsedIn, Pair
<1>3. ASSUME NEW i \in UsedIn(t) PROVE Pair(t, i) \in Pairs(t)
  <2>1. t[i] \in Range(t) /\ t[i].used
    BY <1>1, <1>3 DEF Range, UsedIn
  <2> QED
    BY <2>1 DEF Pairs, Pair
<1> QED
  BY <1>2, <1>3

LEMMA PairsCounted ==
  ASSUME NEW t \in WatchTables, NoTwice(t)
  PROVE  /\ IsFiniteSet(Pairs(t)) /\ Cardinality(Pairs(t)) \in Nat
         /\ Cardinality(Pairs(t)) <= FAKE_EPOLL_WATCH_COUNT
         /\ Cardinality(Pairs(t)) = FAKE_EPOLL_WATCH_COUNT <=> UsedIn(t) = Watches
<1>1. IsFiniteSet(Watches) /\ Cardinality(Watches) = FAKE_EPOLL_WATCH_COUNT
  BY DescriptorAssumption, FS_Interval DEF Watches
<1>2. /\ IsFiniteSet(UsedIn(t)) /\ Cardinality(UsedIn(t)) \in Nat
      /\ Cardinality(UsedIn(t)) <= FAKE_EPOLL_WATCH_COUNT
      /\ Cardinality(UsedIn(t)) = FAKE_EPOLL_WATCH_COUNT <=> UsedIn(t) = Watches
  <2>1. UsedIn(t) \in SUBSET Watches
    BY DEF UsedIn
  <2> QED
    BY <1>1, <2>1, FS_Subset, FS_CardinalityType
<1> DEFINE g == [i \in UsedIn(t) |-> Pair(t, i)]
<1>3. g \in [UsedIn(t) -> Pairs(t)] /\ \A p \in Pairs(t) : \E i \in UsedIn(t) : g[i] = p
  BY PairsAre
<1>4. \A i, j \in UsedIn(t) : g[i] = g[j] => i = j
  BY DEF NoTwice, UsedIn, Pair
<1> HIDE DEF g
<1>5. IsFiniteSet(Pairs(t)) /\ Cardinality(Pairs(t)) = Cardinality(UsedIn(t))
  BY <1>2, <1>3, <1>4, AsMany
<1> QED
  BY <1>2, <1>5

(* What is known of a descriptor in a table.                                *)
LEMMA PairsOfOne ==
  ASSUME NEW t \in WatchTables, NoTwice(t), NEW fd
  PROVE  /\ (\A i \in UsedIn(t) : t[i].fd # fd) => Space!Interest(Pairs(t), fd) = {}
         /\ \A i \in UsedIn(t) : t[i].fd = fd =>
              Space!Interest(Pairs(t), fd) = {Pair(t, i)}
<1>1. \A p : p \in Space!Interest(Pairs(t), fd) <=>
              \E i \in UsedIn(t) : p = Pair(t, i) /\ t[i].fd = fd
  BY PairsAre DEF Space!Interest, Pair
<1>2. ASSUME NEW i \in UsedIn(t), t[i].fd = fd
      PROVE  Space!Interest(Pairs(t), fd) = {Pair(t, i)}
  <2>1. \A j \in UsedIn(t) : t[j].fd = fd => j = i
    BY <1>2 DEF NoTwice, UsedIn
  <2> QED
    BY <1>1, <1>2, <2>1
<1>3. ASSUME \A i \in UsedIn(t) : t[i].fd # fd
      PROVE  Space!Interest(Pairs(t), fd) = {}
  BY <1>1, <1>3
<1> QED
  BY <1>2, <1>3

(* An entry that was free is filled, one that was used is changed or freed. *)
LEMMA PairsFilled ==
  ASSUME NEW t \in WatchTables, NEW i \in Watches, ~t[i].used, NEW w \in WatchType, w.used
  PROVE  Pairs([t EXCEPT ![i] = w]) = Pairs(t) \cup {<<w.fd, w.in>>}
<1> DEFINE u == [t EXCEPT ![i] = w]
<1>1. /\ u \in WatchTables /\ u[i] = w
      /\ \A j \in Watches : j # i => u[j] = t[j]
  BY DEF WatchTables
<1> HIDE DEF u
<1>2. UsedIn(u) = UsedIn(t) \cup {i} /\ i \notin UsedIn(t)
  BY <1>1 DEF UsedIn
<1>3. Pair(u, i) = <<w.fd, w.in>> /\ \A j \in UsedIn(t) : Pair(u, j) = Pair(t, j)
  BY <1>1, <1>2 DEF Pair, UsedIn
<1>4. \A p : p \in Pairs(u) <=> p \in Pairs(t) \/ p = <<w.fd, w.in>>
  BY <1>1, <1>2, <1>3, PairsAre
<1>5. Pairs(u) = Pairs(t) \cup {<<w.fd, w.in>>}
  BY <1>4
<1> QED
  BY <1>5 DEF u

LEMMA PairsChanged ==
  ASSUME NEW t \in WatchTables, NoTwice(t), NEW i \in UsedIn(t), NEW w \in WatchType
  PROVE  Pairs([t EXCEPT ![i] = w]) =
           (Pairs(t) \ {Pair(t, i)}) \cup (IF w.used THEN {<<w.fd, w.in>>} ELSE {})
<1> DEFINE u == [t EXCEPT ![i] = w]
<1>1. /\ u \in WatchTables /\ u[i] = w /\ i \in Watches
      /\ \A j \in Watches : j # i => u[j] = t[j]
  BY DEF WatchTables, UsedIn
<1> HIDE DEF u
<1>2. \A j : j \in UsedIn(u) <=> (j \in UsedIn(t) /\ j # i) \/ (j = i /\ w.used)
  BY <1>1 DEF UsedIn
<1>3. /\ Pair(u, i) = <<w.fd, w.in>>
      /\ \A j \in UsedIn(t) : j # i => /\ Pair(u, j) = Pair(t, j)
                                       /\ Pair(t, j) # Pair(t, i)
  <2>1. \A j \in UsedIn(t) : j # i => t[j].fd # t[i].fd
    BY DEF NoTwice, UsedIn
  <2> QED
    BY <1>1, <2>1 DEF Pair, UsedIn
<1>4. \A p : p \in Pairs(u) <=>
              (p \in Pairs(t) /\ p # Pair(t, i)) \/ (w.used /\ p = <<w.fd, w.in>>)
  <2>1. \A p : p \in Pairs(u) <=> \E j \in UsedIn(u) : p = Pair(u, j)
    BY <1>1, PairsAre
  <2>2. \A p : p \in Pairs(t) <=> \E j \in UsedIn(t) : p = Pair(t, j)
    BY PairsAre
  <2> QED
    BY <1>2, <1>3, <2>1, <2>2
<1>5. Pairs(u) = (Pairs(t) \ {Pair(t, i)}) \cup (IF w.used THEN {<<w.fd, w.in>>} ELSE {})
  BY <1>4
<1> QED
  BY <1>5 DEF u

-----------------------------------------------------------------------------
(* What a change of a table is to what it stands for.                       *)

LEMMA EventsAre ==
  /\ DOMAIN events = {fd \in EventFds : fake_eventfds[fd].used}
  /\ \A fd \in DOMAIN events : events[fd] = fake_eventfds[fd].counter
  /\ events = [fd \in DOMAIN events |-> events[fd]]
BY DEF events

LEMMA InterestIs ==
  /\ DOMAIN interest = {fd \in EpollFds : fake_epolls[fd].used}
  /\ \A fd \in DOMAIN interest : interest[fd] = Pairs(fake_epolls[fd].watches)
  /\ interest = [fd \in DOMAIN interest |-> interest[fd]]
BY DEF interest, interests, Pairs

LEMMA EventSet ==
  ASSUME IInv, NEW fd, is_eventfd(fd), NEW event, event.used,
         fake_eventfds' = [fake_eventfds EXCEPT ![fd] = event]
  PROVE  /\ fd \in DOMAIN events /\ events[fd] = fake_eventfds[fd].counter
         /\ events' = [events EXCEPT ![fd] = event.counter]
<1>1. fd \in EventFds /\ fake_eventfds[fd].used
  BY DEF is_eventfd
<1>2. /\ fake_eventfds'[fd] = event
      /\ \A f \in EventFds : f # fd => fake_eventfds'[f] = fake_eventfds[f]
  BY <1>1 DEF IInv, Tables
<1>3. {f \in EventFds : fake_eventfds'[f].used} = {f \in EventFds : fake_eventfds[f].used}
  BY <1>1, <1>2
<1>4. events' = [f \in {f \in EventFds : fake_eventfds'[f].used} |->
                   fake_eventfds'[f].counter]
  BY DEF events
<1>5. events' = [events EXCEPT ![fd] = event.counter]
  <2> DEFINE D == {f \in EventFds : fake_eventfds[f].used}
  <2>1. events' = [f \in D |-> fake_eventfds'[f].counter]
    BY <1>3, <1>4
  <2>2. \A f \in D : fake_eventfds'[f].counter =
                       IF f = fd THEN event.counter ELSE fake_eventfds[f].counter
    BY <1>2
  <2>3. events = [f \in D |-> fake_eventfds[f].counter]
    BY DEF events
  <2> HIDE DEF D
  <2> QED
    BY <2>1, <2>2, <2>3
<1> QED
  BY <1>1, <1>5, EventsAre

LEMMA EventOpened ==
  ASSUME IInv, NEW fd \in EventFds, ~fake_eventfds[fd].used, NEW event, event.used,
         fake_eventfds' = [fake_eventfds EXCEPT ![fd] = event]
  PROVE  /\ fd \notin DOMAIN events
         /\ events' = Space!Opens(events, fd, event.counter)
<1> DEFINE D == {f \in EventFds : fake_eventfds[f].used}
<1>1. /\ fake_eventfds'[fd] = event
      /\ \A f \in EventFds : f # fd => fake_eventfds'[f] = fake_eventfds[f]
  BY DEF IInv, Tables
<1>2. {f \in EventFds : fake_eventfds'[f].used} = D \cup {fd} /\ fd \notin D
  BY <1>1
<1>3. events' = [f \in D \cup {fd} |-> fake_eventfds'[f].counter]
  BY <1>2 DEF events
<1>4. \A f \in D \cup {fd} : fake_eventfds'[f].counter =
                              IF f = fd THEN event.counter ELSE fake_eventfds[f].counter
  BY <1>1
<1>5. DOMAIN events = D /\ \A f \in D : events[f] = fake_eventfds[f].counter
  BY EventsAre
<1> HIDE DEF D
<1> QED
  BY <1>2, <1>3, <1>4, <1>5 DEF Space!Opens

LEMMA EventClosed ==
  ASSUME IInv, NEW fd, is_eventfd(fd),
         fake_eventfds' = [fake_eventfds EXCEPT ![fd] = UnusedEventfd]
  PROVE  fd \in DOMAIN events /\ events' = Space!Without(events, fd)
<1> DEFINE D == {f \in EventFds : fake_eventfds[f].used}
<1>1. fd \in EventFds /\ fake_eventfds[fd].used
  BY DEF is_eventfd
<1>2. /\ ~fake_eventfds'[fd].used
      /\ \A f \in EventFds : f # fd => fake_eventfds'[f] = fake_eventfds[f]
  BY <1>1 DEF IInv, Tables, UnusedEventfd
<1>3. {f \in EventFds : fake_eventfds'[f].used} = D \ {fd} /\ fd \in D
  BY <1>1, <1>2
<1>4. events' = [f \in D \ {fd} |-> fake_eventfds'[f].counter]
  BY <1>3 DEF events
<1>5. \A f \in D \ {fd} : fake_eventfds'[f].counter = fake_eventfds[f].counter
  BY <1>2
<1>6. DOMAIN events = D /\ \A f \in D : events[f] = fake_eventfds[f].counter
  BY EventsAre
<1> HIDE DEF D
<1> QED
  BY <1>3, <1>4, <1>5, <1>6 DEF Space!Without

LEMMA InterestSet ==
  ASSUME IInv, NEW epfd \in EpollFds, fake_epolls[epfd].used,
         NEW i \in Watches, NEW w, SetWatch(epfd, i, w)
  PROVE  /\ epfd \in DOMAIN interest
         /\ interest[epfd] = Pairs(fake_epolls[epfd].watches)
         /\ interest' = [interest EXCEPT ![epfd] =
                            Pairs([fake_epolls[epfd].watches EXCEPT ![i] = w])]
<1> DEFINE D == {f \in EpollFds : fake_epolls[f].used}
           t == [fake_epolls[epfd].watches EXCEPT ![i] = w]
<1>1. /\ fake_epolls'[epfd].watches = t /\ fake_epolls'[epfd].used
      /\ \A f \in EpollFds : f # epfd => fake_epolls'[f] = fake_epolls[f]
  BY DEF SetWatch, IInv, Tables
<1>2. {f \in EpollFds : fake_epolls'[f].used} = D
  BY <1>1
<1>3. interest' = [f \in D |-> Pairs(fake_epolls'[f].watches)]
  BY <1>2 DEF interest, interests, Pairs
<1>4. interest = [f \in D |-> Pairs(fake_epolls[f].watches)] /\ epfd \in D
  BY DEF interest, interests, Pairs
<1> HIDE DEF t
<1>5. \A f \in D : Pairs(fake_epolls'[f].watches) =
                     IF f = epfd THEN Pairs(t) ELSE Pairs(fake_epolls[f].watches)
  BY <1>1
<1> HIDE DEF D
<1>6. interest' = [interest EXCEPT ![epfd] = Pairs(t)]
  BY <1>3, <1>4, <1>5
<1> QED
  BY <1>4, <1>6 DEF t

LEMMA InterestOpened ==
  ASSUME IInv, NEW epfd \in EpollFds, ~fake_epolls[epfd].used,
         fake_epolls' = [fake_epolls EXCEPT ![epfd] = [UnusedEpoll EXCEPT !.used = TRUE]]
  PROVE  /\ epfd \notin DOMAIN interest
         /\ interest' = Space!Opens(interest, epfd, {})
<1> DEFINE D == {f \in EpollFds : fake_epolls[f].used}
           made == [UnusedEpoll EXCEPT !.used = TRUE]
<1>1. made.used /\ made.watches \in WatchTables /\ UsedIn(made.watches) = {}
  BY DEF UnusedEpoll, UnusedWatch, WatchTables, WatchType, UsedIn
<1> HIDE DEF made
<1>2. Pairs(made.watches) = {}
  BY <1>1, PairsAre
<1>3. /\ fake_epolls'[epfd] = made
      /\ \A f \in EpollFds : f # epfd => fake_epolls'[f] = fake_epolls[f]
  BY DEF IInv, Tables, made
<1>4. {f \in EpollFds : fake_epolls'[f].used} = D \cup {epfd} /\ epfd \notin D
  BY <1>1, <1>3
<1>5. interest' = [f \in D \cup {epfd} |-> Pairs(fake_epolls'[f].watches)]
  BY <1>4 DEF interest, interests, Pairs
<1>6. \A f \in D \cup {epfd} : Pairs(fake_epolls'[f].watches) =
                                IF f = epfd THEN {} ELSE Pairs(fake_epolls[f].watches)
  <2>1. Pairs(fake_epolls'[epfd].watches) = {}
    BY <1>2, <1>3
  <2>2. \A f \in D : f # epfd /\ fake_epolls'[f] = fake_epolls[f]
    BY <1>3, <1>4
  <2> HIDE DEF D
  <2> QED
    BY <2>1, <2>2
<1>7. DOMAIN interest = D /\ \A f \in D : interest[f] = Pairs(fake_epolls[f].watches)
  BY InterestIs
<1> HIDE DEF D
<1> QED
  BY <1>4, <1>5, <1>6, <1>7 DEF Space!Opens

LEMMA InterestClosed ==
  ASSUME IInv, NEW epfd, is_epoll(epfd),
         fake_epolls' = [fake_epolls EXCEPT ![epfd] = UnusedEpoll]
  PROVE  epfd \in DOMAIN interest /\ interest' = Space!Without(interest, epfd)
<1> DEFINE D == {f \in EpollFds : fake_epolls[f].used}
<1>1. epfd \in EpollFds /\ fake_epolls[epfd].used
  BY DEF is_epoll
<1>2. /\ ~fake_epolls'[epfd].used
      /\ \A f \in EpollFds : f # epfd => fake_epolls'[f] = fake_epolls[f]
  BY <1>1 DEF IInv, Tables, UnusedEpoll
<1>3. {f \in EpollFds : fake_epolls'[f].used} = D \ {epfd} /\ epfd \in D
  BY <1>1, <1>2
<1>4. interest' = [f \in D \ {epfd} |-> Pairs(fake_epolls'[f].watches)]
  BY <1>3 DEF interest, interests, Pairs
<1>5. \A f \in D \ {epfd} : Pairs(fake_epolls'[f].watches) = Pairs(fake_epolls[f].watches)
  BY <1>2
<1>6. DOMAIN interest = D /\ \A f \in D : interest[f] = Pairs(fake_epolls[f].watches)
  BY InterestIs
<1> HIDE DEF D
<1> QED
  BY <1>3, <1>4, <1>5, <1>6 DEF Space!Without

-----------------------------------------------------------------------------
(* Each call as a step.                                                     *)

Steps == Space!Next \/ UNCHANGED Space!space

(* The operators of the libraries are the same in both modules.             *)
LEMMA SameCardinality ==
  \A S : Space!Cardinality(S) = Cardinality(S)
BY DEF Cardinality, IsFiniteSet, Space!Cardinality, Space!IsFiniteSet

LEMMA SameTotal ==
  \A s : Space!FoldLeft(+, 0, s) = Total(s)
BY DEF Total, FoldLeft, MapThenFoldSet, Space!FoldLeft, Space!MapThenFoldSet,
   Max, Space!Max

LEMMA Unseen ==
  /\ UNCHANGED fake_eventfds => UNCHANGED events
  /\ UNCHANGED fake_epolls => UNCHANGED interest
BY DEF events, interest, interests

(* A call that fails: its reason is true of what callers see.               *)
LEMMA RefusedSteps ==
  ASSUME NEW err, Fails(err), UNCHANGED <<fake_eventfds, fake_epolls>>,
         err = "EAGAIN" => \E fd \in DOMAIN events : events[fd] = 0,
         err = "ENOSPC" => \E fd \in DOMAIN interest :
                             Cardinality(interest[fd]) = FAKE_EPOLL_WATCH_COUNT
  PROVE  Steps
<1>1. reply'.ret = -1 /\ reply'.err = err /\ ~reply'.waited
  BY FailsWith
<1>2. UNCHANGED <<events, interest>>
  BY Unseen
<1>3. reply'.err = "EAGAIN" => \E fd \in DOMAIN events : events[fd] = 0
  BY <1>1, Zenon
<1>4. reply'.err = "ENOSPC" => \E fd \in DOMAIN interest :
                                  Cardinality(interest[fd]) = FAKE_EPOLL_WATCH_COUNT
  BY <1>1, Zenon
<1>5. Space!Refuse
  BY <1>1, <1>2, <1>3, <1>4, SameCardinality, Zenon DEF Space!Refuse
<1> QED
  BY <1>1, <1>5, Zenon DEF Steps, Space!Next

LEMMA LooksSteps ==
  ASSUME Returns(0), UNCHANGED <<events, interest>>
  PROVE  Steps
<1>1. reply'.ret = 0 /\ ~reply'.waited
  BY ReturnsThat
<1> QED
  BY <1>1 DEF Steps, Space!Next, Space!Look

LEMMA CreateSteps ==
  ASSUME IInv, Create
  PROVE  Steps
<1>1. ASSUME NEW initval \in Values, NEW semaphore \in BOOLEAN, eventfd(initval, semaphore)
      PROVE  Steps
  <2> DEFINE free == {fd \in EventFds : ~fake_eventfds[fd].used}
             event == [used |-> TRUE, semaphore |-> semaphore, counter |-> initval]
  <2>1. CASE free = {}
    BY <1>1, <2>1, RefusedSteps DEF eventfd, Refused
  <2>2. CASE free # {}
    <3>1. PICK new \in free : new = Least(free)
      BY <2>2, LeastOf, Descriptors
    <3>2. /\ fake_eventfds' = [fake_eventfds EXCEPT ![new] = event]
          /\ Returns(new) /\ UNCHANGED fake_epolls
      BY <1>1, <2>2, <3>1 DEF eventfd
    <3>3. event.used /\ event.counter = initval
      OBVIOUS
    <3> HIDE DEF event
    <3>4. /\ new \in EventFds \ DOMAIN events
          /\ events' = Space!Opens(events, new, initval)
      BY <3>1, <3>2, <3>3, EventOpened
    <3>5. reply'.ret = new /\ ~reply'.waited /\ UNCHANGED interest
      BY <3>2, ReturnsThat, Unseen
    <3>6. Space!Make
      BY <3>4, <3>5 DEF Space!Make
    <3> QED
      BY <3>5, <3>6 DEF Steps, Space!Next
  <2> QED
    BY <2>1, <2>2
<1>2. ASSUME epoll_create1
      PROVE  Steps
  <2> DEFINE free == {fd \in EpollFds : ~fake_epolls[fd].used}
  <2>1. CASE free = {}
    BY <1>2, <2>1, RefusedSteps DEF epoll_create1, Refused
  <2>2. CASE free # {}
    <3>1. PICK new \in free : new = Least(free)
      BY <2>2, LeastOf, Descriptors
    <3>2. /\ fake_epolls' = [fake_epolls EXCEPT ![new] = [UnusedEpoll EXCEPT !.used = TRUE]]
          /\ Returns(new) /\ UNCHANGED fake_eventfds
      BY <1>2, <2>2, <3>1 DEF epoll_create1
    <3>3. /\ new \in EpollFds \ DOMAIN interest
          /\ interest' = Space!Opens(interest, new, {})
      BY <3>1, <3>2, InterestOpened
    <3>4. reply'.ret = new /\ ~reply'.waited /\ UNCHANGED events
      BY <3>2, ReturnsThat, Unseen
    <3>5. Space!Make
      BY <3>3, <3>4 DEF Space!Make
    <3> QED
      BY <3>4, <3>5 DEF Steps, Space!Next
  <2> QED
    BY <2>1, <2>2
<1> QED
  BY <1>1, <1>2 DEF Create

LEMMA CloseSteps ==
  ASSUME IInv, NEW fd, close(fd)
  PROVE  Steps
<1>1. CASE /\ is_eventfd(fd) /\ fake_eventfds' = [fake_eventfds EXCEPT ![fd] = UnusedEventfd]
           /\ Returns(0) /\ UNCHANGED fake_epolls
  <2>1. fd \in DOMAIN events /\ events' = Space!Without(events, fd)
    BY <1>1, EventClosed
  <2>2. reply'.ret = 0 /\ ~reply'.waited /\ UNCHANGED interest
    BY <1>1, ReturnsThat, Unseen
  <2>3. Space!Close
    BY <2>1, <2>2 DEF Space!Close
  <2> QED
    BY <2>2, <2>3 DEF Steps, Space!Next
<1>2. CASE /\ is_epoll(fd) /\ fake_epolls' = [fake_epolls EXCEPT ![fd] = UnusedEpoll]
           /\ Returns(0) /\ UNCHANGED fake_eventfds
  <2>1. fd \in DOMAIN interest /\ interest' = Space!Without(interest, fd)
    BY <1>2, InterestClosed
  <2>2. reply'.ret = 0 /\ ~reply'.waited /\ UNCHANGED events
    BY <1>2, ReturnsThat, Unseen
  <2>3. Space!Close
    BY <2>1, <2>2 DEF Space!Close
  <2> QED
    BY <2>2, <2>3 DEF Steps, Space!Next
<1>3. CASE Refused("syscall")
  BY <1>3, RefusedSteps DEF Refused
<1> QED
  BY <1>1, <1>2, <1>3 DEF close

(* What the invariant says of the table of an open epoll.                   *)
LEMMA TableOf ==
  ASSUME IInv, NEW epfd, is_epoll(epfd)
  PROVE  /\ epfd \in EpollFds /\ epfd \in DOMAIN interest
         /\ fake_epolls[epfd].watches \in WatchTables
         /\ NoTwice(fake_epolls[epfd].watches)
         /\ interest[epfd] = Pairs(fake_epolls[epfd].watches)
<1>1. epfd \in EpollFds /\ fake_epolls[epfd].used
  BY DEF is_epoll
<1>2. fake_epolls[epfd].watches \in WatchTables
  BY <1>1 DEF IInv, Tables, WatchTables
<1>3. NoTwice(fake_epolls[epfd].watches)
  BY <1>1 DEF IInv, Unique, Entry, NoTwice
<1> QED
  BY <1>1, <1>2, <1>3, InterestIs

LEMMA ControlSteps ==
  ASSUME NEW epfd \in DOMAIN interest, NEW fd \in Fds, NEW T,
         Returns(0), UNCHANGED fake_eventfds, interest' = [interest EXCEPT ![epfd] = T],
         LET S   == interest[epfd]
             old == Space!Interest(S, fd)
         IN \/ \E in \in BOOLEAN : /\ Cardinality(S) < FAKE_EPOLL_WATCH_COUNT \/ old # {}
                                   /\ T = (S \ old) \cup {<<fd, in>>}
            \/ old # {} /\ T = S \ old
  PROVE  Steps
<1>1. reply'.ret = 0 /\ ~reply'.waited /\ UNCHANGED events
  BY ReturnsThat, Unseen
<1>2. Space!Control
  BY <1>1, SameCardinality DEF Space!Control
<1> QED
  BY <1>1, <1>2 DEF Steps, Space!Next

LEMMA AddSteps ==
  ASSUME IInv, NEW epfd, is_epoll(epfd), NEW fd \in Fds, NEW in \in BOOLEAN,
         epoll_ctl_add(epfd, fd, in)
  PROVE  Steps
<1> DEFINE t == fake_epolls[epfd].watches
           S == interest[epfd]
           w == [used |-> TRUE, fd |-> fd, in |-> in]
<1>1. /\ epfd \in EpollFds /\ epfd \in DOMAIN interest
      /\ t \in WatchTables /\ NoTwice(t) /\ S = Pairs(t)
  BY TableOf
<1>2. CASE Refused("EEXIST")
  BY <1>2, RefusedSteps DEF Refused
<1>3. CASE free_watches(epfd) = {} /\ Refused("ENOSPC")
  <2>1. UsedIn(t) = Watches
    BY <1>3 DEF free_watches, UsedIn
  <2>2. Cardinality(S) = FAKE_EPOLL_WATCH_COUNT
    BY <1>1, <2>1, PairsCounted
  <2>3. "ENOSPC" # "EAGAIN"
    OBVIOUS
  <2> QED
    BY <1>1, <1>3, <2>2, <2>3, RefusedSteps DEF Refused
<1>4. CASE /\ watches_of(epfd, fd) = {} /\ free_watches(epfd) # {}
           /\ SetWatch(epfd, new_watch(epfd), w)
           /\ Returns(0) /\ UNCHANGED fake_eventfds
  <2>1. PICK i \in free_watches(epfd) : i = new_watch(epfd)
    BY <1>4, LeastOf, Descriptors DEF free_watches, new_watch
  <2>2. i \in Watches /\ ~t[i].used
    BY <2>1 DEF free_watches
  <2>3. w \in WatchType /\ w.used /\ w.fd = fd /\ w.in = in
    BY Descriptors DEF WatchType
  <2>4. Cardinality(S) < FAKE_EPOLL_WATCH_COUNT
    <3>1. UsedIn(t) # Watches
      BY <2>2 DEF UsedIn
    <3> QED
      BY <1>1, <3>1, PairsCounted, DescriptorAssumption
  <2>5. Space!Interest(S, fd) = {}
    <3>1. \A j \in UsedIn(t) : t[j].fd # fd
      BY <1>4 DEF watches_of, UsedIn
    <3> QED
      BY <1>1, <3>1, PairsOfOne
  <2> HIDE DEF w
  <2>6. interest' = [interest EXCEPT ![epfd] = Pairs([t EXCEPT ![i] = w])]
    BY <1>1, <1>4, <2>1, <2>2, InterestSet DEF is_epoll
  <2>7. Pairs([t EXCEPT ![i] = w]) = S \cup {<<fd, in>>}
    BY <1>1, <2>2, <2>3, PairsFilled
  <2>8. S \cup {<<fd, in>>} = (S \ Space!Interest(S, fd)) \cup {<<fd, in>>}
    BY <2>5
  <2>9. interest' = [interest EXCEPT ![epfd] = S \cup {<<fd, in>>}]
    BY <2>6, <2>7
  <2> HIDE DEF t
  <2> QED
    BY <1>1, <1>4, <2>4, <2>8, <2>9, ControlSteps
<1> QED
  BY <1>2, <1>3, <1>4 DEF epoll_ctl_add

(* The entry of a descriptor is changed, or emptied.                        *)
LEMMA ChangeSteps ==
  ASSUME IInv, NEW epfd, is_epoll(epfd), NEW fd \in Fds, watches_of(epfd, fd) # {},
         NEW w \in WatchType, w.used => w.fd = fd,
         SetWatch(epfd, Least(watches_of(epfd, fd)), w),
         Returns(0), UNCHANGED fake_eventfds
  PROVE  Steps
<1> DEFINE t == fake_epolls[epfd].watches
           S == interest[epfd]
           old == Space!Interest(S, fd)
           T == (S \ old) \cup (IF w.used THEN {<<w.fd, w.in>>} ELSE {})
<1>1. /\ epfd \in EpollFds /\ epfd \in DOMAIN interest
      /\ t \in WatchTables /\ NoTwice(t) /\ S = Pairs(t)
  BY TableOf
<1>2. PICK i \in watches_of(epfd, fd) : i = Least(watches_of(epfd, fd))
  BY LeastOf, Descriptors DEF watches_of
<1>3. i \in Watches /\ i \in UsedIn(t) /\ t[i].fd = fd
  BY <1>2 DEF watches_of, UsedIn
<1>4. old = {Pair(t, i)} /\ old # {}
  BY <1>1, <1>3, PairsOfOne
<1>5. interest' = [interest EXCEPT ![epfd] = Pairs([t EXCEPT ![i] = w])]
  BY <1>1, <1>2, <1>3, InterestSet DEF is_epoll
<1>6. Pairs([t EXCEPT ![i] = w]) = T
  BY <1>1, <1>3, <1>4, PairsChanged
<1>7. CASE w.used
  <2>1. T = (S \ old) \cup {<<fd, w.in>>} /\ w.in \in BOOLEAN
    BY <1>7 DEF WatchType
  <2> HIDE DEF T, t
  <2> QED
    BY <1>1, <1>4, <1>5, <1>6, <2>1, ControlSteps
<1>8. CASE ~w.used
  <2>1. T = S \ old
    BY <1>8
  <2> HIDE DEF T, t
  <2> QED
    BY <1>1, <1>4, <1>5, <1>6, <2>1, ControlSteps
<1> QED
  BY <1>7, <1>8

LEMMA EpollCtlSteps ==
  ASSUME IInv, NEW epfd, NEW op, NEW fd \in Fds, NEW in \in BOOLEAN,
         epoll_ctl(epfd, op, fd, in)
  PROVE  Steps
<1>1. CASE Refused("syscall") \/ Refused("EINVAL") \/ Refused("ENOENT")
  BY <1>1, RefusedSteps DEF Refused
<1>2. CASE is_epoll(epfd) /\ epoll_ctl_mod(epfd, fd, in)
  <2> DEFINE w == [used |-> TRUE, fd |-> fd, in |-> in]
  <2>1. w \in WatchType /\ w.fd = fd
    BY Descriptors DEF WatchType
  <2> QED
    BY <1>1, <1>2, <2>1, ChangeSteps DEF epoll_ctl_mod
<1>3. CASE is_epoll(epfd) /\ epoll_ctl_del(epfd, fd)
  <2>1. UnusedWatch \in WatchType /\ ~UnusedWatch.used
    BY DEF UnusedWatch, WatchType
  <2> QED
    BY <1>1, <1>3, <2>1, ChangeSteps DEF epoll_ctl_del
<1> QED
  BY <1>1, <1>2, <1>3, AddSteps DEF epoll_ctl

(* What epoll_wait finds in its table is what is ready and watched.         *)
Ready(epfd) == {fd \in DOMAIN events : events[fd] > 0 /\ <<fd, TRUE>> \in interest[epfd]}

LEMMA ReportableIsReady ==
  ASSUME IInv, NEW epfd, is_epoll(epfd)
  PROVE  /\ reportable(epfd) \in SUBSET Watches
         /\ \A i \in reportable(epfd) : fake_epolls[epfd].watches[i].fd \in Ready(epfd)
         /\ \A fd \in Ready(epfd) : \E i \in reportable(epfd) :
              fake_epolls[epfd].watches[i].fd = fd
         /\ \A i, j \in reportable(epfd) :
              fake_epolls[epfd].watches[i].fd = fake_epolls[epfd].watches[j].fd => i = j
<1> DEFINE t == fake_epolls[epfd].watches
<1>1. t \in WatchTables /\ NoTwice(t) /\ interest[epfd] = Pairs(t)
  BY TableOf
<1>2. \A i : i \in reportable(epfd) <=>
              /\ i \in UsedIn(t) /\ t[i].in
              /\ t[i].fd \in DOMAIN events /\ events[t[i].fd] > 0
  BY EventsAre DEF reportable, UsedIn, is_eventfd
<1>3. \A p : p \in Pairs(t) <=> \E i \in UsedIn(t) : p = Pair(t, i)
  BY <1>1, PairsAre
<1>4. UsedIn(t) \in SUBSET Watches /\ \A i \in UsedIn(t) : t[i].in \in BOOLEAN
  BY <1>1 DEF UsedIn, WatchTables, WatchType
<1>5. \A i, j \in UsedIn(t) : t[i].fd = t[j].fd => i = j
  BY <1>1 DEF NoTwice, UsedIn
<1> HIDE DEF t
<1>6. ASSUME NEW i \in reportable(epfd) PROVE t[i].fd \in Ready(epfd)
  <2>1. Pair(t, i) = <<t[i].fd, TRUE>>
    BY <1>2, <1>4, <1>6 DEF Pair
  <2>2. <<t[i].fd, TRUE>> \in interest[epfd]
    BY <1>1, <1>2, <1>3, <1>6, <2>1
  <2> QED
    BY <1>2, <1>6, <2>2 DEF Ready
<1>7. ASSUME NEW fd \in Ready(epfd) PROVE \E i \in reportable(epfd) : t[i].fd = fd
  <2>1. PICK i \in UsedIn(t) : <<fd, TRUE>> = Pair(t, i)
    BY <1>1, <1>3, <1>7 DEF Ready
  <2>2. t[i].fd = fd /\ t[i].in = TRUE
    BY <2>1 DEF Pair
  <2> QED
    BY <1>2, <1>7, <2>1, <2>2 DEF Ready
<1>8. reportable(epfd) \in SUBSET Watches
  BY <1>2, <1>4
<1>9. \A i, j \in reportable(epfd) : t[i].fd = t[j].fd => i = j
  BY <1>2, <1>5
<1> QED
  BY <1>6, <1>7, <1>8, <1>9 DEF t

LEMMA EpollWaitSteps ==
  ASSUME IInv, NEW epfd \in EpollFds, NEW maxevents \in {0, 1, FAKE_EVENTFD_COUNT},
         epoll_wait(epfd, maxevents)
  PROVE  Steps
<1>1. CASE Refused("syscall") \/ Refused("EINVAL")
  BY <1>1, RefusedSteps DEF Refused
<1>2. CASE is_epoll(epfd) /\ maxevents > 0 /\ ~(Refused("syscall") \/ Refused("EINVAL"))
  <2> DEFINE t == fake_epolls[epfd].watches
             S == reportable(epfd)
             first == First(S, maxevents)
             ready == {t[i].fd : i \in first}
             g == [i \in S |-> t[i].fd]
             h == [i \in first |-> t[i].fd]
  <2>1. Reports(ready) /\ UNCHANGED <<fake_eventfds, fake_epolls>>
    BY <1>2 DEF epoll_wait, First
  <2>2. /\ S \in SUBSET Watches
        /\ \A i \in S : t[i].fd \in Ready(epfd)
        /\ \A fd \in Ready(epfd) : \E i \in S : t[i].fd = fd
        /\ \A i, j \in S : t[i].fd = t[j].fd => i = j
    BY <1>2, ReportableIsReady
  <2>3. first \in SUBSET S
    BY DEF First
  <2> HIDE DEF S, t
  <2>4. maxevents \in 1 .. Cardinality(EventFds) /\ maxevents \in Nat
    <3>1. Cardinality(EventFds) = FAKE_EVENTFD_COUNT
      BY DescriptorAssumption, FS_Interval DEF EventFds
    <3> QED
      BY <1>2, <3>1, DescriptorAssumption
  <2>5. /\ IsFiniteSet(S) /\ Cardinality(S) \in Nat
        /\ Cardinality(first) = IF Cardinality(S) < maxevents THEN Cardinality(S) ELSE maxevents
    <3>1. FAKE_EPOLL_WATCH_COUNT \in Nat /\ Watches = 1 .. FAKE_EPOLL_WATCH_COUNT
      BY DescriptorAssumption DEF Watches
    <3> HIDE DEF first
    <3> QED
      BY <2>2, <2>4, <3>1, FirstHasAll DEF first
  <2>6. Cardinality(Ready(epfd)) = Cardinality(S)
    <3>1. /\ g \in [S -> Ready(epfd)]
          /\ \A fd \in Ready(epfd) : \E i \in S : g[i] = fd
          /\ \A i, j \in S : g[i] = g[j] => i = j
      BY <2>2
    <3> HIDE DEF g
    <3> QED
      BY <2>5, <3>1, AsMany
  <2> HIDE DEF first
  <2>7. IsFiniteSet(first)
    BY <2>3, <2>5, FS_Subset
  <2>8. Cardinality(ready) = Cardinality(first)
    <3>1. /\ h \in [first -> ready]
          /\ \A fd \in ready : \E i \in first : h[i] = fd
          /\ \A i, j \in first : h[i] = h[j] => i = j
      BY <2>2, <2>3
    <3> HIDE DEF h, ready
    <3> QED
      BY <2>7, <3>1, AsMany
  <2>9. ready \in SUBSET Ready(epfd)
    BY <2>2, <2>3
  <2> HIDE DEF ready
  <2>10. reply'.ret = Cardinality(ready) /\ reply'.ready = ready /\ reply'.waited
    BY <2>1, ReportsThat
  <2>11. UNCHANGED <<events, interest>> /\ epfd \in DOMAIN interest
    BY <1>2, <2>1, Unseen, TableOf
  <2>12. Space!Wait(epfd, maxevents)
    BY <2>5, <2>6, <2>8, <2>9, <2>10, <2>11, SameCardinality DEF Space!Wait, Ready
  <2> QED
    BY <2>4, <2>10, <2>11, <2>12, SameCardinality DEF Steps, Space!Next
<1> QED
  BY <1>1, <1>2 DEF epoll_wait

-----------------------------------------------------------------------------
(* Reading and writing.                                                     *)

(* Values are handed over and taken from the count.                         *)
LEMMA TakingSteps ==
  ASSUME IInv, NEW fd, is_eventfd(fd), NEW event \in EventType,
         event.used = fake_eventfds[fd].used,
         fake_eventfds' = [fake_eventfds EXCEPT ![fd] = event],
         NEW vs \in Seq(Nat), vs # <<>>, \A i \in DOMAIN vs : vs[i] > 0,
         event.counter = fake_eventfds[fd].counter - Total(vs),
         Reads(vs), UNCHANGED fake_epolls
  PROVE  Steps
<1>1. /\ fd \in DOMAIN events /\ events[fd] = fake_eventfds[fd].counter
      /\ events' = [events EXCEPT ![fd] = event.counter]
  BY EventSet DEF is_eventfd
<1>2. reply'.values = vs /\ reply'.ret > 0 /\ ~reply'.waited
  BY ReadsSucceed
<1>3. events' = [events EXCEPT ![fd] = @ - Space!FoldLeft(+, 0, reply'.values)]
  <2>1. Space!FoldLeft(+, 0, reply'.values) = Total(vs)
    BY <1>2, SameTotal
  <2> QED
    BY <1>1, <2>1
<1>4. UNCHANGED interest
  BY Unseen
<1>5. Space!Count
  BY <1>1, <1>2, <1>3, <1>4 DEF Space!Count
<1> QED
  BY <1>2, <1>5 DEF Steps, Space!Next

LEMMA ReadSteps ==
  ASSUME IInv, NEW fd \in EventFds, NEW count \in Counts, read(fd, count)
  PROVE  Steps
<1> DEFINE e == fake_eventfds[fd]
           r == read_counter(e, count)
<1>1. CASE ~is_eventfd(fd)
  BY <1>1, RefusedSteps DEF read, Refused
<1>2. CASE is_eventfd(fd)
  <2>1. e \in EventType /\ count \in Nat /\ Taken(e, r)
    BY ReadCounter, DescriptorAssumption DEF IInv, Tables
  <2>2. IF r.err # "" THEN Refused(r.err)
        ELSE /\ fake_eventfds' = [fake_eventfds EXCEPT ![fd] = r.event]
             /\ Reads(<<r.value>>)
             /\ UNCHANGED <<fake_epolls, watched>>
    BY <1>2 DEF read
  <2> HIDE DEF r
  <2>3. CASE r.err # ""
    <3>1. r.err = "EAGAIN" => fd \in DOMAIN events /\ events[fd] = 0
      BY <1>2, <2>1, EventsAre DEF Taken, is_eventfd
    <3>2. r.err # "ENOSPC"
      BY <2>1 DEF Taken, Errors
    <3> QED
      BY <2>2, <2>3, <3>1, <3>2, RefusedSteps DEF Refused
  <2>4. CASE r.err = ""
    <3> DEFINE vs == <<r.value>>
    <3>1. r.value \in Nat \ {0} /\ r.event.counter = e.counter - r.value
          /\ r.event \in EventType /\ r.event.used = e.used
      BY <2>1, <2>4 DEF Taken
    <3>2. vs \in Seq(Nat) /\ vs # <<>> /\ vs = Append(<<>>, r.value)
      BY <3>1
    <3>3. \A i \in DOMAIN vs : vs[i] > 0
      BY <3>1
    <3>4. Total(vs) = r.value
      <4>1. <<>> \in Seq(Nat)
        OBVIOUS
      <4>2. Total(Append(<<>>, r.value)) = Total(<<>>) + r.value
        BY <3>1, <4>1, TotalOf
      <4> QED
        BY <3>1, <3>2, <4>2, TotalOf
    <3> HIDE DEF vs
    <3> QED
      BY <1>2, <2>2, <2>4, <3>1, <3>2, <3>3, <3>4, TakingSteps DEF vs
  <2> QED
    BY <2>3, <2>4
<1> QED
  BY <1>1, <1>2

LEMMA ReadvSteps ==
  ASSUME IInv, NEW fd \in EventFds, NEW counts \in BoundedSeq(Counts, MaxBuffers),
         readv(fd, counts)
  PROVE  Steps
<1> DEFINE e == fake_eventfds[fd]
           r == FoldLeft(read_buffer, Beginning(e), counts)
           event == [e EXCEPT !.counter = r.event.counter]
<1>1. CASE ~is_eventfd(fd)
  BY <1>1, RefusedSteps DEF readv, Refused
<1>2. CASE is_eventfd(fd)
  <2>1. e \in EventType /\ e.counter \in Nat
    BY DescriptorAssumption DEF IInv, Tables, EventType, Counters
  <2>2. r \in Progress(e)
    BY <2>1, ReadvOf
  <2>3. /\ fake_eventfds' = [fake_eventfds EXCEPT ![fd] = event]
        /\ IF readv_fails(r) THEN Fails(r.err) ELSE Reads(r.values)
        /\ UNCHANGED <<fake_epolls, watched>>
    BY <1>2 DEF readv, Beginning
  <2> HIDE DEF r
  <2>4. /\ r.values \in Seq(Nat) /\ Underway(e, r)
        /\ r.err \in Errors /\ r.event.counter \in Counters
    BY <2>2 DEF Progress, EventType
  <2>5. event \in EventType /\ event.used = e.used /\ event.counter = r.event.counter
    BY <2>1, <2>4, WithCounter
  <2>6. r.values = <<>> => UNCHANGED fake_eventfds
    <3> SUFFICES ASSUME r.values = <<>> PROVE UNCHANGED fake_eventfds
      OBVIOUS
    <3>1. r.event.counter = e.counter - 0
      BY <2>4, TotalOf DEF Underway
    <3>2. r.event.counter = e.counter
      BY <2>1, <3>1
    <3>3. event = e
      BY <2>1, <3>2 DEF EventType
    <3> QED
      BY <2>3, <3>3 DEF IInv, Tables
  <2> HIDE DEF event
  <2>7. CASE readv_fails(r)
    <3>1. r.values = <<>> /\ Fails(r.err)
      BY <2>3, <2>7 DEF readv_fails
    <3>2. r.err = "EAGAIN" => fd \in DOMAIN events /\ events[fd] = 0
      BY <1>2, <2>4, <3>1, EventsAre DEF Underway, is_eventfd
    <3>3. r.err # "ENOSPC"
      BY <2>4 DEF Errors
    <3> QED
      BY <2>3, <2>6, <3>1, <3>2, <3>3, RefusedSteps
  <2>8. CASE ~readv_fails(r) /\ r.values = <<>>
    <3>1. Reads(r.values)
      BY <2>3, <2>8
    <3>2. reply'.ret = 0 /\ ~reply'.waited
      BY <2>4, <2>8, <3>1, ReadsSucceed
    <3>3. UNCHANGED <<events, interest>>
      BY <2>3, <2>6, <2>8, Unseen
    <3> QED
      BY <3>2, <3>3 DEF Steps, Space!Next, Space!Look
  <2>9. CASE ~readv_fails(r) /\ r.values # <<>>
    <3>1. Reads(r.values) /\ UNCHANGED fake_epolls
      BY <2>3, <2>9
    <3>2. \A i \in DOMAIN r.values : r.values[i] > 0
      BY <2>4 DEF Underway
    <3>3. event.counter = e.counter - Total(r.values)
      BY <2>4, <2>5 DEF Underway
    <3> QED
      BY <1>2, <2>3, <2>4, <2>5, <2>9, <3>1, <3>2, <3>3, TakingSteps
  <2> QED
    BY <2>7, <2>8, <2>9
<1> QED
  BY <1>1, <1>2

LEMMA WriteSteps ==
  ASSUME IInv, NEW fd \in EventFds, NEW count \in Counts, NEW value \in Values,
         write(fd, count, value)
  PROVE  Steps
<1>1. CASE Refused("syscall") \/ Refused("EINVAL")
  BY <1>1, RefusedSteps DEF Refused
<1>2. CASE /\ is_eventfd(fd) /\ Returns(ValueSize) /\ UNCHANGED fake_epolls
           /\ fake_eventfds' = [fake_eventfds EXCEPT ![fd].counter = add(@, value)]
  <2> DEFINE n == add(fake_eventfds[fd].counter, value)
             event == [fake_eventfds[fd] EXCEPT !.counter = n]
  <2>1. fake_eventfds[fd] \in EventType /\ fake_eventfds[fd].used
    BY <1>2 DEF IInv, Tables, is_eventfd
  <2>2. n \in Counters
    BY <2>1, AddKeeps DEF EventType
  <2>3. event.used /\ event.counter = n
    BY <2>1, <2>2, WithCounter
  <2>4. fake_eventfds' = [fake_eventfds EXCEPT ![fd] = event]
    BY <1>2
  <2> HIDE DEF event, n
  <2>5. /\ fd \in DOMAIN events /\ events[fd] = fake_eventfds[fd].counter
        /\ events' = [events EXCEPT ![fd] = event.counter]
    BY <1>2, <2>3, <2>4, EventSet
  <2>6. events' = [events EXCEPT ![fd] = (@ + value) % CounterModulus]
    BY <2>3, <2>5 DEF add, n
  <2>7. reply'.ret = ValueSize /\ reply'.values = <<>> /\ ~reply'.waited
    BY <1>2, ReturnsThat
  <2>8. reply'.ret > 0
    BY <2>7, DescriptorAssumption
  <2>9. UNCHANGED interest
    BY <1>2, Unseen
  <2>10. Space!Count
    BY <2>5, <2>6, <2>7, <2>8, <2>9 DEF Space!Count
  <2> QED
    BY <2>7, <2>10 DEF Steps, Space!Next
<1> QED
  BY <1>1, <1>2 DEF write

(* fcntl changes no count.                                                  *)
LEMMA FcntlSteps ==
  ASSUME IInv, NEW fd \in Fds, NEW cmd, NEW semaphore \in BOOLEAN,
         fcntl(fd, cmd, semaphore)
  PROVE  Steps
<1>1. CASE Refused("EMFILE") \/ Refused("EINVAL")
  BY <1>1, RefusedSteps DEF Refused
<1>2. CASE Returns(0) /\ UNCHANGED <<fake_eventfds, fake_epolls>>
  BY <1>2, LooksSteps, Unseen
<1>3. CASE /\ is_eventfd(fd) /\ Returns(0) /\ UNCHANGED fake_epolls
           /\ fake_eventfds' = [fake_eventfds EXCEPT ![fd].semaphore = semaphore]
  <2> DEFINE event == [fake_eventfds[fd] EXCEPT !.semaphore = semaphore]
  <2>1. fake_eventfds[fd] \in EventType /\ fake_eventfds[fd].used
    BY <1>3 DEF IInv, Tables, is_eventfd
  <2>2. event.used /\ event.counter = fake_eventfds[fd].counter
    BY <2>1 DEF EventType
  <2>3. fake_eventfds' = [fake_eventfds EXCEPT ![fd] = event]
    BY <1>3
  <2> HIDE DEF event
  <2>4. /\ fd \in DOMAIN events /\ events[fd] = event.counter
        /\ events' = [events EXCEPT ![fd] = event.counter]
    BY <1>3, <2>2, <2>3, EventSet
  <2>5. UNCHANGED events
    BY <2>4, EventsAre
  <2> QED
    BY <1>3, <2>5, LooksSteps, Unseen
<1> QED
  BY <1>1, <1>2, <1>3 DEF fcntl

(* The tables of the fake descriptors, with their holes and their first free *)
(* entries, are event counters and sets of interests, whatever their sizes  *)
(* (ruby_syscall_poll.c:146-240, 268-480).                                  *)
THEOREM TablesAreEventSpace == Spec => IsEventSpace
<1>1. Init => Space!Init
  <2> SUFFICES ASSUME Init PROVE Space!Init
    OBVIOUS
  <2>1. {fd \in EventFds : fake_eventfds[fd].used} = {}
    BY DEF Init, UnusedEventfd
  <2>2. {fd \in EpollFds : fake_epolls[fd].used} = {}
    BY DEF Init, UnusedEpoll
  <2>3. events = <<>>
    BY <2>1 DEF events
  <2>4. interest = <<>>
    BY <2>2 DEF interest
  <2> QED
    BY <2>3, <2>4 DEF Init, Space!Init
<1>2. IInv /\ [Next]_vars => [Space!Next]_Space!space
  <2> SUFFICES ASSUME IInv, [Next]_vars PROVE Steps
    BY DEF Steps
  <2>1. CASE Create
    BY <2>1, CreateSteps
  <2>2. CASE Watch
    BY <2>2, EpollCtlSteps, EpollWaitSteps DEF Watch
  <2>3. CASE Use
    BY <2>3, ReadSteps, ReadvSteps, WriteSteps, CloseSteps, FcntlSteps DEF Use
  <2>4. CASE UNCHANGED vars
    BY <2>4, Unseen DEF vars, Steps, Space!space
  <2> QED
    BY <2>1, <2>2, <2>3, <2>4 DEF Next
<1> QED
  BY <1>1, <1>2, Invariant, PTL DEF Spec, IsEventSpace, Space!Spec
=============================================================================
