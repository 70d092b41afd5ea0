---------------------------- MODULE FakeFdsProofs -----------------------------
(***************************************************************************)
(* What holds of FakeFds for every number of descriptors, of watches and of *)
(* buffers: of its counters, of its tables, and of both as an EventSpace.   *)
(***************************************************************************)
EXTENDS FakeFds, FoldLemmas

EventType == [used : BOOLEAN, semaphore : BOOLEAN, counter : Counters]

Errors == {"", "EINVAL", "EAGAIN"}

(* An eventfd whose counter is set.                                         *)
LEMMA WithCounter ==
  ASSUME NEW e \in EventType, NEW n \in Counters
  PROVE  /\ [e EXCEPT !.counter = n] \in EventType
         /\ [e EXCEPT !.counter = n].used = e.used
         /\ [e EXCEPT !.counter = n].semaphore = e.semaphore
         /\ [e EXCEPT !.counter = n].counter = n
BY DEF EventType

(* What read does to a counter: what it hands over it takes, and that is    *)
(* something; a failure takes nothing.                                      *)
Taken(e, r) ==
  /\ r.event \in EventType /\ r.err \in Errors
  /\ r.event.used = e.used /\ r.event.semaphore = e.semaphore
  /\ r.err # "" => r.event = e
  /\ r.err = "EAGAIN" => e.counter = 0
  /\ r.err = "" => r.value \in Nat \ {0} /\ r.event.counter = e.counter - r.value

LEMMA ReadCounter ==
  ASSUME NEW e \in EventType, NEW count \in Nat
  PROVE  Taken(e, read_counter(e, count))
<1> DEFINE r == read_counter(e, count)
<1> SUFFICES Taken(e, r)
  OBVIOUS
<1>1. /\ e.counter \in 0 .. (CounterModulus - 1) /\ CounterModulus \in Nat \ {0}
      /\ ValueSize \in Nat \ {0}
  BY DescriptorAssumption DEF EventType, Counters
<1>2. CASE count < ValueSize
  BY <1>2 DEF read_counter, Taken, Errors
<1>3. CASE ~(count < ValueSize) /\ e.counter = 0
  BY <1>3 DEF read_counter, Taken, Errors
<1>4. CASE ~(count < ValueSize) /\ e.counter # 0 /\ e.semaphore
  <2> DEFINE f == [e EXCEPT !.counter = e.counter - 1]
  <2>1. r = [event |-> f, value |-> 1, err |-> ""]
    BY <1>4 DEF read_counter
  <2>2. e.counter - 1 \in Counters
    BY <1>1, <1>4 DEF Counters
  <2>3. /\ f \in EventType /\ f.used = e.used /\ f.semaphore = e.semaphore
        /\ f.counter = e.counter - 1
    BY <2>2, WithCounter
  <2> HIDE DEF f, r
  <2>4. r.event = f /\ r.value = 1 /\ r.err = ""
    BY <2>1
  <2>5. r.value \in Nat \ {0}
    <3>1. 1 \in Nat \ {0}
      OBVIOUS
    <3> QED
      BY <2>4, <3>1, Zenon
  <2>6. r.event.counter = e.counter - r.value
    BY <2>3, <2>4
  <2> QED
    BY <2>3, <2>4, <2>5, <2>6 DEF Taken, Errors
<1>5. CASE ~(count < ValueSize) /\ e.counter # 0 /\ ~e.semaphore
  <2> DEFINE f == [e EXCEPT !.counter = 0]
  <2>1. r = [event |-> f, value |-> e.counter, err |-> ""]
    BY <1>5 DEF read_counter
  <2>2. 0 \in Counters /\ e.counter \in Nat \ {0} /\ 0 = e.counter - e.counter
    BY <1>1, <1>5 DEF Counters
  <2>3. /\ f \in EventType /\ f.used = e.used /\ f.semaphore = e.semaphore
        /\ f.counter = 0
    BY <2>2, WithCounter
  <2> HIDE DEF f, r
  <2>4. r.event = f /\ r.value = e.counter /\ r.err = ""
    BY <2>1
  <2> QED
    BY <2>2, <2>3, <2>4 DEF Taken, Errors
<1> QED
  BY <1>2, <1>3, <1>4, <1>5

(* The values handed over so far.                                           *)
LEMMA TotalOf ==
  /\ Total(<<>>) = 0
  /\ \A s \in Seq(Nat) : Total(s) \in Nat
  /\ \A s \in Seq(Nat), x \in Nat : Total(Append(s, x)) = Total(s) + x
BY SumEmpty, SumAppend DEF Total

(* A readv of event e that has come some way.                               *)
Beginning(e) == [event |-> e, values |-> <<>>, err |-> "", over |-> FALSE]

Underway(e, a) ==
  /\ a.event.used = e.used /\ a.event.semaphore = e.semaphore
  /\ \A i \in DOMAIN a.values : a.values[i] > 0
  /\ a.event.counter = e.counter - Total(a.values)
  /\ a.err = "EAGAIN" /\ a.values = <<>> => e.counter = 0

Progress(e) ==
  {a \in [event : EventType, values : Seq(Nat), err : Errors, over : BOOLEAN] :
     Underway(e, a)}

LEMMA BeginsUnderway ==
  ASSUME NEW e \in EventType
  PROVE  Beginning(e) \in Progress(e)
<1>1. e.counter \in Nat
  BY DescriptorAssumption DEF EventType, Counters
<1>2. Underway(e, Beginning(e))
  BY <1>1, TotalOf DEF Underway, Beginning
<1>3. Beginning(e) \in [event : EventType, values : Seq(Nat), err : Errors, over : BOOLEAN]
  <2>1. <<>> \in Seq(Nat) /\ "" \in Errors /\ FALSE \in BOOLEAN
    BY DEF Errors
  <2> QED
    BY <2>1 DEF Beginning
<1> QED
  BY <1>2, <1>3 DEF Progress

(* One buffer takes a readv further.                                        *)
LEMMA BufferProgresses ==
  ASSUME NEW e \in EventType, NEW a \in Progress(e), NEW count \in Nat
  PROVE  read_buffer(a, count) \in Progress(e)
<1> DEFINE r == read_counter(a.event, count)
<1>1. /\ a \in [event : EventType, values : Seq(Nat), err : Errors, over : BOOLEAN]
      /\ Underway(e, a)
  BY DEF Progress
<1>2. Taken(a.event, r)
  <2>1. a.event \in EventType
    BY <1>1
  <2> QED
    BY <2>1, ReadCounter
<1>3. CASE a.over \/ count = 0
  BY <1>3 DEF read_buffer
<1>4. CASE ~(a.over \/ count = 0) /\ r.err # ""
  <2> DEFINE b == [a EXCEPT !.err = r.err, !.over = TRUE]
  <2>1. read_buffer(a, count) = b
    BY <1>4 DEF read_buffer
  <2>2. b \in [event : EventType, values : Seq(Nat), err : Errors, over : BOOLEAN]
    BY <1>1, <1>2 DEF Taken
  <2>3. b.event = a.event /\ b.values = a.values /\ b.err = r.err
    BY <1>1
  <2>4. r.err = "EAGAIN" /\ a.values = <<>> => e.counter = 0
    <3>1. e.counter \in Nat
      BY DescriptorAssumption DEF EventType, Counters
    <3> HIDE DEF r
    <3>2. ASSUME r.err = "EAGAIN", a.values = <<>> PROVE e.counter = 0
      <4>1. a.event.counter = 0 /\ a.event.counter = e.counter - Total(<<>>)
        BY <1>1, <1>2, <3>2 DEF Taken, Underway
      <4> QED
        BY <3>1, <4>1, TotalOf
    <3> QED
      BY <3>2
  <2> HIDE DEF b, r
  <2>5. Underway(e, b)
    BY <1>1, <2>3, <2>4 DEF Underway
  <2> QED
    BY <2>1, <2>2, <2>5 DEF Progress
<1>5. CASE ~(a.over \/ count = 0) /\ r.err = ""
  <2> DEFINE b == [event |-> r.event, values |-> Append(a.values, r.value), err |-> "",
                   over |-> count # ValueSize]
  <2>1. read_buffer(a, count) = b
    BY <1>5 DEF read_buffer
  <2>2. r.value \in Nat \ {0} /\ r.event.counter = a.event.counter - r.value
    BY <1>2, <1>5 DEF Taken
  <2>3. a.values \in Seq(Nat)
    BY <1>1
  <2>4. b \in [event : EventType, values : Seq(Nat), err : Errors, over : BOOLEAN]
    <3>1. (count # ValueSize) \in BOOLEAN
      OBVIOUS
    <3>2. Append(a.values, r.value) \in Seq(Nat) /\ "" \in Errors
      BY <2>2, <2>3 DEF Errors
    <3> HIDE DEF r
    <3> QED
      BY <1>2, <3>1, <3>2 DEF Taken
  <2>5. Underway(e, b)
    <3> HIDE DEF r
    <3>1. \A i \in DOMAIN b.values : b.values[i] > 0
      <4>1. \A i \in 1 .. Len(a.values) : a.values[i] > 0
        BY <1>1, <2>3 DEF Underway
      <4> QED
        BY <2>2, <2>3, <4>1
    <3>2. Total(b.values) = Total(a.values) + r.value /\ Total(a.values) \in Nat
      BY <2>2, <2>3, TotalOf
    <3>3. e.counter \in Nat
      BY DescriptorAssumption DEF EventType, Counters
    <3>4. b.event.counter = e.counter - Total(b.values)
      BY <1>1, <2>2, <3>2, <3>3 DEF Underway
    <3> QED
      BY <1>1, <1>2, <3>1, <3>4 DEF Taken, Underway
  <2> QED
    BY <2>1, <2>4, <2>5 DEF Progress
<1> QED
  BY <1>3, <1>4, <1>5

(* A readv of any number of buffers: what it has handed over it has taken.  *)
LEMMA ReadvProgresses ==
  ASSUME NEW e \in EventType, NEW counts \in Seq(Nat)
  PROVE  FoldLeft(read_buffer, Beginning(e), counts) \in Progress(e)
<1> DEFINE n == Len(counts)
           A == Progress(e)
           F == [p \in A \X Nat |-> read_buffer(p[1], p[2])]
           Rec(g) == g = [s \in SUBSET (DOMAIN counts) |->
                            IF s = {} THEN Beginning(e)
                            ELSE read_buffer(g[s \ {Max(s)}], counts[Max(s)])]
           fold == CHOOSE g : Rec(g)
<1>1. n \in Nat /\ DOMAIN counts = 1 .. n /\ counts \in [1 .. n -> Nat]
  OBVIOUS
<1>2. Beginning(e) \in A
  BY BeginsUnderway
<1>3. /\ F \in [A \X Nat -> A]
      /\ \A a \in A, count \in Nat :
           F[<<a, count>>] = read_buffer(a, count) /\ read_buffer(a, count) \in A
  BY BufferProgresses
<1>4. FoldLeft(read_buffer, Beginning(e), counts) = fold[DOMAIN counts]
  BY DEF FoldLeft, MapThenFoldSet
<1> HIDE DEF F, n, A
<1>5. PICK f \in [SUBSET (1 .. n) -> A] : Folds(f, F, Beginning(e), counts, n)
  BY <1>1, <1>2, <1>3, FoldExists
<1>6. ASSUME NEW s \in SUBSET (1 .. n), s # {}
      PROVE  s \ {Max(s)} \in SUBSET (1 .. n) /\ counts[Max(s)] \in Nat
  BY <1>1, <1>6, MaxOf
<1>7. Rec(f)
  <2>1. ASSUME NEW s \in SUBSET (1 .. n)
        PROVE  f[s] = IF s = {} THEN Beginning(e)
                      ELSE read_buffer(f[s \ {Max(s)}], counts[Max(s)])
    BY <1>3, <1>5, <1>6 DEF Folds
  <2> QED
    BY <1>1, <1>5, <2>1
<1>8. Rec(fold)
  BY <1>7
<1> HIDE DEF fold
<1>9. \A s \in SUBSET (1 .. n) : fold[s] \in A
  <2>1. fold[{}] \in A
    BY <1>2, <1>8
  <2>2. ASSUME NEW s \in SUBSET (1 .. n), s # {}, fold[s \ {Max(s)}] \in A
        PROVE  fold[s] \in A
    <3>1. fold[s] = read_buffer(fold[s \ {Max(s)}], counts[Max(s)])
      BY <1>1, <1>8, <2>2
    <3> QED
      BY <1>3, <1>6, <2>2, <3>1
  <2>3. n \in Nat
    BY <1>1
  <2> HIDE DEF Rec
  <2> QED
    BY <2>1, <2>2, <2>3, FoldStays, Zenon
<1> QED
  BY <1>1, <1>4, <1>9 DEF A

-----------------------------------------------------------------------------
WatchType == [used : BOOLEAN, fd : Nat, in : BOOLEAN]

(* The inductive invariant.  Two used entries of a table are of different   *)
(* descriptors; a closed epoll has none; and what is watched is open, at    *)
(* both ends, and has its entry.                                            *)
Tables ==
  /\ fake_eventfds \in [EventFds -> EventType]
  /\ fake_epolls \in [EpollFds -> [used : BOOLEAN, watches : [Watches -> WatchType]]]
  /\ watched \subseteq EpollFds \X EventFds

Entry(epfd, i) == fake_epolls[epfd].watches[i]

Unique ==
  \A epfd \in EpollFds :
    /\ \A i, j \in Watches :
         Entry(epfd, i).used /\ Entry(epfd, j).used /\ Entry(epfd, i).fd = Entry(epfd, j).fd
         => i = j
    /\ ~fake_epolls[epfd].used => \A i \in Watches : ~Entry(epfd, i).used

Backed ==
  \A w \in watched :
    /\ fake_epolls[w[1]].used /\ fake_eventfds[w[2]].used
    /\ \E i \in Watches : Entry(w[1], i).used /\ Entry(w[1], i).fd = w[2]

IInv == Tables /\ Unique /\ Backed

-----------------------------------------------------------------------------

(* The least of some numbers is one of them.                                *)
LEMMA LeastOf ==
  ASSUME NEW S \in SUBSET Nat, S # {}
  PROVE  Least(S) \in S
  <1>1. PICK m \in S : \A n \in S : ~(<<n, m>> \in OpToRel(<, Nat))
    BY NatLessThanWellFounded, WFMin
  <1>2. ASSUME NEW n \in S PROVE m <= n
    <2>1. m \in Nat /\ n \in Nat
      OBVIOUS
    <2>2. ~(n < m)
      BY <1>1, <2>1, Zenon DEF OpToRel
    <2> QED BY <2>1, <2>2
  <1> QED BY <1>2 DEF Least

(* A set whose elements are equal has one at most.                          *)
LEMMA AtMostOne ==
  ASSUME NEW S, \A i, j \in S : i = j
  PROVE  Cardinality(S) <= 1
  <1>1. CASE S = {}
    BY <1>1, FS_EmptySet
  <1>2. CASE S # {}
    <2>1. PICK i \in S : TRUE
      BY <1>2
    <2>2. S = {i}
      BY <2>1
    <2>3. Cardinality(S) = 1
      BY <2>2, FS_Singleton, Zenon
    <2> QED BY <2>3
  <1> QED BY <1>1, <1>2

(* eventfds and epolls have no descriptor in common.                        *)
LEMMA Descriptors ==
  /\ EventFds \subseteq Nat /\ EpollFds \subseteq Nat /\ Watches \subseteq Nat
  /\ Fds \subseteq Nat /\ EventFds \cap EpollFds = {} /\ EventFds \subseteq Fds
  BY DescriptorAssumption DEF EventFds, EpollFds, Watches, Fds

(* A call that touches no descriptor's use and no table of watches.         *)
LEMMA CountersOnly ==
  ASSUME IInv, UNCHANGED <<fake_epolls, watched>>,
         NEW fd \in EventFds, NEW event \in EventType,
         fake_eventfds' = [fake_eventfds EXCEPT ![fd] = event],
         event.used = fake_eventfds[fd].used
  PROVE  IInv'
  <1>1. \A f \in EventFds : fake_eventfds'[f].used = fake_eventfds[f].used
    BY DEF IInv, Tables
  <1>2. Tables'
    BY DEF IInv, Tables
  <1>3. Unique'
    BY DEF IInv, Unique, Entry
  <1>4. Backed'
    BY <1>1 DEF IInv, Tables, Backed, Entry
  <1> QED BY <1>2, <1>3, <1>4 DEF IInv

(* IInv, call by call.                                                      *)
LEMMA NothingChanges ==
  ASSUME IInv, UNCHANGED <<fake_eventfds, fake_epolls, watched>>
  PROVE  IInv'
  BY DEF IInv, Tables, Unique, Backed, Entry

(* One entry of the table of an open epoll is set.                          *)
LEMMA EntrySet ==
  ASSUME IInv, NEW epfd \in EpollFds, NEW i \in Watches, NEW w \in WatchType,
         fake_epolls[epfd].used, SetWatch(epfd, i, w), UNCHANGED fake_eventfds
  PROVE  /\ fake_epolls' \in [EpollFds -> [used : BOOLEAN, watches : [Watches -> WatchType]]]
         /\ \A e \in EpollFds : fake_epolls'[e].used = fake_epolls[e].used
         /\ Entry(epfd, i)' = w
         /\ \A e \in EpollFds, j \in Watches :
              e # epfd \/ j # i => Entry(e, j)' = Entry(e, j)
  BY DEF IInv, Tables, SetWatch, Entry

(* A watch is added where there was none, to an entry that was free.        *)
LEMMA AddStep ==
  ASSUME IInv, NEW epfd \in EpollFds, NEW fd \in Fds, NEW in \in BOOLEAN, is_epoll(epfd),
         epoll_ctl_add(epfd, fd, in)
  PROVE  IInv'
  <1> DEFINE first == Least(free_watches(epfd))
             w == [used |-> TRUE, fd |-> fd, in |-> in]
  <1>1. CASE UNCHANGED <<fake_eventfds, fake_epolls, watched>>
    BY <1>1, NothingChanges
  <1>2. CASE /\ watches_of(epfd, fd) = {} /\ free_watches(epfd) # {}
             /\ SetWatch(epfd, first, w)
             /\ watched' = IF is_eventfd(fd) THEN watched \cup {<<epfd, fd>>} ELSE watched
             /\ UNCHANGED fake_eventfds
    <2>1. PICK i \in free_watches(epfd) : i = first
      BY <1>2, LeastOf, Descriptors DEF free_watches
    <2>2. i \in Watches /\ ~Entry(epfd, i).used
      BY <2>1 DEF free_watches, Entry
    <2>3. w \in WatchType /\ w.used /\ w.fd = fd
      BY Descriptors DEF WatchType
    <2> HIDE DEF first, w
    <2>4. /\ fake_epolls' \in [EpollFds -> [used : BOOLEAN, watches : [Watches -> WatchType]]]
          /\ \A e \in EpollFds : fake_epolls'[e].used = fake_epolls[e].used
          /\ Entry(epfd, i)' = w
          /\ \A e \in EpollFds, j \in Watches :
               e # epfd \/ j # i => Entry(e, j)' = Entry(e, j)
      BY <1>2, <2>1, <2>2, <2>3, EntrySet DEF is_epoll
    <2>5. \A j \in Watches : Entry(epfd, j).used => Entry(epfd, j).fd # fd
      BY <1>2 DEF watches_of, Entry
    <2>6. Tables'
      BY <1>2, <2>4 DEF IInv, Tables, is_eventfd
    <2>7. Unique'
      <3>1. ASSUME NEW e \in EpollFds, NEW j \in Watches, NEW k \in Watches,
                   Entry(e, j).used', Entry(e, k).used', Entry(e, j).fd' = Entry(e, k).fd'
            PROVE  j = k
        <4>1. CASE e = epfd /\ (j = i \/ k = i)
          BY <2>3, <2>4, <2>5, <3>1, <4>1
        <4>2. CASE e # epfd \/ (j # i /\ k # i)
          BY <2>4, <3>1, <4>2 DEF IInv, Unique
        <4> QED BY <4>1, <4>2
      <3>2. ASSUME NEW e \in EpollFds, ~fake_epolls'[e].used, NEW j \in Watches
            PROVE  ~Entry(e, j).used'
        BY <2>4, <3>2 DEF IInv, Unique, is_epoll
      <3> QED BY <3>1, <3>2 DEF Unique
    <2>8. Backed'
      <3> SUFFICES ASSUME NEW p \in watched'
                   PROVE  /\ fake_epolls'[p[1]].used /\ fake_eventfds'[p[2]].used
                          /\ \E j \in Watches : Entry(p[1], j).used' /\ Entry(p[1], j).fd' = p[2]
        BY DEF Backed
      <3>1. CASE p = <<epfd, fd>> /\ is_eventfd(fd)
        BY <1>2, <2>2, <2>3, <2>4, <3>1 DEF is_eventfd, is_epoll
      <3>2. CASE p \in watched
        <4>1. p[1] \in EpollFds /\ p[2] \in EventFds
          BY <3>2 DEF IInv, Tables
        <4>2. PICK j \in Watches : Entry(p[1], j).used /\ Entry(p[1], j).fd = p[2]
          BY <3>2 DEF IInv, Backed
        <4>3. Entry(p[1], j)' = Entry(p[1], j)
          BY <2>2, <2>4, <4>1, <4>2
        <4> QED BY <1>2, <2>4, <3>2, <4>1, <4>2, <4>3 DEF IInv, Backed
      <3> QED BY <1>2, <3>1, <3>2
    <2> QED BY <2>6, <2>7, <2>8 DEF IInv
  <1> QED BY <1>1, <1>2 DEF epoll_ctl_add, new_watch, Refused

(* The first entry of a descriptor is its only one.                         *)
LEMMA ModStep ==
  ASSUME IInv, NEW epfd \in EpollFds, NEW fd \in Fds, NEW in \in BOOLEAN, is_epoll(epfd),
         epoll_ctl_mod(epfd, fd, in)
  PROVE  IInv'
  <1> DEFINE first == Least(watches_of(epfd, fd))
             w == [used |-> TRUE, fd |-> fd, in |-> in]
  <1>1. CASE UNCHANGED <<fake_eventfds, fake_epolls, watched>>
    BY <1>1, NothingChanges
  <1>2. CASE /\ watches_of(epfd, fd) # {}
             /\ SetWatch(epfd, first, w)
             /\ UNCHANGED <<fake_eventfds, watched>>
    <2>1. PICK i \in watches_of(epfd, fd) : i = first
      BY <1>2, LeastOf, Descriptors DEF watches_of
    <2>2. i \in Watches /\ Entry(epfd, i).used /\ Entry(epfd, i).fd = fd
      BY <2>1 DEF watches_of, Entry
    <2>3. w \in WatchType /\ w.used /\ w.fd = fd
      BY Descriptors DEF WatchType
    <2> HIDE DEF first, w
    <2>4. /\ fake_epolls' \in [EpollFds -> [used : BOOLEAN, watches : [Watches -> WatchType]]]
          /\ \A e \in EpollFds : fake_epolls'[e].used = fake_epolls[e].used
          /\ Entry(epfd, i)' = w
          /\ \A e \in EpollFds, j \in Watches :
               e # epfd \/ j # i => Entry(e, j)' = Entry(e, j)
      BY <1>2, <2>1, <2>2, <2>3, EntrySet DEF is_epoll
    <2>5. \A e \in EpollFds, j \in Watches : /\ Entry(e, j).used' = Entry(e, j).used
                                             /\ Entry(e, j).fd' = Entry(e, j).fd
      <3>1. Entry(epfd, i).used = TRUE /\ w.used = TRUE
        BY <2>2, <2>3 DEF IInv, Tables, WatchType, Entry
      <3> QED BY <2>2, <2>3, <2>4, <3>1
    <2>6. Tables'
      BY <1>2, <2>4 DEF IInv, Tables
    <2>7. Unique'
      BY <2>4, <2>5 DEF IInv, Unique
    <2>8. Backed'
      <3>1. \A p \in watched : p[1] \in EpollFds /\ p[2] \in EventFds
        BY DEF IInv, Tables
      <3>2. ASSUME NEW p \in watched
            PROVE  /\ fake_epolls'[p[1]].used /\ fake_eventfds[p[2]].used
                   /\ \E j \in Watches : Entry(p[1], j).used' /\ Entry(p[1], j).fd' = p[2]
        <4>1. p[1] \in EpollFds /\ fake_epolls[p[1]].used /\ fake_eventfds[p[2]].used
          BY <3>1 DEF IInv, Backed
        <4>2. PICK j \in Watches : Entry(p[1], j).used /\ Entry(p[1], j).fd = p[2]
          BY DEF IInv, Backed
        <4>3. fake_epolls'[p[1]].used
          BY <2>4, <4>1
        <4>4. Entry(p[1], j).used' /\ Entry(p[1], j).fd' = p[2]
          BY <2>5, <4>1, <4>2
        <4> QED BY <4>1, <4>3, <4>4
      <3> QED BY <1>2, <3>2 DEF Backed
    <2> QED BY <2>6, <2>7, <2>8 DEF IInv
  <1> QED BY <1>1, <1>2 DEF epoll_ctl_mod, Refused

LEMMA DelStep ==
  ASSUME IInv, NEW epfd \in EpollFds, NEW fd \in Fds, is_epoll(epfd), epoll_ctl_del(epfd, fd)
  PROVE  IInv'
  <1> DEFINE first == Least(watches_of(epfd, fd))
  <1>1. CASE UNCHANGED <<fake_eventfds, fake_epolls, watched>>
    BY <1>1, NothingChanges
  <1>2. CASE /\ watches_of(epfd, fd) # {} /\ SetWatch(epfd, first, UnusedWatch)
             /\ watched' = watched \ {<<epfd, fd>>} /\ UNCHANGED fake_eventfds
    <2>1. PICK i \in watches_of(epfd, fd) : i = first
      BY <1>2, LeastOf, Descriptors DEF watches_of
    <2>2. i \in Watches /\ Entry(epfd, i).used /\ Entry(epfd, i).fd = fd
      BY <2>1 DEF watches_of, Entry
    <2>3. UnusedWatch \in WatchType /\ ~UnusedWatch.used
      BY DEF WatchType, UnusedWatch
    <2> HIDE DEF first
    <2>4. /\ fake_epolls' \in [EpollFds -> [used : BOOLEAN, watches : [Watches -> WatchType]]]
          /\ \A e \in EpollFds : fake_epolls'[e].used = fake_epolls[e].used
          /\ Entry(epfd, i)' = UnusedWatch
          /\ \A e \in EpollFds, j \in Watches :
               e # epfd \/ j # i => Entry(e, j)' = Entry(e, j)
      BY <1>2, <2>1, <2>2, <2>3, EntrySet DEF is_epoll
    <2>5. Tables'
      BY <1>2, <2>4 DEF IInv, Tables
    <2>6. Unique'
      BY <2>3, <2>4 DEF IInv, Unique
    <2>7. ASSUME NEW w \in watched'
          PROVE  /\ fake_epolls'[w[1]].used /\ fake_eventfds'[w[2]].used
                 /\ \E j \in Watches : Entry(w[1], j).used' /\ Entry(w[1], j).fd' = w[2]
      <3>1. w \in watched /\ w # <<epfd, fd>>
        BY <1>2
      <3>2. w[1] \in EpollFds /\ w[2] \in EventFds /\ w = <<w[1], w[2]>>
        BY <3>1 DEF IInv, Tables
      <3>3. PICK j \in Watches : Entry(w[1], j).used /\ Entry(w[1], j).fd = w[2]
        BY <3>1 DEF IInv, Backed
      <3>4. w[1] # epfd \/ j # i
        BY <2>2, <3>1, <3>2, <3>3
      <3> QED BY <1>2, <2>4, <3>1, <3>2, <3>3, <3>4 DEF IInv, Backed
    <2> QED BY <2>5, <2>6, <2>7 DEF IInv, Backed
  <1> QED BY <1>1, <1>2 DEF epoll_ctl_del, Refused

LEMMA CreateStep ==
  ASSUME IInv, Create
  PROVE  IInv'
  <1>1. ASSUME NEW initval \in Values, NEW semaphore \in BOOLEAN, eventfd(initval, semaphore)
        PROVE  IInv'
    <2> DEFINE free == {fd \in EventFds : ~fake_eventfds[fd].used}
               new  == Least(free)
               made == [used |-> TRUE, semaphore |-> semaphore, counter |-> initval]
    <2>1. CASE free = {}
      BY <1>1, <2>1, NothingChanges DEF eventfd, Refused
    <2>2. CASE free # {}
      <3>1. new \in free
        BY <2>2, LeastOf, Descriptors
      <3>2. /\ fake_eventfds' = [fake_eventfds EXCEPT ![new] = made]
            /\ UNCHANGED <<fake_epolls, watched>>
        BY <1>1, <2>2 DEF eventfd
      <3> HIDE DEF new
      <3>3. Tables'
        <4>1. made \in EventType
          BY DescriptorAssumption DEF EventType
        <4> QED
          BY <3>1, <3>2, <4>1 DEF IInv, Tables
      <3>4. Unique'
        BY <3>2 DEF IInv, Unique, Entry
      <3>5. Backed'
        BY <3>1, <3>2 DEF IInv, Tables, Backed, Entry
      <3> QED BY <3>3, <3>4, <3>5 DEF IInv
    <2> QED BY <2>1, <2>2
  <1>2. ASSUME epoll_create1
        PROVE  IInv'
    <2> DEFINE free == {fd \in EpollFds : ~fake_epolls[fd].used}
               new  == Least(free)
               made == [UnusedEpoll EXCEPT !.used = TRUE]
    <2>1. CASE free = {}
      BY <1>2, <2>1, NothingChanges DEF epoll_create1, Refused
    <2>2. CASE free # {}
      <3>1. new \in free
        BY <2>2, LeastOf, Descriptors
      <3>2. /\ fake_epolls' = [fake_epolls EXCEPT ![new] = made]
            /\ UNCHANGED <<fake_eventfds, watched>>
        BY <1>2, <2>2 DEF epoll_create1
      <3>3. made \in [used : BOOLEAN, watches : [Watches -> WatchType]]
            /\ \A i \in Watches : ~made.watches[i].used
        BY DEF UnusedEpoll, UnusedWatch, WatchType
      <3> HIDE DEF new, made
      <3>4. Tables'
        BY <3>1, <3>2, <3>3 DEF IInv, Tables
      <3>5. Unique'
        BY <3>1, <3>2, <3>3 DEF IInv, Tables, Unique, Entry
      <3>6. \A w \in watched : w[1] \in EpollFds /\ w[1] # new
        BY <3>1 DEF IInv, Tables, Backed
      <3>7. \A e \in EpollFds : e # new => fake_epolls'[e] = fake_epolls[e]
        BY <3>2 DEF IInv, Tables
      <3>8. Backed'
        BY <3>2, <3>6, <3>7 DEF IInv, Tables, Backed, Entry
      <3> QED BY <3>4, <3>5, <3>8 DEF IInv
    <2> QED BY <2>1, <2>2
  <1> QED BY <1>1, <1>2 DEF Create

LEMMA CloseStep ==
  ASSUME IInv, NEW fd \in Fds, close(fd)
  PROVE  IInv'
  <1>1. CASE /\ is_eventfd(fd) /\ fake_eventfds' = [fake_eventfds EXCEPT ![fd] = UnusedEventfd]
             /\ watched' = {w \in watched : w[2] # fd} /\ UNCHANGED fake_epolls
    <2>1. Tables'
      <3>1. UnusedEventfd \in EventType
        BY DescriptorAssumption DEF UnusedEventfd, EventType, Counters
      <3> QED
        BY <1>1, <3>1 DEF IInv, Tables
    <2>2. Unique'
      BY <1>1 DEF IInv, Unique, Entry
    <2>3. Backed'
      BY <1>1 DEF IInv, Tables, Backed, Entry
    <2> QED BY <2>1, <2>2, <2>3 DEF IInv
  <1>2. CASE /\ is_epoll(fd) /\ fake_epolls' = [fake_epolls EXCEPT ![fd] = UnusedEpoll]
             /\ watched' = {w \in watched : w[1] # fd} /\ UNCHANGED fake_eventfds
    <2>1. UnusedEpoll \in [used : BOOLEAN, watches : [Watches -> WatchType]]
          /\ \A i \in Watches : ~UnusedEpoll.watches[i].used
      BY DEF UnusedEpoll, UnusedWatch, WatchType
    <2>2. Tables'
      BY <1>2, <2>1 DEF IInv, Tables
    <2>3. Unique'
      BY <1>2, <2>1 DEF IInv, Tables, Unique, Entry
    <2>4. \A e \in EpollFds : e # fd => fake_epolls'[e] = fake_epolls[e]
      BY <1>2 DEF IInv, Tables
    <2>5. Backed'
      BY <1>2, <2>4 DEF IInv, Tables, Backed, Entry
    <2> QED BY <2>2, <2>3, <2>5 DEF IInv
  <1> QED BY <1>1, <1>2, NothingChanges DEF close, Refused

(* The buffers a readv is given.                                            *)
LEMMA ReadvOf ==
  ASSUME NEW e \in EventType, NEW counts \in BoundedSeq(Counts, MaxBuffers)
  PROVE  FoldLeft(read_buffer, Beginning(e), counts) \in Progress(e)
  <1>1. PICK m \in 0 .. MaxBuffers : counts \in [1 .. m -> Counts]
    BY DEF BoundedSeq, SeqOf
  <1>2. m \in Nat /\ counts \in [1 .. m -> Nat]
    <2>1. MaxBuffers \in Nat /\ \A count \in Counts : count \in Nat
      BY DescriptorAssumption
    <2>2. m \in Nat
      BY <1>1, <2>1
    <2> QED BY <1>1, <2>1, <2>2
  <1>3. counts \in Seq(Nat)
    BY <1>2
  <1> QED BY <1>3, ReadvProgresses

LEMMA AddKeeps ==
  ASSUME NEW counter \in Counters, NEW value \in Values
  PROVE  add(counter, value) \in Counters
  <1>1. counter + value \in Nat /\ CounterModulus \in Nat \ {0}
    BY DescriptorAssumption DEF Counters
  <1>2. \A n \in Nat : n % CounterModulus \in 0 .. (CounterModulus - 1)
    BY <1>1
  <1> QED BY <1>1, <1>2 DEF add, Counters

LEMMA UseStep ==
  ASSUME IInv, Use
  PROVE  IInv'
  <1>1. ASSUME NEW fd \in EventFds, NEW count \in Counts, read(fd, count)
        PROVE  IInv'
    <2> DEFINE r == read_counter(fake_eventfds[fd], count)
    <2>1. CASE UNCHANGED <<fake_eventfds, fake_epolls, watched>>
      BY <2>1, NothingChanges
    <2>2. CASE /\ r.err = "" /\ fake_eventfds' = [fake_eventfds EXCEPT ![fd] = r.event]
               /\ UNCHANGED <<fake_epolls, watched>>
      <3>1. r.event \in EventType /\ r.event.used = fake_eventfds[fd].used
        <4>1. fake_eventfds[fd] \in EventType /\ count \in Nat
          BY DescriptorAssumption DEF IInv, Tables
        <4> QED
          BY <4>1, ReadCounter DEF Taken
      <3> QED BY <2>2, <3>1, CountersOnly
    <2> QED BY <1>1, <2>1, <2>2 DEF read, Refused
  <1>2. ASSUME NEW fd \in EventFds, NEW counter \in Counters,
               fake_eventfds' = [fake_eventfds EXCEPT ![fd].counter = counter],
               UNCHANGED <<fake_epolls, watched>>
        PROVE  IInv'
    <2> DEFINE event == [fake_eventfds[fd] EXCEPT !.counter = counter]
    <2>1. fake_eventfds' = [fake_eventfds EXCEPT ![fd] = event]
      BY <1>2
    <2>2. event \in EventType /\ event.used = fake_eventfds[fd].used
      BY WithCounter DEF IInv, Tables
    <2> QED BY <1>2, <2>1, <2>2, CountersOnly
  <1>3. ASSUME NEW fd \in EventFds, NEW counts \in BoundedSeq(Counts, MaxBuffers),
               readv(fd, counts)
        PROVE  IInv'
    <2>1. CASE ~is_eventfd(fd)
      BY <1>3, <2>1, NothingChanges DEF readv, Refused
    <2>2. CASE is_eventfd(fd)
      <3> DEFINE r == FoldLeft(read_buffer, Beginning(fake_eventfds[fd]), counts)
      <3>1. r.event.counter \in Counters
        BY ReadvOf DEF IInv, Tables, Progress, EventType
      <3>2. /\ fake_eventfds' = [fake_eventfds EXCEPT ![fd].counter = r.event.counter]
            /\ UNCHANGED <<fake_epolls, watched>>
        BY <1>3, <2>2 DEF readv, Beginning
      <3> QED BY <1>2, <3>1, <3>2
    <2> QED BY <2>1, <2>2
  <1>4. ASSUME NEW fd \in EventFds, NEW count \in Counts, NEW value \in Values,
               write(fd, count, value)
        PROVE  IInv'
    <2>1. add(fake_eventfds[fd].counter, value) \in Counters
      BY AddKeeps DEF IInv, Tables, EventType
    <2> QED
      BY <1>2, <1>4, <2>1, NothingChanges DEF write, Refused
  <1>5. ASSUME NEW fd \in Fds, NEW cmd, NEW semaphore \in BOOLEAN, fcntl(fd, cmd, semaphore)
        PROVE  IInv'
    <2>1. CASE /\ is_eventfd(fd) /\ UNCHANGED <<fake_epolls, watched>>
               /\ fake_eventfds' = [fake_eventfds EXCEPT ![fd].semaphore = semaphore]
      <3> DEFINE event == [fake_eventfds[fd] EXCEPT !.semaphore = semaphore]
      <3>1. fake_eventfds' = [fake_eventfds EXCEPT ![fd] = event] /\ fd \in EventFds
        BY <2>1 DEF is_eventfd
      <3>2. event \in EventType /\ event.used = fake_eventfds[fd].used
        BY <3>1 DEF IInv, Tables, EventType
      <3> QED BY <2>1, <3>1, <3>2, CountersOnly
    <2> QED BY <1>5, <2>1, NothingChanges DEF fcntl, Refused
  <1> QED BY <1>1, <1>3, <1>4, <1>5, CloseStep DEF Use

LEMMA WatchStep ==
  ASSUME IInv, Watch
  PROVE  IInv'
  <1>1. ASSUME NEW epfd \in EpollFds, NEW op, NEW fd \in Fds, NEW in \in BOOLEAN,
               epoll_ctl(epfd, op, fd, in)
        PROVE  IInv'
    BY <1>1, AddStep, ModStep, DelStep, NothingChanges DEF epoll_ctl, Refused
  <1>2. ASSUME NEW epfd, NEW maxevents, epoll_wait(epfd, maxevents)
        PROVE  IInv'
    BY <1>2, NothingChanges DEF epoll_wait, Refused
  <1> QED BY <1>1, <1>2 DEF Watch

(* IInv holds of every state.                                               *)
THEOREM Invariant == Spec => []IInv
  <1>1. Init => IInv
    <2> SUFFICES ASSUME Init PROVE IInv
      OBVIOUS
    <2>1. UnusedWatch \in WatchType /\ ~UnusedWatch.used
      BY DEF UnusedWatch, WatchType
    <2>2. /\ UnusedEpoll \in [used : BOOLEAN, watches : [Watches -> WatchType]]
          /\ \A i \in Watches : ~UnusedEpoll.watches[i].used
      BY <2>1 DEF UnusedEpoll
    <2>3. Tables
      <3>1. UnusedEventfd \in EventType
        BY DescriptorAssumption DEF UnusedEventfd, EventType, Counters
      <3> QED
        BY <2>2, <3>1 DEF Init, Tables
    <2>4. Unique
      BY <2>2 DEF Init, Unique, Entry
    <2> QED BY <2>3, <2>4 DEF Init, IInv, Backed
  <1>2. IInv /\ [Next]_vars => IInv'
    BY CreateStep, WatchStep, UseStep, NothingChanges DEF Next, vars
  <1> QED BY <1>1, <1>2, PTL DEF Spec

(* The tables keep their types and an eventfd's counter its width, whatever *)
(* sums are written to it (ruby_syscall_poll.c:460-476).                    *)
THEOREM TypesKept == Spec => []TypeOK
  <1>1. IInv => TypeOK
    BY DEF IInv, Tables, TypeOK, EventType, WatchType
  <1> QED BY <1>1, Invariant, PTL

(* No epoll ever has two entries for one descriptor, and no entry outlives  *)
(* its epoll.                                                               *)
THEOREM OneEntryEach == Spec => []WatchesUnique
  <1>1. IInv => WatchesUnique
    <2> SUFFICES ASSUME IInv, NEW epfd \in EpollFds
                 PROVE  /\ \A fd \in Fds : Cardinality(watches_of(epfd, fd)) <= 1
                        /\ ~fake_epolls[epfd].used => free_watches(epfd) = Watches
      BY DEF WatchesUnique
    <2>1. ASSUME NEW fd \in Fds PROVE Cardinality(watches_of(epfd, fd)) <= 1
      <3>1. \A i, j \in watches_of(epfd, fd) : i = j
        BY DEF watches_of, IInv, Unique, Entry
      <3> QED BY <3>1, AtMostOne
    <2>2. ~fake_epolls[epfd].used => free_watches(epfd) = Watches
      BY DEF free_watches, IInv, Unique, Entry
    <2> QED BY <2>1, <2>2
  <1> QED BY <1>1, Invariant, PTL

(* "epoll_wait reports a watched eventfd as readable when its counter is    *)
(* non-zero" (ruby_syscall_poll.c:21-23).                                   *)
THEOREM ReportsWhatIsWatched == Spec => []WatchedIsReported
  <1>1. IInv => WatchedIsReported
    <2> SUFFICES ASSUME IInv, NEW w \in watched
                 PROVE  /\ watches_of(w[1], w[2]) # {}
                        /\ \A i \in watches_of(w[1], w[2]) :
                             /\ fake_epolls[w[1]].watches[i].in
                             /\ fake_eventfds[w[2]].counter > 0
                             => i \in reportable(w[1])
      BY DEF WatchedIsReported
    <2>1. w[1] \in EpollFds /\ w[2] \in EventFds /\ is_eventfd(w[2])
      BY DEF IInv, Tables, Backed, is_eventfd
    <2>2. watches_of(w[1], w[2]) # {}
      BY DEF IInv, Backed, Entry, watches_of
    <2>3. ASSUME NEW i \in watches_of(w[1], w[2]), fake_epolls[w[1]].watches[i].in,
                 fake_eventfds[w[2]].counter > 0
          PROVE  i \in reportable(w[1])
      BY <2>1, <2>3 DEF watches_of, reportable
    <2> QED BY <2>2, <2>3
  <1> QED BY <1>1, Invariant, PTL

(* What a call answers is never mistaken for a failure.                     *)
LEMMA ReturnsThat ==
  ASSUME NEW n, Returns(n)
  PROVE  reply'.ret = n /\ reply'.values = <<>> /\ ~reply'.waited
  BY DEF Returns, Answers

(* What the replies of a call say, for TakesWhatItHands.                    *)
LEMMA Succeeds ==
  ASSUME NEW n \in Nat, Returns(n)
  PROVE  reply'.ret # -1 /\ reply'.values = <<>>
  <1>1. n # -1
    OBVIOUS
  <1>2. reply'.ret = n /\ reply'.values = <<>>
    BY ReturnsThat, Zenon
  <1> QED BY <1>1, <1>2, Zenon

LEMMA ReportsThat ==
  ASSUME NEW S, Reports(S)
  PROVE  /\ reply'.ret = Cardinality(S) /\ reply'.ready = S /\ reply'.values = <<>>
         /\ reply'.waited
  BY DEF Reports

LEMMA FailsWith ==
  ASSUME NEW err, Fails(err)
  PROVE  reply'.ret = -1 /\ reply'.err = err /\ reply'.values = <<>> /\ ~reply'.waited
  BY DEF Fails, Answers

LEMMA ReadsSucceed ==
  ASSUME NEW vs \in Seq(Nat), Reads(vs)
  PROVE  /\ reply'.values = vs /\ reply'.ret # -1 /\ ~reply'.waited
         /\ vs # <<>> => reply'.ret > 0
         /\ vs = <<>> => reply'.ret = 0
  <1>1. ValueSize \in Nat \ {0} /\ Len(vs) \in Nat
    BY DescriptorAssumption
  <1>2. ValueSize * Len(vs) \in Nat
    BY <1>1
  <1>3. vs # <<>> => ValueSize * Len(vs) > 0
    <2>1. vs # <<>> => Len(vs) > 0
      OBVIOUS
    <2>2. \A a, b \in Nat : a > 0 /\ b > 0 => a * b > 0
      OBVIOUS
    <2> QED BY <1>1, <2>1, <2>2
  <1>4. vs = <<>> => ValueSize * Len(vs) = 0
    BY <1>1
  <1>5. reply'.ret = ValueSize * Len(vs) /\ reply'.values = vs /\ ~reply'.waited
    BY DEF Reads, Answers
  <1> QED BY <1>2, <1>3, <1>4, <1>5

(* What a read or a readv does to its eventfd.                              *)
TakesFrom(fd) ==
  \/ UNCHANGED fake_eventfds /\ reply'.values = <<>>
  \/ /\ reply'.ret # -1
     /\ reply'.values # <<>> =>
          fake_eventfds'[fd].counter = fake_eventfds[fd].counter - Total(reply'.values)

LEMMA ReadTakes ==
  ASSUME IInv, NEW fd \in EventFds, NEW count \in Counts, read(fd, count)
  PROVE  TakesFrom(fd)
  <1> DEFINE e == fake_eventfds[fd]
             r == read_counter(e, count)
  <1>1. CASE UNCHANGED fake_eventfds /\ \E err : Fails(err)
    BY <1>1, FailsWith DEF TakesFrom
  <1>2. CASE /\ r.err = "" /\ fake_eventfds' = [fake_eventfds EXCEPT ![fd] = r.event]
             /\ Reads(<<r.value>>)
    <2>1. e \in EventType /\ count \in Nat
      BY DescriptorAssumption DEF IInv, Tables
    <2>2. r.value \in Nat /\ r.event.counter = e.counter - r.value
      BY <1>2, <2>1, ReadCounter DEF Taken
    <2>3. fake_eventfds'[fd] = r.event
      BY <1>2 DEF IInv, Tables
    <2> HIDE DEF r, e
    <2>4. <<r.value>> \in Seq(Nat) /\ <<r.value>> = Append(<<>>, r.value)
      BY <2>2
    <2>5. Total(<<r.value>>) = r.value
      <3>1. <<>> \in Seq(Nat)
        OBVIOUS
      <3>2. Total(Append(<<>>, r.value)) = Total(<<>>) + r.value
        BY <2>2, <3>1, TotalOf
      <3> QED BY <2>2, <2>4, <3>2, TotalOf
    <2>6. reply'.values = <<r.value>> /\ reply'.ret # -1
      BY <1>2, <2>4, ReadsSucceed
    <2> QED BY <2>2, <2>3, <2>5, <2>6 DEF TakesFrom, e
  <1> QED BY <1>1, <1>2 DEF read, Refused

LEMMA ReadvTakes ==
  ASSUME IInv, NEW fd \in EventFds, NEW counts \in BoundedSeq(Counts, MaxBuffers),
         readv(fd, counts)
  PROVE  TakesFrom(fd)
  <1> DEFINE e == fake_eventfds[fd]
             r == FoldLeft(read_buffer, Beginning(e), counts)
  <1>1. CASE ~is_eventfd(fd)
    BY <1>1, FailsWith DEF TakesFrom, readv, Refused
  <1>2. CASE is_eventfd(fd)
    <2>1. e \in EventType
      BY DEF IInv, Tables
    <2>2. r \in Progress(e)
      BY <2>1, ReadvOf
    <2>3. /\ fake_eventfds' = [fake_eventfds EXCEPT ![fd].counter = r.event.counter]
          /\ IF readv_fails(r) THEN Fails(r.err) ELSE Reads(r.values)
      BY <1>2 DEF readv, Beginning
    <2> HIDE DEF r
    <2>4. /\ r.values \in Seq(Nat) /\ r.event.counter = e.counter - Total(r.values)
          /\ r.values = <<>> => r.event.counter = e.counter
      <3>1. e.counter \in Nat
        BY <2>1, DescriptorAssumption DEF EventType, Counters
      <3>2. r.values \in Seq(Nat) /\ r.event.counter = e.counter - Total(r.values)
        BY <2>2 DEF Progress, Underway
      <3>3. ASSUME r.values = <<>> PROVE r.event.counter = e.counter
        <4>1. r.event.counter = e.counter - 0
          BY <3>2, <3>3, TotalOf
        <4> QED BY <3>1, <4>1
      <3> QED BY <3>2, <3>3
    <2>5. CASE readv_fails(r)
      <3>1. r.values = <<>> /\ Fails(r.err)
        BY <2>3, <2>5 DEF readv_fails
      <3>2. UNCHANGED fake_eventfds
        <4>1. [fake_eventfds[fd] EXCEPT !.counter = e.counter] = fake_eventfds[fd]
          BY <2>1 DEF EventType
        <4> QED BY <2>3, <2>4, <3>1, <4>1 DEF IInv, Tables
      <3> QED BY <3>1, <3>2, FailsWith DEF TakesFrom
    <2>6. CASE ~readv_fails(r)
      <3>1. reply'.values = r.values /\ reply'.ret # -1
        BY <2>3, <2>4, <2>6, ReadsSucceed
      <3>2. fake_eventfds'[fd].counter = r.event.counter
        BY <2>1, <2>3 DEF IInv, Tables, EventType
      <3> QED BY <2>4, <3>1, <3>2 DEF TakesFrom
    <2> QED BY <2>5, <2>6
  <1> QED BY <1>1, <1>2

(* A call that hands no value over, and fails only without effect.          *)
Quiet ==
  reply'.values = <<>> /\ (reply'.ret = -1 => UNCHANGED fake_eventfds)

LEMMA RefusedQuietly ==
  ASSUME NEW err, Refused(err)
  PROVE  Quiet
  BY FailsWith DEF Refused, Quiet

LEMMA ReturnsQuietly ==
  ASSUME NEW n, Returns(n), n \in Nat \/ UNCHANGED fake_eventfds
  PROVE  Quiet
  <1>1. reply'.values = <<>>
    BY ReturnsThat, Zenon
  <1>2. CASE n \in Nat
    BY <1>2, Succeeds DEF Quiet
  <1>3. CASE UNCHANGED fake_eventfds
    BY <1>1, <1>3 DEF Quiet
  <1> QED BY <1>2, <1>3

LEMMA CreateQuietly ==
  ASSUME Create
  PROVE  Quiet
  <1>1. ASSUME NEW initval, NEW semaphore, eventfd(initval, semaphore)
        PROVE  Quiet
    <2> DEFINE free == {fd \in EventFds : ~fake_eventfds[fd].used}
    <2>1. CASE free = {}
      BY <1>1, <2>1, RefusedQuietly DEF eventfd
    <2>2. CASE free # {}
      <3>1. Least(free) \in Nat
        BY <2>2, LeastOf, Descriptors
      <3>2. Returns(Least(free))
        BY <1>1, <2>2 DEF eventfd
      <3> QED BY <3>1, <3>2, ReturnsQuietly
    <2> QED BY <2>1, <2>2
  <1>2. ASSUME epoll_create1
        PROVE  Quiet
    <2> DEFINE free == {fd \in EpollFds : ~fake_epolls[fd].used}
    <2>1. CASE free = {}
      BY <1>2, <2>1, RefusedQuietly DEF epoll_create1
    <2>2. CASE free # {}
      <3>1. PICK n : Returns(n) /\ UNCHANGED fake_eventfds
        BY <1>2, <2>2 DEF epoll_create1
      <3> QED BY <3>1, ReturnsQuietly, Zenon
    <2> QED BY <2>1, <2>2
  <1> QED BY <1>1, <1>2 DEF Create

LEMMA WatchQuietly ==
  ASSUME Watch
  PROVE  Quiet
  <1>1. ASSUME NEW epfd, NEW op, NEW fd, NEW in, epoll_ctl(epfd, op, fd, in)
        PROVE  Quiet
    <2>1. \/ \E err : Refused(err)
          \/ Returns(0) /\ UNCHANGED fake_eventfds
      BY <1>1 DEF epoll_ctl, epoll_ctl_add, epoll_ctl_mod, epoll_ctl_del
    <2> QED BY <2>1, RefusedQuietly, ReturnsQuietly
  <1>2. ASSUME NEW epfd, NEW maxevents, epoll_wait(epfd, maxevents)
        PROVE  Quiet
    <2>1. CASE \E err : Refused(err)
      BY <2>1, RefusedQuietly
    <2>2. CASE UNCHANGED fake_eventfds /\ \E S : Reports(S)
      BY <2>2, ReportsThat DEF Quiet
    <2> QED BY <1>2, <2>1, <2>2 DEF epoll_wait
  <1> QED BY <1>1, <1>2 DEF Watch

LEMMA UseTakes ==
  ASSUME IInv, Use
  PROVE  Quiet \/ \E fd \in EventFds : TakesFrom(fd)
  <1>1. ASSUME NEW fd, NEW count, NEW value, write(fd, count, value)
        PROVE  Quiet
    <2>1. ValueSize \in Nat
      BY DescriptorAssumption
    <2>2. (\E err : Refused(err)) \/ Returns(ValueSize)
      BY <1>1 DEF write
    <2> QED BY <2>1, <2>2, RefusedQuietly, ReturnsQuietly
  <1>2. ASSUME NEW fd, close(fd)
        PROVE  Quiet
    <2>1. 0 \in Nat
      OBVIOUS
    <2>2. (\E err : Refused(err)) \/ Returns(0)
      BY <1>2 DEF close
    <2> QED BY <2>1, <2>2, RefusedQuietly, ReturnsQuietly
  <1>3. ASSUME NEW fd, NEW cmd, NEW semaphore, fcntl(fd, cmd, semaphore)
        PROVE  Quiet
    <2>1. 0 \in Nat
      OBVIOUS
    <2>2. (\E err : Refused(err)) \/ Returns(0)
      BY <1>3 DEF fcntl
    <2> QED BY <2>1, <2>2, RefusedQuietly, ReturnsQuietly
  <1> QED BY <1>1, <1>2, <1>3, ReadTakes, ReadvTakes DEF Use

(* No call takes anything from a counter but what it hands to its caller,   *)
(* and none that fails takes anything, whatever mixture of buffers a readv  *)
(* is given (ruby_syscall_poll.c:290-305, 436-455).                         *)
THEOREM NothingIsLost == Spec => TakesWhatItHands
  <1> DEFINE Kept == reply'.ret = -1 => UNCHANGED fake_eventfds
             Handed == reply'.values # <<>> =>
                         \E fd \in EventFds : fake_eventfds'[fd].counter =
                           fake_eventfds[fd].counter - Total(reply'.values)
  <1>1. IInv /\ Next => Kept /\ Handed
    <2> SUFFICES ASSUME IInv, Next PROVE Kept /\ Handed
      OBVIOUS
    <2>1. Quiet \/ \E fd \in EventFds : TakesFrom(fd)
      BY CreateQuietly, WatchQuietly, UseTakes DEF Next
    <2>2. CASE Quiet
      BY <2>2 DEF Quiet
    <2>3. ASSUME NEW fd \in EventFds, TakesFrom(fd) PROVE Kept /\ Handed
      BY <2>3 DEF TakesFrom
    <2> QED BY <2>1, <2>2, <2>3
  <1>2. []IInv /\ [][Next]_vars => [][Kept /\ Handed]_vars
    <2>1. IInv /\ [Next]_vars => [Kept /\ Handed]_vars
      BY <1>1
    <2> QED BY <2>1, PTL
  <1> QED BY <1>2, Invariant, PTL DEF Spec, TakesWhatItHands
=============================================================================
