------------------------------ MODULE FakeFds -------------------------------
(***************************************************************************)
(* The fake descriptors of stub/ruby_syscall_poll.c: eventfds, which are    *)
(* counters, and epoll instances, which are tables of watches.  The Ruby    *)
(* thread is the only caller, so one call is one step.  Entry i of a table  *)
(* is the descriptor base + i, so a table is a function on its descriptors. *)
(* Of their flags only EFD_SEMAPHORE has an effect ("nothing execs, so       *)
(* FD_CLOEXEC is meaningless", line 560) and the others are left out.       *)
(* reply is what the last call returned; watched is history, the eventfds   *)
(* an epoll was told to watch and was not told to forget.                   *)
(***************************************************************************)
EXTENDS Integers, Sequences, FiniteSets, SequencesExt

CONSTANTS
  FAKE_EVENTFD_BASE, FAKE_EVENTFD_COUNT,
  FAKE_EPOLL_BASE, FAKE_EPOLL_COUNT, FAKE_EPOLL_WATCH_COUNT,
  CounterModulus,  \* an eventfd's counter is computed modulo this, 2^64
  ValueSize,       \* sizeof(uint64_t)
  Values,          \* values given to eventfd and to write
  Counts,          \* lengths given to read, write and each buffer of readv
  MaxBuffers       \* bound: buffers of a readv

EventFds == FAKE_EVENTFD_BASE .. (FAKE_EVENTFD_BASE + FAKE_EVENTFD_COUNT - 1)
EpollFds == FAKE_EPOLL_BASE .. (FAKE_EPOLL_BASE + FAKE_EPOLL_COUNT - 1)
Fds      == EventFds \cup EpollFds   \* one that is not open is like a real one
Watches  == 1 .. FAKE_EPOLL_WATCH_COUNT
Counters == 0 .. (CounterModulus - 1)

ASSUME DescriptorAssumption ==
  /\ FAKE_EVENTFD_BASE \in Nat /\ FAKE_EVENTFD_COUNT \in Nat \ {0}
  /\ FAKE_EPOLL_BASE \in Nat /\ FAKE_EPOLL_COUNT \in Nat \ {0}
  /\ FAKE_EPOLL_WATCH_COUNT \in Nat \ {0}
  /\ CounterModulus \in Nat \ {0} /\ ValueSize \in Nat \ {0}
  /\ Values \subseteq Counters /\ Counts \subseteq Nat /\ MaxBuffers \in Nat
  /\ EventFds \cap EpollFds = {}

VARIABLES
  fake_eventfds,   \* fd -> [used, semaphore, counter]
  fake_epolls,     \* fd -> [used, watches]
  reply,           \* [ret, err, values, ready, waited] of the last call
  watched          \* history: <<epoll, eventfd>> pairs

vars == <<fake_eventfds, fake_epolls, reply, watched>>

UnusedEventfd == [used |-> FALSE, semaphore |-> FALSE, counter |-> 0]
(* The descriptor and the mask of a watch that is not used are never read.  *)
UnusedWatch   == [used |-> FALSE, fd |-> 0, in |-> FALSE]
UnusedEpoll   == [used |-> FALSE, watches |-> [i \in Watches |-> UnusedWatch]]

is_eventfd(fd) == fd \in EventFds /\ fake_eventfds[fd].used
is_epoll(fd)   == fd \in EpollFds /\ fake_epolls[fd].used

Least(S) == CHOOSE i \in S : \A j \in S : i <= j

-----------------------------------------------------------------------------
(* What a call answers.                                                     *)

Answers(ret, err, values) ==
  reply' = [ret |-> ret, err |-> err, values |-> values, ready |-> {},
            waited |-> FALSE]

Returns(n) == Answers(n, "", <<>>)
Reads(vs)  == Answers(ValueSize * Len(vs), "", vs)
Fails(e)   == Answers(-1, e, <<>>)
Reports(S) == reply' = [ret |-> Cardinality(S), err |-> "", values |-> <<>>,
                        ready |-> S, waited |-> TRUE]
Refused(e) == Fails(e) /\ UNCHANGED <<fake_eventfds, fake_epolls, watched>>

-----------------------------------------------------------------------------
(* Making and closing descriptors.                                          *)

eventfd(initval, semaphore) ==
  LET free == {fd \in EventFds : ~fake_eventfds[fd].used}
      new  == Least(free)
  IN IF free = {} THEN Refused("EMFILE")
     ELSE /\ fake_eventfds' = [fake_eventfds EXCEPT ![new] =
               [used |-> TRUE, semaphore |-> semaphore, counter |-> initval]]
          /\ Returns(new)
          /\ UNCHANGED <<fake_epolls, watched>>

epoll_create1 ==
  LET free == {fd \in EpollFds : ~fake_epolls[fd].used}
      new  == Least(free)
  IN IF free = {} THEN Refused("EMFILE")
     ELSE /\ fake_epolls' = [fake_epolls EXCEPT ![new] =
               [UnusedEpoll EXCEPT !.used = TRUE]]
          /\ Returns(new)
          /\ UNCHANGED <<fake_eventfds, watched>>

(* close leaves the watches on an eventfd where they are.                   *)
close(fd) ==
  \/ /\ is_eventfd(fd)
     /\ fake_eventfds' = [fake_eventfds EXCEPT ![fd] = UnusedEventfd]
     /\ watched' = {w \in watched : w[2] # fd}
     /\ Returns(0)
     /\ UNCHANGED fake_epolls
  \/ /\ is_epoll(fd)
     /\ fake_epolls' = [fake_epolls EXCEPT ![fd] = UnusedEpoll]
     /\ watched' = {w \in watched : w[1] # fd}
     /\ Returns(0)
     /\ UNCHANGED fake_eventfds
  \/ ~is_eventfd(fd) /\ ~is_epoll(fd) /\ Refused("syscall")

-----------------------------------------------------------------------------
(* Watches.                                                                 *)

SetWatch(epfd, i, w) ==
  fake_epolls' = [fake_epolls EXCEPT ![epfd].watches[i] = w]

free_watches(epfd) == {i \in Watches : ~fake_epolls[epfd].watches[i].used}

(* Mutant: the search for the descriptor stops at the first free entry.     *)
watches_of_before_free(epfd, fd) ==
  {i \in Watches : /\ \A j \in 1 .. i : fake_epolls[epfd].watches[j].used
                   /\ fake_epolls[epfd].watches[i].fd = fd}

watches_of(epfd, fd) ==
  {i \in Watches : /\ fake_epolls[epfd].watches[i].used
                   /\ fake_epolls[epfd].watches[i].fd = fd}

(* Mutant: a new watch goes into the first entry, free or not.              *)
new_watch_first(epfd) == 1

new_watch(epfd) == Least(free_watches(epfd))

epoll_ctl_add(epfd, fd, in) ==
  \/ watches_of(epfd, fd) # {} /\ Refused("EEXIST")
  \/ watches_of(epfd, fd) = {} /\ free_watches(epfd) = {} /\ Refused("ENOSPC")
  \/ /\ watches_of(epfd, fd) = {} /\ free_watches(epfd) # {}
     /\ SetWatch(epfd, new_watch(epfd), [used |-> TRUE, fd |-> fd, in |-> in])
     /\ watched' = IF is_eventfd(fd) THEN watched \cup {<<epfd, fd>>} ELSE watched
     /\ Returns(0)
     /\ UNCHANGED fake_eventfds

epoll_ctl_mod(epfd, fd, in) ==
  \/ watches_of(epfd, fd) = {} /\ Refused("ENOENT")
  \/ /\ watches_of(epfd, fd) # {}
     /\ SetWatch(epfd, Least(watches_of(epfd, fd)),
                 [used |-> TRUE, fd |-> fd, in |-> in])
     /\ Returns(0)
     /\ UNCHANGED <<fake_eventfds, watched>>

epoll_ctl_del(epfd, fd) ==
  \/ watches_of(epfd, fd) = {} /\ Refused("ENOENT")
  \/ /\ watches_of(epfd, fd) # {}
     /\ SetWatch(epfd, Least(watches_of(epfd, fd)), UnusedWatch)
     /\ watched' = watched \ {<<epfd, fd>>}
     /\ Returns(0)
     /\ UNCHANGED fake_eventfds

(* An epfd that is no fake goes to the real system call, and a null event   *)
(* or an unknown op is refused.                                             *)
epoll_ctl(epfd, op, fd, in) ==
  \/ ~is_epoll(epfd) /\ Refused("syscall")
  \/ is_epoll(epfd) /\ op = "ADD" /\ epoll_ctl_add(epfd, fd, in)
  \/ is_epoll(epfd) /\ op = "MOD" /\ epoll_ctl_mod(epfd, fd, in)
  \/ is_epoll(epfd) /\ op = "DEL" /\ epoll_ctl_del(epfd, fd)
  \/ is_epoll(epfd) /\ op = "invalid" /\ Refused("EINVAL")

(* Mutant: whether the counter is zero is not asked.                        *)
reportable_unasked(epfd) ==
  {i \in Watches : LET w == fake_epolls[epfd].watches[i] IN
                     w.used /\ w.in /\ is_eventfd(w.fd)}

reportable(epfd) ==
  {i \in Watches : LET w == fake_epolls[epfd].watches[i] IN
                     /\ w.used /\ w.in
                     /\ is_eventfd(w.fd) /\ fake_eventfds[w.fd].counter > 0}

(* The first maxevents of them, in the order of the table.                  *)
epoll_wait(epfd, maxevents) ==
  \/ ~is_epoll(epfd) /\ Refused("syscall")
  \/ is_epoll(epfd) /\ maxevents <= 0 /\ Refused("EINVAL")
  \/ /\ is_epoll(epfd) /\ maxevents > 0
     /\ LET S     == reportable(epfd)
            first == {i \in S : Cardinality({j \in S : j < i}) < maxevents}
        IN Reports({fake_epolls[epfd].watches[i].fd : i \in first})
     /\ UNCHANGED <<fake_eventfds, fake_epolls, watched>>

-----------------------------------------------------------------------------
(* Counters.                                                                *)

(* What read does to an eventfd with a buffer of count bytes.               *)
read_counter(event, count) ==
  LET answer(e, v, err) == [event |-> e, value |-> v, err |-> err] IN
  IF count < ValueSize THEN answer(event, 0, "EINVAL")
  ELSE IF event.counter = 0 THEN answer(event, 0, "EAGAIN")
  ELSE IF event.semaphore
    THEN answer([event EXCEPT !.counter = @ - 1], 1, "")
  ELSE answer([event EXCEPT !.counter = 0], event.counter, "")

read(fd, count) ==
  \/ ~is_eventfd(fd) /\ Refused("syscall")
  \/ /\ is_eventfd(fd)
     /\ LET r == read_counter(fake_eventfds[fd], count) IN
        IF r.err # "" THEN Refused(r.err)
        ELSE /\ fake_eventfds' = [fake_eventfds EXCEPT ![fd] = r.event]
             /\ Reads(<<r.value>>)
             /\ UNCHANGED <<fake_epolls, watched>>

(* One buffer of readv; acc is what the buffers before it came to.          *)
read_buffer(acc, count) ==
  LET r == read_counter(acc.event, count) IN
  IF acc.over \/ count = 0 THEN acc
  ELSE IF r.err # "" THEN [acc EXCEPT !.err = r.err, !.over = TRUE]
  ELSE [event |-> r.event, values |-> Append(acc.values, r.value), err |-> "",
        over |-> count # ValueSize]

(* Mutant: a buffer that fails fails the call, whatever was read before.    *)
readv_fails_always(r) == r.err # ""

readv_fails(r) == r.err # "" /\ r.values = <<>>

(* readv of anything but stdin, which ConsoleWait models.                   *)
readv(fd, counts) ==
  \/ ~is_eventfd(fd) /\ Refused("syscall")
  \/ /\ is_eventfd(fd)
     /\ LET start == [event |-> fake_eventfds[fd], values |-> <<>>, err |-> "",
                      over |-> FALSE]
            r == FoldLeft(read_buffer, start, counts)
        IN /\ fake_eventfds' = [fake_eventfds EXCEPT ![fd].counter = r.event.counter]
           /\ IF readv_fails(r) THEN Fails(r.err) ELSE Reads(r.values)
           /\ UNCHANGED <<fake_epolls, watched>>

(* Mutant: the sum is not cut to the width of the counter.                  *)
add_wide(counter, value) == counter + value

add(counter, value) == (counter + value) % CounterModulus

write(fd, count, value) ==
  \/ ~is_eventfd(fd) /\ Refused("syscall")
  \/ is_eventfd(fd) /\ count < ValueSize /\ Refused("EINVAL")
  \/ /\ is_eventfd(fd) /\ count >= ValueSize
     /\ fake_eventfds' = [fake_eventfds EXCEPT ![fd].counter = add(@, value)]
     /\ Returns(ValueSize)
     /\ UNCHANGED <<fake_epolls, watched>>

-----------------------------------------------------------------------------
(* fcntl.                                                                   *)

(* F_SETFL overwrites every flag, EFD_SEMAPHORE with them; F_GETFL, F_GETFD *)
(* and F_SETFD touch no flag that has an effect; F_DUPFD and an unknown     *)
(* command fail.  A descriptor that is no fake is answered alike, without   *)
(* any state.                                                               *)
fcntl(fd, cmd, semaphore) ==
  \/ /\ cmd = "F_SETFL" /\ is_eventfd(fd)
     /\ fake_eventfds' = [fake_eventfds EXCEPT ![fd].semaphore = semaphore]
     /\ Returns(0)
     /\ UNCHANGED <<fake_epolls, watched>>
  \/ /\ cmd = "F_SETFL" => ~is_eventfd(fd)
     /\ cmd \in {"F_SETFL", "F_SETFD"} /\ Returns(0)
     /\ UNCHANGED <<fake_eventfds, fake_epolls, watched>>
  \/ cmd = "F_DUPFD" /\ Refused("EMFILE")
  \/ cmd = "invalid" /\ Refused("EINVAL")

-----------------------------------------------------------------------------

Init ==
  /\ fake_eventfds = [fd \in EventFds |-> UnusedEventfd]
  /\ fake_epolls = [fd \in EpollFds |-> UnusedEpoll]
  /\ reply = [ret |-> 0, err |-> "", values |-> <<>>, ready |-> {}, waited |-> FALSE]
  /\ watched = {}

Create ==
  \/ \E initval \in Values, semaphore \in BOOLEAN : eventfd(initval, semaphore)
  \/ epoll_create1

Watch ==
  \/ \E epfd \in EpollFds, op \in {"ADD", "MOD", "DEL", "invalid"},
        fd \in Fds, in \in BOOLEAN : epoll_ctl(epfd, op, fd, in)
  \/ \E epfd \in EpollFds, maxevents \in {0, 1, FAKE_EVENTFD_COUNT} :
       epoll_wait(epfd, maxevents)

Use ==
  \/ \E fd \in EventFds :
       \/ \E count \in Counts : read(fd, count)
       \/ \E counts \in BoundedSeq(Counts, MaxBuffers) : readv(fd, counts)
       \/ \E count \in Counts, value \in Values : write(fd, count, value)
  \/ \E fd \in Fds :
       \/ close(fd)
       \/ \E cmd \in {"F_SETFL", "F_SETFD", "F_DUPFD", "invalid"},
            semaphore \in BOOLEAN : fcntl(fd, cmd, semaphore)

Next == Create \/ Watch \/ Use

Spec == Init /\ [][Next]_vars

-----------------------------------------------------------------------------
(* Properties.                                                              *)

(* The tables keep their types: a counter stays within its width.           *)
TypeOK ==
  /\ fake_eventfds \in [EventFds -> [used : BOOLEAN, semaphore : BOOLEAN,
                                     counter : Counters]]
  /\ fake_epolls \in [EpollFds ->
       [used : BOOLEAN,
        watches : [Watches -> [used : BOOLEAN, fd : Nat, in : BOOLEAN]]]]
  /\ watched \subseteq EpollFds \X EventFds

(* No epoll has two entries for one descriptor, whatever holes deletions    *)
(* have left in its table, and no entry outlives its epoll.  Otherwise MOD  *)
(* and DEL would reach one and the other would go on being reported         *)
(* (ruby_syscall_poll.c:189-204).                                           *)
WatchesUnique ==
  \A epfd \in EpollFds :
    /\ \A fd \in Fds : Cardinality(watches_of(epfd, fd)) <= 1
    /\ ~fake_epolls[epfd].used => free_watches(epfd) = Watches

Total(vs) == FoldLeft(+, 0, vs)

(* A call takes from a counter exactly what it hands to its caller: no      *)
(* mixture of buffers makes readv fail after it has taken a value, and      *)
(* whatever fails takes nothing (ruby_syscall_poll.c:290-305, 436-455).     *)
TakesWhatItHands ==
  [][/\ reply'.ret = -1 => UNCHANGED fake_eventfds
     /\ reply'.values # <<>> =>
          \E fd \in EventFds : fake_eventfds'[fd].counter =
            fake_eventfds[fd].counter - Total(reply'.values)]_vars

(* "epoll_wait reports a watched eventfd as readable when its counter is    *)
(* non-zero" (ruby_syscall_poll.c:21-23), whatever other descriptors were   *)
(* added, deleted, closed and made since it was added.                      *)
WatchedIsReported ==
  \A w \in watched :
    LET entries == watches_of(w[1], w[2]) IN
    /\ entries # {}
    /\ \A i \in entries : /\ fake_epolls[w[1]].watches[i].in
                          /\ fake_eventfds[w[2]].counter > 0
                          => i \in reportable(w[1])

(* What the tables stand for: the open eventfds with their counts, and the   *)
(* open epolls with their interests.                                        *)
events == [fd \in {fd \in EventFds : fake_eventfds[fd].used} |->
             fake_eventfds[fd].counter]

interests(epfd) ==
  {<<w.fd, w.in>> : w \in {v \in Range(fake_epolls[epfd].watches) : v.used}}

interest == [fd \in {fd \in EpollFds : fake_epolls[fd].used} |-> interests(fd)]

Space == INSTANCE EventSpace

(* The tables, with their holes and their first free entries, are event     *)
(* counters and sets of interests as epoll describes them.                  *)
IsEventSpace == Space!Spec

(* The same sentence read the other way: what epoll_wait reports is a       *)
(* watched eventfd, one that was added since it was made.                   *)
ReportsOnlyWatched ==
  \A epfd \in EpollFds : \A i \in reportable(epfd) :
    <<epfd, fake_epolls[epfd].watches[i].fd>> \in watched
=============================================================================
