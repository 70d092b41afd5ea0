----------------------------- MODULE EventSpace -----------------------------
(***************************************************************************)
(* What callers may expect of the fake descriptors: events maps an open     *)
(* eventfd to its count, interest maps an open epoll to the pairs           *)
(* <<fd, whether EPOLLIN was asked for>>, at most one for each descriptor.  *)
(* A descriptor number that becomes open was not open, a call that fails    *)
(* changes nothing, and what a wait reports is a full share of what is      *)
(* ready.                                                                   *)
(***************************************************************************)
EXTENDS Integers, Sequences, FiniteSets, SequencesExt

CONSTANTS EventFds, EpollFds, Fds, Values, CounterModulus, FAKE_EPOLL_WATCH_COUNT

VARIABLES events, interest, reply

space == <<events, interest, reply>>

Opens(f, fd, v) ==    \* f with fd, which it did not have
  [x \in DOMAIN f \cup {fd} |-> IF x = fd THEN v ELSE f[x]]

Without(f, fd) == [x \in DOMAIN f \ {fd} |-> f[x]]

Refuse ==
  /\ reply'.ret = -1
  /\ reply'.err = "EAGAIN" => \E fd \in DOMAIN events : events[fd] = 0
  /\ reply'.err = "ENOSPC" =>
       \E fd \in DOMAIN interest : Cardinality(interest[fd]) = FAKE_EPOLL_WATCH_COUNT
  /\ UNCHANGED <<events, interest>>

Make ==
  \/ \E fd \in EventFds \ DOMAIN events, v \in Values :
       /\ events' = Opens(events, fd, v)
       /\ reply'.ret = fd /\ UNCHANGED interest
  \/ \E fd \in EpollFds \ DOMAIN interest :
       /\ interest' = Opens(interest, fd, {})
       /\ reply'.ret = fd /\ UNCHANGED events

Close ==
  /\ reply'.ret = 0
  /\ \/ \E fd \in DOMAIN events :
          events' = Without(events, fd) /\ UNCHANGED interest
     \/ \E fd \in DOMAIN interest :
          interest' = Without(interest, fd) /\ UNCHANGED events

(* Values are added to a count, or taken from it and handed over.            *)
Count ==
  \E fd \in DOMAIN events :
    /\ \/ /\ reply'.values = <<>>
          /\ \E v \in Values :
               events' = [events EXCEPT ![fd] = (@ + v) % CounterModulus]
       \/ /\ reply'.values # <<>>
          /\ \A i \in DOMAIN reply'.values : reply'.values[i] > 0
          /\ events' = [events EXCEPT ![fd] = @ - FoldLeft(+, 0, reply'.values)]
    /\ reply'.ret > 0 /\ UNCHANGED interest

Interest(S, fd) == {p \in S : p[1] = fd}

Control ==
  \E epfd \in DOMAIN interest, fd \in Fds :
    LET S    == interest[epfd]
        old  == Interest(S, fd)
        Becomes(T) == interest' = [interest EXCEPT ![epfd] = T] /\ reply'.ret = 0
    IN /\ UNCHANGED events
       /\ \/ \E in \in BOOLEAN : /\ Cardinality(S) < FAKE_EPOLL_WATCH_COUNT \/ old # {}
                                 /\ Becomes((S \ old) \cup {<<fd, in>>})
          \/ old # {} /\ Becomes(S \ old)

(* A wait on an epoll reports ready descriptors, as many as it was given    *)
(* room for.                                                                *)
Wait(epfd, maxevents) ==
  LET S == {fd \in DOMAIN events : events[fd] > 0 /\ <<fd, TRUE>> \in interest[epfd]}
  IN /\ reply'.ready \subseteq S
     /\ reply'.ret = IF Cardinality(S) < maxevents THEN Cardinality(S) ELSE maxevents
     /\ reply'.ret = Cardinality(reply'.ready)
     /\ UNCHANGED <<events, interest>>

(* A change of flags, which is no change of a count.                        *)
Look ==
  /\ reply'.ret = 0
  /\ UNCHANGED <<events, interest>>

Init ==
  /\ events = <<>> /\ interest = <<>>
  /\ reply = [ret |-> 0, err |-> "", values |-> <<>>, ready |-> {},
              waited |-> FALSE]

Next ==
  \/ ~reply'.waited /\ (Make \/ Close \/ Count \/ Control \/ Refuse \/ Look)
  \/ /\ reply'.waited
     /\ \E epfd \in DOMAIN interest, maxevents \in 1 .. Cardinality(EventFds) :
          Wait(epfd, maxevents)

Spec == Init /\ [][Next]_space
=============================================================================
