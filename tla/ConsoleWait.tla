----------------------------- MODULE ConsoleWait -----------------------------
(***************************************************************************)
(* How the Ruby thread reads the serial console: poll_fds, serial_getchar   *)
(* and serial_readv of stub/ruby_syscall_poll.c against the two components  *)
(* they talk to.  SerialServer fills a ring shared with this component;     *)
(* TimeServer runs one timer for it; both signal the same notification,     *)
(* which merges the badges of signals nobody has waited for yet.            *)
(*                                                                         *)
(* Characters are numbered in the order in which the server stores them.    *)
(* buf is the ring's array, head and tail its indices, last_head what the   *)
(* server remembers; pending is the set of badges on the notification; pc   *)
(* says where the Ruby thread is; req is the request it is serving.         *)
(***************************************************************************)
EXTENDS Integers, Sequences

CONSTANTS
  RingSize,      \* sizeof(ring->buf), 4096 - 8
  Capacities,    \* sizes of the first non-empty buffer of a readv
  MaxTyped       \* bound: characters the server stores in a behaviour

ASSUME ConsoleAssumption ==
  /\ RingSize \in Nat /\ RingSize > 1
  /\ Capacities \subseteq Nat \ {0}
  /\ MaxTyped \in Nat

Slots    == 0 .. (RingSize - 1)
Timeouts == {"forever", "zero", "finite"}
Badges   == {"serial", "timer"}
NeverNotified == -1        \* last_head before the first notification

VARIABLES
  head, tail, buf,   \* serial_ring_t
  stored,            \* how many characters the server has stored
  last_head,         \* the head the server last notified for
  pending,           \* badges of signals not yet waited for
  timer,             \* "off" or "running", in TimeServer
  pc,                \* where the Ruby thread is
  req,               \* [stdin, others, timeout, capacity] of the current call
  armed, expired,    \* locals of poll_fds
  own_expiry,        \* whether the timer armed by this poll has fired
  ready,             \* what poll_fds is about to return or returned last
  c,                 \* the character loaded by serial_getchar or serial_take
  used,              \* local of serial_readv
  delivered          \* the characters handed to Ruby so far

ring     == <<head, tail, buf, stored, last_head>>
polling  == <<armed, expired, own_expiry, ready>>
reading  == <<c, used, delivered>>
vars     == <<ring, pending, timer, pc, req, polling, reading>>

(* Mutant: the index runs over one slot more than the array has.            *)
next_slot_past(i) == (i + 1) % (RingSize + 1)

next_slot(i) == (i + 1) % RingSize

-----------------------------------------------------------------------------
(* The other components.                                                    *)

(* SerialServer stores a character unless the ring is full, and signals     *)
(* only if the head has moved since it last did.                            *)
SerialPublish ==
  /\ stored < MaxTyped
  /\ (tail + 1) % RingSize # head
  /\ stored' = stored + 1
  /\ buf' = [buf EXCEPT ![tail] = stored + 1]
  /\ tail' = (tail + 1) % RingSize
  /\ last_head' = head
  /\ pending' = IF last_head # head THEN pending \cup {"serial"} ELSE pending
  /\ UNCHANGED <<head, timer, pc, req, polling, reading>>

TimerFires ==
  /\ timer = "running"
  /\ timer' = "off"
  /\ pending' = pending \cup {"timer"}
  /\ own_expiry' = TRUE
  /\ UNCHANGED <<ring, pc, req, armed, expired, ready, reading>>

-----------------------------------------------------------------------------
(* poll and ppoll.                                                          *)

(* Mutant: armed is left as the last poll had it.                           *)
PollStartKeepsArmed(stdin, others, timeout) ==
  /\ pc = "idle"
  /\ req' = [stdin |-> stdin, others |-> others, timeout |-> timeout, capacity |-> 0]
  /\ expired' = FALSE /\ own_expiry' = FALSE
  /\ pc' = "poll_scan"
  /\ UNCHANGED <<ring, pending, timer, armed, ready, reading>>

(* A poll watches stdin or not, besides some descriptors of which others    *)
(* are ready and stay so: nothing but this thread can change them.          *)
PollStart(stdin, others, timeout) ==
  /\ pc = "idle"
  /\ req' = [stdin |-> stdin, others |-> others, timeout |-> timeout, capacity |-> 0]
  /\ armed' = FALSE /\ expired' = FALSE /\ own_expiry' = FALSE
  /\ pc' = "poll_scan"
  /\ UNCHANGED <<ring, pending, timer, ready, reading>>

serial_has_input == head # tail

readiness == (IF req.stdin /\ serial_has_input THEN 1 ELSE 0) + req.others

(* One pass over the descriptors.                                           *)
PollScan ==
  /\ pc = "poll_scan"
  /\ ready' = readiness
  /\ pc' = IF readiness > 0 \/ expired \/ req.timeout = "zero" \/ ~req.stdin
             THEN IF armed THEN "poll_stop" ELSE "idle"
           ELSE IF req.timeout = "finite" /\ ~armed THEN "poll_arm"
           ELSE "poll_wait"
  /\ UNCHANGED <<ring, pending, timer, req, armed, expired, own_expiry, reading>>

PollStop ==
  /\ pc = "poll_stop"
  /\ timer' = "off"
  /\ pc' = "idle"
  /\ UNCHANGED <<ring, pending, req, polling, reading>>

(* TimeServer accepts the request.                                          *)
PollArm ==
  /\ pc = "poll_arm"
  /\ timer' = "running"
  /\ armed' = TRUE
  /\ own_expiry' = FALSE
  /\ pc' = "poll_wait"
  /\ UNCHANGED <<ring, pending, req, expired, ready, reading>>

(* TimeServer refuses it: the poll reports a timeout at once.               *)
PollArmFails ==
  /\ pc = "poll_arm"
  /\ ready' = 0
  /\ own_expiry' = TRUE
  /\ pc' = "idle"
  /\ UNCHANGED <<ring, pending, timer, req, armed, expired, reading>>

(* Mutant: expiry ends the poll without another look at the ring.           *)
PollWaitNoRecheck ==
  /\ pc = "poll_wait"
  /\ pending # {}
  /\ pending' = {}
  /\ expired' = (expired \/ (armed /\ "timer" \in pending))
  /\ armed' = (armed /\ "timer" \notin pending)
  /\ pc' = IF armed /\ "timer" \in pending THEN "idle" ELSE "poll_scan"
  /\ UNCHANGED <<ring, timer, req, own_expiry, ready, reading>>

(* Mutant: the badge is not looked at.                                      *)
PollWaitNoBadge ==
  /\ pc = "poll_wait"
  /\ pending # {}
  /\ pending' = {}
  /\ armed' = (armed /\ "timer" \notin pending)
  /\ pc' = "poll_scan"
  /\ UNCHANGED <<ring, timer, req, expired, own_expiry, ready, reading>>

(* seL4_Wait takes every pending badge at once.                             *)
PollWait ==
  /\ pc = "poll_wait"
  /\ pending # {}
  /\ pending' = {}
  /\ expired' = (expired \/ (armed /\ "timer" \in pending))
  /\ armed' = (armed /\ "timer" \notin pending)
  /\ pc' = "poll_scan"
  /\ UNCHANGED <<ring, timer, req, own_expiry, ready, reading>>

-----------------------------------------------------------------------------
(* readv on stdin.  A call with no room in any buffer returns 0 at once and *)
(* is left out.                                                             *)

ReadStartsAt(first, capacity) ==
  /\ pc = "idle"
  /\ req' = [stdin |-> TRUE, others |-> 0, timeout |-> "forever",
             capacity |-> capacity]
  /\ used' = 0
  /\ pc' = first
  /\ UNCHANGED <<ring, pending, timer, polling, c, delivered>>

(* Mutant: the wait comes before the first look at the ring.                *)
ReadStartWaits(capacity) == ReadStartsAt("read_wait", capacity)

ReadStart(capacity) == ReadStartsAt("read_check", capacity)

(* The loop condition of serial_getchar.                                    *)
ReadCheck ==
  /\ pc = "read_check"
  /\ pc' = IF serial_has_input THEN "read_load" ELSE "read_wait"
  /\ UNCHANGED <<ring, pending, timer, req, polling, reading>>

ReadWaitsThen(next) ==
  /\ pc = "read_wait"
  /\ pending # {}
  /\ pending' = {}
  /\ pc' = next
  /\ UNCHANGED <<ring, timer, req, polling, reading>>

(* Mutant: one notification is taken for one character.                     *)
ReadWaitOnce == ReadWaitsThen("read_load")

ReadWait == ReadWaitsThen("read_check")

(* c = ring->buf[ring->head]                                                *)
ReadLoad ==
  /\ pc = "read_load"
  /\ c' = buf[head]
  /\ pc' = "read_advance"
  /\ UNCHANGED <<ring, pending, timer, req, polling, used, delivered>>

(* ring->head = (ring->head + 1) % sizeof(ring->buf)                        *)
ReadAdvance ==
  /\ pc = "read_advance"
  /\ head' = next_slot(head)
  /\ delivered' = Append(delivered, c)
  /\ used' = used + 1
  /\ pc' = "read_drain"
  /\ UNCHANGED <<tail, buf, stored, last_head, pending, timer, req, polling, c>>

(* Mutant: the buffer is filled without asking whether more has arrived.    *)
ReadDrainBlind ==
  /\ pc = "read_drain"
  /\ pc' = IF used < req.capacity THEN "read_load" ELSE "idle"
  /\ UNCHANGED <<ring, pending, timer, req, polling, reading>>

(* The loop that hands over whatever else has already arrived.              *)
ReadDrain ==
  /\ pc = "read_drain"
  /\ pc' = IF used < req.capacity /\ serial_has_input THEN "read_load" ELSE "idle"
  /\ UNCHANGED <<ring, pending, timer, req, polling, reading>>

-----------------------------------------------------------------------------

Init ==
  /\ head = 0 /\ tail = 0 /\ buf = [i \in Slots |-> 0] /\ stored = 0
  /\ last_head = NeverNotified
  /\ pending = {} /\ timer = "off" /\ pc = "idle"
  /\ req = [stdin |-> FALSE, others |-> 0, timeout |-> "zero", capacity |-> 0]
  /\ armed = FALSE /\ expired = FALSE /\ own_expiry = FALSE /\ ready = 0
  /\ c = 0 /\ used = 0 /\ delivered = <<>>

Calls ==
  \/ \E stdin \in BOOLEAN, others \in {0, 1}, timeout \in Timeouts :
       PollStart(stdin, others, timeout)
  \/ \E capacity \in Capacities : ReadStart(capacity)

(* What the Ruby thread does once it is inside a call.                      *)
Thread ==
  \/ PollScan \/ PollStop \/ PollArm \/ PollArmFails \/ PollWait
  \/ ReadCheck \/ ReadWait \/ ReadLoad \/ ReadAdvance \/ ReadDrain

Next == SerialPublish \/ TimerFires \/ Calls \/ Thread

(* The kernel runs a runnable thread eventually, and a running timer fires. *)
(* Nobody has to type, and Ruby does not have to make calls.                *)
Spec == Init /\ [][Next]_vars /\ WF_vars(Thread) /\ WF_vars(TimerFires)

-----------------------------------------------------------------------------
(* Properties.                                                              *)

Polls == {"poll_scan", "poll_stop", "poll_arm", "poll_wait"}
Reads == {"read_check", "read_wait", "read_load", "read_advance", "read_drain"}

(* The ring, the notification and the locals keep their types; the indices  *)
(* never leave the array.                                                   *)
TypeOK ==
  /\ head \in Slots /\ tail \in Slots
  /\ buf \in [Slots -> Nat] /\ stored \in Nat
  /\ last_head \in Slots \cup {NeverNotified}
  /\ pending \subseteq Badges
  /\ timer \in {"off", "running"}
  /\ pc \in {"idle"} \cup Polls \cup Reads
  /\ req \in [stdin : BOOLEAN, others : {0, 1}, timeout : Timeouts, capacity : Nat]
  /\ armed \in BOOLEAN /\ expired \in BOOLEAN /\ own_expiry \in BOOLEAN
  /\ ready \in Nat /\ c \in Nat /\ used \in Nat
  /\ delivered \in Seq(Nat)

(* Every character the server stored reaches Ruby once, in the order in     *)
(* which it was typed, whatever the server stores between the load of a     *)
(* character and the move of head (ruby_syscall_poll.c:358-362, 383-390).   *)
InOrder == \A i \in 1 .. Len(delivered) : delivered[i] = i

(* A thread about to wait, or waiting, for a character that is already in   *)
(* the ring has a notification coming: the decision to wait and the         *)
(* server's rule of signalling only when head has moved never lose a wakeup *)
(* between them (ruby_syscall_poll.c:335-343, 355-357, 682).                *)
NoLostWakeup ==
  pc \in {"poll_arm", "poll_wait", "read_wait"} /\ serial_has_input
    => "serial" \in pending

(* A character is loaded only from a slot that holds one: no wakeup, poll   *)
(* expiry or drain loop makes readv take from an empty ring                 *)
(* (ruby_syscall_poll.c:351-363, 413-417).                                  *)
LoadsOnlyWhatArrived == pc \in {"read_load", "read_advance"} => serial_has_input

(* A poll that ends because its time is over has looked at the ring again:  *)
(* it reports 0 only if the ring was empty after the expiry was noticed, so *)
(* a character that came with the timer is not dropped                      *)
(* (ruby_syscall_poll.c:684-689).                                           *)
ExpiryRechecks ==
  [][(pc \in Polls /\ pc' = "idle" /\ expired' /\ ready' = 0) => head = tail]_vars

(* A poll with a timeout that waits will be woken when its time is over:    *)
(* its timer runs, or has left its badge on the notification, whatever an   *)
(* earlier poll left there (ruby_syscall_poll.c:602-607, 666-682).          *)
TimedWaitEnds ==
  pc = "poll_wait" /\ req.timeout = "finite"
    => timer = "running" \/ "timer" \in pending

(* The wakeups a call may still get that bring it no further: badges with   *)
(* no character behind them, and an earlier poll's timer.                   *)
IdleWakeups ==
  LET own == pc \in Polls /\ armed IN
  (IF pending # {} /\ ~serial_has_input /\ ~(own /\ "timer" \in pending) THEN 1 ELSE 0)
    + (IF timer = "running" /\ ~own THEN 1 ELSE 0)

(* How many steps of its own the call still takes at most.                  *)
StepsLeft ==
  LET ends == readiness > 0 \/ expired \/ req.timeout = "zero" \/ ~req.stdin
      room == 3 * (req.capacity - used)
  IN CASE pc = "idle"         -> 0
       [] pc = "poll_stop"    -> 1
       [] pc = "poll_scan"    -> IF ends THEN 2 ELSE 3 * IdleWakeups + 6
       [] pc = "poll_arm"     -> 3 * IdleWakeups + 5
       [] pc = "poll_wait"    -> 3 * IdleWakeups + 4
       [] pc = "read_check"   -> IF serial_has_input THEN room + 1
                                 ELSE room + 2 * IdleWakeups + 3
       [] pc = "read_wait"    -> room + 2 * IdleWakeups + 2
       [] pc = "read_load"    -> room
       [] pc = "read_advance" -> room - 1
       [] pc = "read_drain"   -> room + 1

(* No call turns round for ever: each step of the thread leaves fewer, and  *)
(* what the user types and the timers do meanwhile adds none, so a poll     *)
(* waits again at most twice for badges that are not for it                 *)
(* (ruby_syscall_poll.c:355-357, 382-394, 664-690).                         *)
CallsAreShort ==
  [][pc # "idle" => /\ 0 < StepsLeft /\ StepsLeft' <= StepsLeft
                    /\ pc' # pc => StepsLeft' < StepsLeft]_vars

(* A poll with a timeout ends, with or without input                        *)
(* (ruby_syscall_poll.c:602-607).                                           *)
FinitePollReturns == (pc \in Polls /\ req.timeout = "finite") ~> (pc = "idle")

(* A read, or a poll without a timeout, ends once there is something in the *)
(* ring.                                                                    *)
InputEndsWait ==
  (pc \in Polls \cup Reads /\ req.stdin /\ serial_has_input) ~> (pc = "idle")

Device == INSTANCE CharDevice WITH
  arrived <- stored,
  reading <- pc \in Reads,
  got     <- IF pc \in Reads THEN used ELSE 0

(* readv on stdin is a character device: "block until at least one byte is  *)
(* available, then hand over whatever else has already arrived"             *)
(* (ruby_syscall_poll.c:373-374), and it blocks no longer than that.        *)
IsCharDevice == Device!Spec

(* The comment on timeouts: "Negative waits forever, zero does not wait,    *)
(* positive waits that many nanoseconds" (ruby_syscall_poll.c:614-615).  A  *)
(* poll of the console with a timeout that reports nothing has had its own  *)
(* timer expire, or refused.                                                *)
PositiveWaitsItsTime ==
  [][(/\ pc \in Polls /\ pc' = "idle"
      /\ req.stdin /\ req.timeout = "finite" /\ ready' = 0) => own_expiry']_vars
=============================================================================
