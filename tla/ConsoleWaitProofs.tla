-------------------------- MODULE ConsoleWaitProofs --------------------------
(***************************************************************************)
(* Proofs about the console for rings of every size.                        *)
(***************************************************************************)
EXTENDS ConsoleWait, TLAPS

(* How many steps around the ring lead from slot a to slot b.               *)
Distance(a, b) == IF b >= a THEN b - a ELSE b - a + RingSize

(* The server's memory of the head lies behind the head by no more than the *)
(* part of the ring that is not filled, and never equals the head of an     *)
(* empty ring: the next character it stores there is announced.             *)
NextIsAnnounced ==
  /\ head = tail => last_head # head
  /\ last_head # NeverNotified =>
       Distance(last_head, head) + Distance(head, tail) <= RingSize - 1

(* The ring holds the characters that were stored and not yet delivered, in *)
(* order from the head on.                                                  *)
RingHoldsTheRest ==
  /\ stored = Len(delivered) + Distance(head, tail)
  /\ \A j \in Slots : Distance(head, j) < Distance(head, tail) =>
       buf[j] = Len(delivered) + Distance(head, j) + 1
  /\ pc = "read_advance" => c = Len(delivered) + 1

(* The drain loop is entered with a character in hand.                      *)
DrainsAfterOne == pc = "read_drain" => used > 0

ConsoleInv ==
  /\ TypeOK
  /\ NextIsAnnounced
  /\ RingHoldsTheRest
  /\ NoLostWakeup
  /\ LoadsOnlyWhatArrived
  /\ InOrder
  /\ DrainsAfterOne

(* The successor of a slot.                                                 *)
LEMMA NextSlot ==
  \A i \in Slots : /\ (i + 1) % RingSize \in Slots
                   /\ (i + 1) % RingSize = IF i = RingSize - 1 THEN 0 ELSE i + 1
BY ConsoleAssumption DEF Slots

(* Appending a number to the delivered characters.                          *)
LEMMA AppendDelivered ==
  ASSUME NEW s \in Seq(Nat), NEW x \in Nat
  PROVE  /\ Append(s, x) \in Seq(Nat)
         /\ Len(s) \in Nat /\ Len(Append(s, x)) = Len(s) + 1
         /\ \A i \in 1 .. Len(s) : Append(s, x)[i] = s[i]
         /\ Append(s, x)[Len(s) + 1] = x
OBVIOUS

(* A full turn of the server keeps the invariant.                           *)
LEMMA PublishKeeps ==
  ASSUME ConsoleInv, SerialPublish
  PROVE  ConsoleInv'
<1> DEFINE t == (tail + 1) % RingSize
<1>1. /\ RingSize \in Nat /\ RingSize > 1 /\ Slots = 0 .. (RingSize - 1)
      /\ NeverNotified \notin Slots
  BY ConsoleAssumption DEF Slots, NeverNotified
<1>2. /\ head \in Slots /\ tail \in Slots /\ stored \in Nat
      /\ last_head \in Slots \cup {NeverNotified} /\ buf \in [Slots -> Nat]
      /\ delivered \in Seq(Nat) /\ Len(delivered) \in Nat
  BY AppendDelivered DEF ConsoleInv, TypeOK
<1>3. /\ t \in Slots /\ t # head
      /\ t = IF tail = RingSize - 1 THEN 0 ELSE tail + 1
  BY <1>2, NextSlot DEF SerialPublish
<1>4. /\ stored' = stored + 1 /\ buf' = [buf EXCEPT ![tail] = stored + 1]
      /\ tail' = t /\ last_head' = head
      /\ pending' = IF last_head # head THEN pending \cup {"serial"} ELSE pending
      /\ head' = head /\ pc' = pc /\ req' = req /\ timer' = timer
      /\ armed' = armed /\ expired' = expired /\ own_expiry' = own_expiry
      /\ ready' = ready /\ c' = c /\ used' = used /\ delivered' = delivered
  BY DEF SerialPublish, polling, reading
<1> HIDE DEF t
<1>5. TypeOK'
  BY <1>2, <1>3, <1>4 DEF ConsoleInv, TypeOK, Badges
<1>6. Distance(head, t) = Distance(head, tail) + 1
  BY <1>1, <1>2, <1>3 DEF Distance
<1>7. NextIsAnnounced'
  <2>1. Distance(head, head) + Distance(head, t) <= RingSize - 1
    BY <1>1, <1>2, <1>3 DEF Distance
  <2> QED
    BY <1>3, <1>4, <2>1 DEF NextIsAnnounced, Distance
<1>8. RingHoldsTheRest'
  <2>1. stored = Len(delivered) + Distance(head, tail)
    BY DEF ConsoleInv, RingHoldsTheRest
  <2>2. ASSUME NEW j \in Slots, Distance(head, j) < Distance(head, t)
        PROVE  buf'[j] = Len(delivered) + Distance(head, j) + 1
    <3>1. CASE j = tail
      BY <1>2, <1>4, <2>1, <3>1
    <3>2. CASE j # tail
      <4>1. Distance(head, j) # Distance(head, tail)
        BY <1>1, <1>2, <3>2 DEF Distance
      <4>2. Distance(head, j) \in Int /\ Distance(head, tail) \in Int
        BY <1>1, <1>2 DEF Distance
      <4>3. Distance(head, j) < Distance(head, tail)
        BY <1>6, <2>2, <4>1, <4>2
      <4> QED
        BY <1>2, <1>4, <3>2, <4>3 DEF ConsoleInv, RingHoldsTheRest
    <3> QED
      BY <3>1, <3>2
  <2>3. stored' = Len(delivered) + Distance(head, t)
    <3>1. Distance(head, tail) \in Int
      BY <1>1, <1>2 DEF Distance
    <3> QED
      BY <1>2, <1>4, <1>6, <2>1, <3>1
  <2>4. pc = "read_advance" => c = Len(delivered) + 1
    BY DEF ConsoleInv, RingHoldsTheRest
  <2> QED
    BY <1>4, <2>2, <2>3, <2>4 DEF RingHoldsTheRest, Distance
<1>9. NoLostWakeup'
  <2>1. CASE head = tail
    <3>1. last_head # head
      BY <2>1 DEF ConsoleInv, NextIsAnnounced
    <3> QED
      BY <1>4, <3>1 DEF NoLostWakeup
  <2>2. CASE head # tail
    <3>1. pc \in {"poll_arm", "poll_wait", "read_wait"} => "serial" \in pending
      BY <2>2 DEF ConsoleInv, NoLostWakeup, serial_has_input
    <3> QED
      BY <1>4, <3>1 DEF NoLostWakeup
  <2> QED
    BY <2>1, <2>2
<1>10. LoadsOnlyWhatArrived'
  BY <1>3, <1>4 DEF LoadsOnlyWhatArrived, serial_has_input
<1>11. InOrder'
  BY <1>4 DEF ConsoleInv, InOrder
<1>12. DrainsAfterOne'
  BY <1>4 DEF ConsoleInv, DrainsAfterOne
<1> QED
  BY <1>5, <1>7, <1>8, <1>9, <1>10, <1>11, <1>12 DEF ConsoleInv

(* Moving the head past a loaded character keeps the invariant.             *)
LEMMA AdvanceKeeps ==
  ASSUME ConsoleInv, ReadAdvance
  PROVE  ConsoleInv'
<1> DEFINE h == (head + 1) % RingSize
<1>1. /\ RingSize \in Nat /\ RingSize > 1 /\ Slots = 0 .. (RingSize - 1)
      /\ NeverNotified \notin Slots
  BY ConsoleAssumption DEF Slots, NeverNotified
<1>2. /\ head \in Slots /\ tail \in Slots /\ stored \in Nat
      /\ last_head \in Slots \cup {NeverNotified} /\ buf \in [Slots -> Nat]
      /\ delivered \in Seq(Nat) /\ Len(delivered) \in Nat /\ c \in Nat
  BY AppendDelivered DEF ConsoleInv, TypeOK
<1>3. /\ h \in Slots
      /\ h = IF head = RingSize - 1 THEN 0 ELSE head + 1
  BY <1>2, NextSlot
<1>4. /\ pc = "read_advance" /\ head # tail /\ c = Len(delivered) + 1
  BY DEF ConsoleInv, LoadsOnlyWhatArrived, serial_has_input, RingHoldsTheRest,
         ReadAdvance
<1>5. /\ head' = h /\ delivered' = Append(delivered, c) /\ used' = used + 1
      /\ pc' = "read_drain" /\ tail' = tail /\ buf' = buf /\ stored' = stored
      /\ last_head' = last_head /\ pending' = pending /\ timer' = timer
      /\ req' = req /\ armed' = armed /\ expired' = expired
      /\ own_expiry' = own_expiry /\ ready' = ready /\ c' = c
  BY DEF ReadAdvance, next_slot, polling
<1>6. /\ Append(delivered, c) \in Seq(Nat)
      /\ Len(delivered') = Len(delivered) + 1
      /\ \A i \in 1 .. Len(delivered) : delivered'[i] = delivered[i]
      /\ delivered'[Len(delivered) + 1] = c
  BY <1>2, <1>5, AppendDelivered
<1> HIDE DEF h
<1>7. TypeOK'
  BY <1>2, <1>3, <1>5, <1>6 DEF ConsoleInv, TypeOK, Reads
<1>8. Distance(h, tail) = Distance(head, tail) - 1
  BY <1>1, <1>2, <1>3, <1>4 DEF Distance
<1>9. NextIsAnnounced'
  <2>1. CASE last_head = NeverNotified
    BY <1>1, <1>3, <1>5, <2>1 DEF NextIsAnnounced
  <2>2. CASE last_head # NeverNotified
    <3>1. Distance(last_head, head) + Distance(head, tail) <= RingSize - 1
      BY <2>2 DEF ConsoleInv, NextIsAnnounced
    <3>2. last_head \in Slots
      BY <1>2, <2>2
    <3>3. /\ Distance(last_head, h) + Distance(h, tail) <= RingSize - 1
          /\ last_head # h
      BY <1>1, <1>2, <1>3, <1>4, <3>1, <3>2 DEF Distance
    <3> QED
      BY <1>5, <3>3 DEF NextIsAnnounced, Distance
  <2> QED
    BY <2>1, <2>2
<1>10. RingHoldsTheRest'
  <2>1. stored = Len(delivered) + Distance(head, tail)
    BY DEF ConsoleInv, RingHoldsTheRest
  <2>2. Distance(head, tail) \in Int
    BY <1>1, <1>2 DEF Distance
  <2>3. stored = Len(delivered) + 1 + Distance(h, tail)
    BY <1>2, <1>8, <2>1, <2>2
  <2>4. ASSUME NEW j \in Slots, Distance(h, j) < Distance(h, tail)
        PROVE  buf[j] = (Len(delivered) + 1) + Distance(h, j) + 1
    <3>1. /\ Distance(head, j) = Distance(h, j) + 1
          /\ Distance(h, j) \in Int
      <4>1. j # head
        BY <1>1, <1>2, <1>3, <1>4, <2>4 DEF Distance
      <4> QED
        BY <1>1, <1>2, <1>3, <4>1 DEF Distance
    <3>2. Distance(head, j) < Distance(head, tail)
      BY <1>8, <2>2, <2>4, <3>1
    <3>3. buf[j] = Len(delivered) + Distance(head, j) + 1
      BY <3>2 DEF ConsoleInv, RingHoldsTheRest
    <3> QED
      BY <1>2, <3>1, <3>3
  <2>5. pc' # "read_advance"
    BY <1>5
  <2> QED
    BY <1>5, <1>6, <2>3, <2>4, <2>5 DEF RingHoldsTheRest, Distance
<1>11. NoLostWakeup' /\ LoadsOnlyWhatArrived'
  BY <1>5 DEF NoLostWakeup, LoadsOnlyWhatArrived
<1>12. InOrder'
  <2>1. \A i \in 1 .. Len(delivered) : delivered[i] = i
    BY DEF ConsoleInv, InOrder
  <2>2. \A i \in 1 .. (Len(delivered) + 1) :
          i \in 1 .. Len(delivered) \/ i = Len(delivered) + 1
    BY <1>2
  <2> QED
    BY <1>4, <1>6, <2>1, <2>2 DEF InOrder
<1>13. DrainsAfterOne'
  <2>1. used \in Nat
    BY DEF ConsoleInv, TypeOK
  <2> QED
    BY <1>5, <2>1 DEF DrainsAfterOne
<1> QED
  BY <1>7, <1>9, <1>10, <1>11, <1>12, <1>13 DEF ConsoleInv

(* The steps that leave the ring alone keep the invariant.                  *)
LEMMA OtherStepsKeep ==
  ASSUME ConsoleInv, UNCHANGED <<ring, delivered>>, TypeOK',
         \/ pc' = pc /\ c' = c /\ used' = used /\ pending \subseteq pending'
         \/ pc' \in {"idle", "poll_scan", "poll_stop", "read_check"}
         \/ /\ pc' \in {"poll_arm", "poll_wait", "read_wait"}
            /\ pc = "poll_arm" \/ ~serial_has_input
            /\ pending' = pending
         \/ pc' = "read_load" /\ serial_has_input
         \/ pc' = "read_advance" /\ serial_has_input /\ c' = buf[head]
  PROVE  ConsoleInv'
<1>1. /\ head' = head /\ tail' = tail /\ buf' = buf /\ stored' = stored
      /\ last_head' = last_head /\ delivered' = delivered
  BY DEF ring
<1>2. NextIsAnnounced' /\ InOrder'
  BY <1>1 DEF ConsoleInv, NextIsAnnounced, Distance, InOrder
<1>3. NoLostWakeup'
  BY <1>1 DEF ConsoleInv, NoLostWakeup, serial_has_input
<1>4. LoadsOnlyWhatArrived'
  BY <1>1 DEF ConsoleInv, LoadsOnlyWhatArrived, serial_has_input
<1>5. pc' = "read_advance" => c' = Len(delivered) + 1
  <2>1. CASE pc' = pc /\ c' = c
    BY <2>1 DEF ConsoleInv, RingHoldsTheRest
  <2>2. CASE serial_has_input /\ c' = buf[head]
    <3>1. /\ RingSize \in Nat /\ RingSize > 1 /\ Slots = 0 .. (RingSize - 1)
          /\ head \in Slots /\ tail \in Slots /\ head # tail
          /\ Len(delivered) \in Nat
      BY <2>2, ConsoleAssumption, AppendDelivered
      DEF Slots, ConsoleInv, TypeOK, serial_has_input
    <3>2. Distance(head, head) = 0 /\ 0 < Distance(head, tail)
      BY <3>1 DEF Distance
    <3>3. buf[head] = Len(delivered) + Distance(head, head) + 1
      BY <3>1, <3>2 DEF ConsoleInv, RingHoldsTheRest
    <3> QED
      BY <2>2, <3>1, <3>2, <3>3
  <2> QED
    BY <2>1, <2>2
<1>6. RingHoldsTheRest'
  BY <1>1, <1>5 DEF ConsoleInv, RingHoldsTheRest, Distance
<1>7. DrainsAfterOne'
  BY DEF ConsoleInv, DrainsAfterOne
<1> QED
  BY <1>2, <1>3, <1>4, <1>6, <1>7 DEF ConsoleInv

(* Every step of the console keeps the invariant.                           *)
LEMMA ConsoleStep ==
  ASSUME ConsoleInv, [Next]_vars
  PROVE  ConsoleInv'
<1> USE DEF Polls, Reads, Badges, Timeouts
<1>1. TypeOK
  BY DEF ConsoleInv
<1>2. CASE SerialPublish
  BY <1>2, PublishKeeps
<1>3. CASE TimerFires
  <2>1. TypeOK'
    BY <1>1, <1>3 DEF TimerFires, TypeOK, ring, reading
  <2> QED
    BY <1>3, <2>1, OtherStepsKeep DEF TimerFires, reading
<1>4. ASSUME NEW stdin \in BOOLEAN, NEW others \in {0, 1}, NEW timeout \in Timeouts,
             PollStart(stdin, others, timeout)
      PROVE  ConsoleInv'
  <2>1. TypeOK'
    BY <1>1, <1>4 DEF PollStart, TypeOK, ring, reading
  <2> QED
    BY <1>4, <2>1, OtherStepsKeep DEF PollStart, reading
<1>5. ASSUME NEW capacity \in Capacities, ReadStart(capacity)
      PROVE  ConsoleInv'
  <2>1. TypeOK'
    BY <1>1, <1>5, ConsoleAssumption DEF ReadStart, ReadStartsAt, TypeOK, ring, polling
  <2> QED
    BY <1>5, <2>1, OtherStepsKeep DEF ReadStart, ReadStartsAt
<1>6. CASE PollScan
  <2>1. TypeOK'
    <3>1. readiness \in Nat
      <4>1. req.others \in {0, 1}
        BY <1>1 DEF TypeOK
      <4>2. (IF req.stdin /\ serial_has_input THEN 1 ELSE 0) \in {0, 1}
        OBVIOUS
      <4> QED
        BY <4>1, <4>2 DEF readiness
    <3>2. pc' \in Polls \cup {"idle"}
      BY <1>6 DEF PollScan
    <3>3. ready' = readiness
      BY <1>6 DEF PollScan
    <3>4. UNCHANGED <<ring, pending, timer, req, reading>>
      BY <1>6 DEF PollScan
    <3>5. armed' \in BOOLEAN /\ expired' \in BOOLEAN /\ own_expiry' \in BOOLEAN
      BY <1>1, <1>6, Zenon DEF PollScan, TypeOK
    <3> QED
      BY <1>1, <3>1, <3>2, <3>3, <3>4, <3>5 DEF TypeOK, ring, reading
  <2>2. pc' = "poll_arm" \/ pc' = "poll_wait" => ~serial_has_input
    <3>1. CASE serial_has_input /\ req.stdin
      <4>1. readiness > 0
        BY <1>1, <3>1 DEF readiness, TypeOK
      <4> QED
        BY <1>6, <4>1 DEF PollScan
    <3>2. CASE ~req.stdin
      BY <1>6, <3>2 DEF PollScan
    <3> QED
      BY <3>1, <3>2
  <2>3. pc' \in {"idle", "poll_stop", "poll_arm", "poll_wait"} /\ pending' = pending
    BY <1>6 DEF PollScan
  <2> QED
    BY <1>6, <2>1, <2>2, <2>3, OtherStepsKeep DEF PollScan, reading
<1>7. CASE PollStop
  <2>1. TypeOK'
    BY <1>1, <1>7 DEF PollStop, TypeOK, ring, polling, reading
  <2> QED
    BY <1>7, <2>1, OtherStepsKeep DEF PollStop, reading
<1>8. CASE PollArm \/ PollArmFails
  <2>1. TypeOK'
    <3>1. CASE PollArm
      BY <1>1, <3>1 DEF PollArm, TypeOK, ring, reading
    <3>2. CASE PollArmFails
      BY <1>1, <3>2 DEF PollArmFails, TypeOK, ring, reading
    <3> QED
      BY <1>8, <3>1, <3>2
  <2> QED
    BY <1>8, <2>1, OtherStepsKeep DEF PollArm, PollArmFails, reading
<1>9. CASE PollWait
  <2>1. TypeOK'
    <3>1. armed' \in BOOLEAN /\ expired' \in BOOLEAN /\ own_expiry' \in BOOLEAN
      BY <1>1, <1>9, Zenon DEF PollWait, TypeOK
    <3>2. /\ UNCHANGED <<ring, timer, req, ready, reading>>
          /\ pending' = {} /\ pc' = "poll_scan"
      BY <1>9 DEF PollWait
    <3> QED
      BY <1>1, <3>1, <3>2 DEF TypeOK, ring, reading
  <2>2. pc' = "poll_scan" /\ UNCHANGED <<ring, reading>>
    BY <1>9 DEF PollWait
  <2> QED
    BY <2>1, <2>2, OtherStepsKeep DEF reading
<1>10. CASE ReadCheck \/ ReadWait
  <2>1. TypeOK'
    BY <1>1, <1>10 DEF ReadCheck, ReadWait, ReadWaitsThen, TypeOK, ring, polling, reading
  <2> QED
    BY <1>10, <2>1, OtherStepsKeep DEF ReadCheck, ReadWait, ReadWaitsThen, reading
<1>11. CASE ReadLoad
  <2>1. TypeOK'
    BY <1>1, <1>11 DEF ReadLoad, TypeOK, ring, polling
  <2>2. serial_has_input
    BY <1>11 DEF ReadLoad, ConsoleInv, LoadsOnlyWhatArrived
  <2> QED
    BY <1>11, <2>1, <2>2, OtherStepsKeep DEF ReadLoad
<1>12. CASE ReadAdvance
  BY <1>12, AdvanceKeeps
<1>13. CASE ReadDrain
  <2>1. TypeOK'
    BY <1>1, <1>13 DEF ReadDrain, TypeOK, ring, polling, reading
  <2> QED
    BY <1>13, <2>1, OtherStepsKeep DEF ReadDrain, reading
<1>14. CASE UNCHANGED vars
  BY <1>1, <1>14, OtherStepsKeep DEF vars, ring, polling, reading, TypeOK
<1> QED
  BY <1>2, <1>3, <1>4, <1>5, <1>6, <1>7, <1>8, <1>9, <1>10, <1>11, <1>12, <1>13,
     <1>14 DEF Next, Calls, Thread

(* The console starts with an empty ring.                                   *)
LEMMA ConsoleStart == Init => ConsoleInv
<1> SUFFICES ASSUME Init PROVE ConsoleInv
  OBVIOUS
<1>1. Len(delivered) = 0 /\ delivered \in Seq(Nat) /\ head = 0 /\ tail = 0
  BY DEF Init
<1>2. TypeOK
  <2>1. head \in Slots /\ tail \in Slots /\ buf \in [Slots -> Nat]
    BY ConsoleAssumption DEF Init, Slots
  <2>2. req \in [stdin : BOOLEAN, others : {0, 1}, timeout : Timeouts, capacity : Nat]
    BY DEF Init, Timeouts
  <2>3. armed \in BOOLEAN /\ expired \in BOOLEAN /\ own_expiry \in BOOLEAN
    BY Zenon DEF Init
  <2> QED
    BY <1>1, <2>1, <2>2, <2>3 DEF Init, TypeOK
<1>3. Distance(0, 0) = 0
  BY DEF Distance
<1>4. \A j \in Slots : ~(Distance(0, j) < 0)
  BY ConsoleAssumption DEF Distance, Slots
<1>5. RingHoldsTheRest
  BY <1>1, <1>3, <1>4 DEF Init, RingHoldsTheRest
<1> QED
  BY <1>1, <1>2, <1>3, <1>5
  DEF Init, ConsoleInv, NextIsAnnounced, NoLostWakeup, LoadsOnlyWhatArrived, InOrder,
      NeverNotified, serial_has_input, DrainsAfterOne

(* For a ring of any size, a thread that waits while a character lies in    *)
(* the ring has a notification coming (ruby_syscall_poll.c:335-363), a      *)
(* character is loaded only where there is one, and characters are          *)
(* delivered once and in order.                                             *)
THEOREM ConsoleSound ==
  Spec => [](TypeOK /\ NoLostWakeup /\ LoadsOnlyWhatArrived /\ InOrder)
<1>1. ConsoleInv /\ [Next]_vars => ConsoleInv'
  BY ConsoleStep
<1>2. ConsoleInv => TypeOK /\ NoLostWakeup /\ LoadsOnlyWhatArrived /\ InOrder
  BY DEF ConsoleInv
<1> QED
  BY <1>1, <1>2, ConsoleStart, PTL DEF Spec

(* Without its fairness, reading the console implements the character       *)
(* device: it hands over what arrived, in order, and never returns empty    *)
(* (ruby_syscall_poll.c:373-374).                                           *)
THEOREM ConsoleImplementsDevice == Spec => Device!DeviceSafety
<1>1. Init => Device!DeviceInit
  BY DEF Init, Device!DeviceInit, Reads
<1>2. ConsoleInv /\ [Next]_vars => [Device!DeviceNext]_(Device!deviceVars)
  <2> SUFFICES ASSUME ConsoleInv, [Next]_vars
               PROVE  [Device!DeviceNext]_(Device!deviceVars)
    OBVIOUS
  <2> USE DEF Polls, Reads
  <2>1. used \in Nat /\ Len(delivered) \in Nat /\ stored \in Nat
    BY AppendDelivered DEF ConsoleInv, TypeOK
  <2>2. CASE SerialPublish
    BY <2>2 DEF SerialPublish, reading, Device!DeviceNext, Device!Arrive
  <2>3. CASE \/ TimerFires \/ PollScan \/ PollStop \/ PollArm \/ PollArmFails
             \/ PollWait \/ ReadCheck \/ ReadWait \/ ReadLoad \/ UNCHANGED vars
             \/ \E stdin \in BOOLEAN, others \in {0, 1}, timeout \in Timeouts :
                  PollStart(stdin, others, timeout)
    <3>1. /\ UNCHANGED <<stored, delivered, used>>
          /\ pc \in Reads <=> pc' \in Reads
      BY <2>3 DEF TimerFires, PollScan, PollStop, PollArm, PollArmFails, PollWait,
                  ReadCheck, ReadWait, ReadWaitsThen, ReadLoad, PollStart, vars, ring, reading
    <3> QED
      BY <3>1 DEF Device!deviceVars
  <2>4. ASSUME NEW capacity \in Capacities, ReadStart(capacity)
        PROVE  Device!Begin
    BY <2>4 DEF ReadStart, ReadStartsAt, ring, Device!Begin
  <2>5. CASE ReadAdvance
    <3>1. c = Len(delivered) + 1 /\ head # tail
      BY <2>5 DEF ReadAdvance, ConsoleInv, RingHoldsTheRest, LoadsOnlyWhatArrived,
                  serial_has_input
    <3>2. Len(delivered) < stored
      <4>1. stored = Len(delivered) + Distance(head, tail)
        BY DEF ConsoleInv, RingHoldsTheRest
      <4>2. Distance(head, tail) \in Nat /\ Distance(head, tail) > 0
        BY <3>1, ConsoleAssumption DEF Distance, ConsoleInv, TypeOK, Slots
      <4> QED
        BY <2>1, <4>1, <4>2
    <3> QED
      BY <2>5, <3>1, <3>2 DEF ReadAdvance, Device!DeviceNext, Device!Deliver
  <2>6. CASE ReadDrain
    <3>1. used > 0
      BY <2>6 DEF ReadDrain, ConsoleInv, DrainsAfterOne
    <3>2. CASE pc' = "read_load"
      BY <2>6, <3>2 DEF ReadDrain, ring, reading, Device!deviceVars
    <3>3. CASE pc' = "idle"
      BY <2>6, <3>1, <3>3 DEF ReadDrain, ring, reading, Device!DeviceNext, Device!Finish
    <3> QED
      BY <2>6, <3>2, <3>3 DEF ReadDrain
  <2> QED
    BY <2>2, <2>3, <2>4, <2>5, <2>6 DEF Next, Calls, Thread, Device!DeviceNext
<1>3. ConsoleInv /\ [Next]_vars => ConsoleInv'
  BY ConsoleStep
<1> QED
  BY <1>1, <1>2, <1>3, ConsoleStart, PTL DEF Spec, Device!DeviceSafety

(* What a poll knows of its timer: an expiry it has noticed leaves nothing  *)
(* armed, is followed by one more pass and never by another wait, and only  *)
(* a poll that watches stdin waits at all.                                  *)
TimerInv ==
  /\ expired => ~armed
  /\ pc \in {"poll_arm", "poll_wait", "poll_stop"} => ~expired
  /\ pc \in {"poll_arm", "poll_wait"} => req.stdin
  /\ pc \in Polls /\ expired => req.stdin

(* TimerInv, step by step.                                                  *)
LEMMA TimerStart == Init => TimerInv
BY DEF Init, TimerInv

LEMMA TimerStep ==
  ASSUME TimerInv, [Next]_vars
  PROVE  TimerInv'
<1> USE DEF Polls
<1>1. CASE SerialPublish
  BY <1>1 DEF SerialPublish, polling, TimerInv
<1>2. CASE TimerFires
  BY <1>2 DEF TimerFires, TimerInv
<1>3. ASSUME NEW stdin \in BOOLEAN, NEW others \in {0, 1}, NEW timeout \in Timeouts,
             PollStart(stdin, others, timeout)
      PROVE  TimerInv'
  BY <1>3 DEF PollStart, TimerInv
<1>4. ASSUME NEW capacity \in Capacities, ReadStart(capacity)
      PROVE  TimerInv'
  BY <1>4 DEF ReadStart, ReadStartsAt, polling, TimerInv
<1>5. CASE PollScan
  BY <1>5 DEF PollScan, TimerInv
<1>6. CASE PollStop
  BY <1>6 DEF PollStop, polling, TimerInv
<1>7. CASE PollArm \/ PollArmFails
  BY <1>7 DEF PollArm, PollArmFails, TimerInv
<1>8. CASE PollWait
  BY <1>8 DEF PollWait, TimerInv
<1>9. CASE ReadCheck \/ ReadWait \/ ReadLoad \/ ReadAdvance \/ ReadDrain
  BY <1>9 DEF ReadCheck, ReadWait, ReadWaitsThen, ReadLoad, ReadAdvance, ReadDrain,
              polling, TimerInv
<1>10. CASE UNCHANGED vars
  BY <1>10 DEF vars, polling, TimerInv
<1> QED
  BY <1>1, <1>2, <1>3, <1>4, <1>5, <1>6, <1>7, <1>8, <1>9, <1>10
  DEF Next, Calls, Thread

(* A poll that gives up because its time is over has looked at the ring     *)
(* after it noticed, and found it empty (ruby_syscall_poll.c:684-689).      *)
THEOREM ExpiryLooksAgain == Spec => ExpiryRechecks
<1> DEFINE GivesUp == pc \in Polls /\ pc' = "idle" /\ expired' /\ ready' = 0
<1>1. ConsoleInv /\ TimerInv /\ [Next]_vars => (GivesUp => head = tail)
  <2> SUFFICES ASSUME ConsoleInv, TimerInv, [Next]_vars, GivesUp PROVE head = tail
    OBVIOUS
  <2> USE DEF Polls
  <2>1. CASE PollScan
    <3>1. expired /\ req.stdin /\ readiness = 0
      BY <2>1 DEF PollScan, TimerInv
    <3>2. req.others \in {0, 1}
      BY DEF ConsoleInv, TypeOK
    <3> QED
      BY <3>1, <3>2 DEF readiness, serial_has_input
  <2>2. CASE PollStop \/ PollArmFails
    BY <2>2 DEF PollStop, PollArmFails, polling, TimerInv
  <2>3. \/ SerialPublish \/ TimerFires \/ PollArm \/ PollWait \/ ReadCheck
        \/ ReadWait \/ ReadLoad \/ ReadAdvance \/ ReadDrain \/ UNCHANGED vars
        \/ \E stdin \in BOOLEAN, others \in {0, 1}, timeout \in Timeouts :
              PollStart(stdin, others, timeout)
        \/ \E capacity \in Capacities : ReadStart(capacity)
        => FALSE
    BY DEF SerialPublish, TimerFires, PollArm, PollWait, ReadCheck, ReadWait,
           ReadWaitsThen, ReadLoad, ReadAdvance, ReadDrain, PollStart, ReadStart,
           ReadStartsAt, vars
  <2> QED
    BY <2>1, <2>2, <2>3 DEF Next, Calls, Thread
<1>2. ConsoleInv /\ [Next]_vars => ConsoleInv'
  BY ConsoleStep
<1>3. TimerInv /\ [Next]_vars => TimerInv'
  BY TimerStep
<1>4. [](ConsoleInv /\ TimerInv) /\ [][Next]_vars => [][GivesUp => head = tail]_vars
  <2>1. ConsoleInv /\ TimerInv /\ [Next]_vars => [GivesUp => head = tail]_vars
    BY <1>1
  <2> QED
    BY <2>1, PTL
<1> QED
  BY <1>2, <1>3, <1>4, ConsoleStart, TimerStart, PTL DEF Spec, ExpiryRechecks
-----------------------------------------------------------------------------
(* What ends a call.  WaitInv: a poll that waits its time out has armed its *)
(* timer, and an armed timer runs or has signalled; a read has room for the *)
(* character it takes.                                                      *)
WaitInv ==
  /\ pc = "poll_wait" /\ req.timeout = "finite" => armed
  /\ pc \in Polls /\ armed => timer = "running" \/ "timer" \in pending
  /\ pc \in {"read_check", "read_wait", "read_load", "read_advance"} =>
       used < req.capacity
  /\ pc = "read_drain" => used <= req.capacity

LEMMA WaitStart == Init => WaitInv
BY DEF Init, WaitInv, Polls

LEMMA WaitStep ==
  ASSUME TypeOK, WaitInv, [Next]_vars
  PROVE  WaitInv'
<1> USE DEF Polls
<1>1. CASE SerialPublish
  BY <1>1 DEF SerialPublish, polling, reading, WaitInv
<1>2. CASE TimerFires
  BY <1>2 DEF TimerFires, reading, WaitInv
<1>3. ASSUME NEW stdin \in BOOLEAN, NEW others \in {0, 1}, NEW timeout \in Timeouts,
             PollStart(stdin, others, timeout)
      PROVE  WaitInv'
  BY <1>3 DEF PollStart, WaitInv
<1>4. ASSUME NEW capacity \in Capacities, ReadStart(capacity)
      PROVE  WaitInv'
  <2>1. 0 < capacity
    BY ConsoleAssumption
  <2> QED
    BY <1>4, <2>1 DEF ReadStart, ReadStartsAt, WaitInv
<1>5. CASE PollScan
  <2>1. pc' = "poll_wait" /\ req'.timeout = "finite" => armed'
    BY <1>5 DEF PollScan
  <2> QED
    BY <1>5, <2>1 DEF PollScan, WaitInv
<1>6. CASE PollStop \/ PollArmFails
  BY <1>6 DEF PollStop, PollArmFails, WaitInv
<1>7. CASE PollArm
  BY <1>7 DEF PollArm, WaitInv
<1>8. CASE PollWait
  <2>1. /\ pc = "poll_wait" /\ pc' = "poll_scan" /\ timer' = timer /\ pending' = {}
        /\ armed' = (armed /\ "timer" \notin pending)
    BY <1>8 DEF PollWait
  <2>2. armed' => armed /\ "timer" \notin pending
    BY <2>1
  <2>3. armed' => timer' = "running"
    BY <2>1, <2>2 DEF WaitInv
  <2> QED
    BY <2>1, <2>3 DEF WaitInv
<1>9. CASE ReadCheck \/ ReadWait \/ ReadLoad
  BY <1>9 DEF ReadCheck, ReadWait, ReadWaitsThen, ReadLoad, reading, WaitInv
<1>10. CASE ReadAdvance
  <2>1. used \in Nat /\ req.capacity \in Nat
    BY DEF TypeOK
  <2> QED
    BY <1>10, <2>1 DEF ReadAdvance, WaitInv
<1>11. CASE ReadDrain
  BY <1>11 DEF ReadDrain, reading, WaitInv
<1>12. CASE UNCHANGED vars
  BY <1>12 DEF vars, polling, reading, WaitInv
<1> QED
  BY <1>1, <1>2, <1>3, <1>4, <1>5, <1>6, <1>7, <1>8, <1>9, <1>10, <1>11, <1>12
  DEF Next, Calls, Thread

(* What the next pass over the descriptors ends.                            *)
Ends == readiness > 0 \/ expired \/ req.timeout = "zero" \/ ~req.stdin

Room == 3 * (req.capacity - used)

(* StepsLeft, place by place.                                               *)
LEMMA LeftAt ==
  /\ pc = "idle" => StepsLeft = 0
  /\ pc = "poll_stop" => StepsLeft = 1
  /\ pc = "poll_scan" /\ Ends => StepsLeft = 2
  /\ pc = "poll_scan" /\ ~Ends => StepsLeft = 3 * IdleWakeups + 6
  /\ pc = "poll_arm" => StepsLeft = 3 * IdleWakeups + 5
  /\ pc = "poll_wait" => StepsLeft = 3 * IdleWakeups + 4
  /\ pc = "read_check" /\ serial_has_input => StepsLeft = Room + 1
  /\ pc = "read_check" /\ ~serial_has_input => StepsLeft = Room + 2 * IdleWakeups + 3
  /\ pc = "read_wait" => StepsLeft = Room + 2 * IdleWakeups + 2
  /\ pc = "read_load" => StepsLeft = Room
  /\ pc = "read_advance" => StepsLeft = Room - 1
  /\ pc = "read_drain" => StepsLeft = Room + 1
BY DEF StepsLeft, Ends, Room

(* The other components leave the thread no more to do.                     *)
LEMMA OthersAddNothing ==
  ASSUME TypeOK, SerialPublish \/ TimerFires
  PROVE  /\ pc' = pc /\ req' = req /\ used' = used /\ expired' = expired
         /\ serial_has_input => serial_has_input'
         /\ IdleWakeups' <= IdleWakeups
<1>1. CASE SerialPublish
  <2>1. /\ UNCHANGED <<pc, req, used, armed, expired, timer>>
        /\ serial_has_input'
    BY <1>1 DEF SerialPublish, polling, reading, serial_has_input
  <2>2. IdleWakeups' <= IdleWakeups
    BY <2>1 DEF IdleWakeups
  <2> QED
    BY <2>1, <2>2
<1>2. CASE TimerFires
  <2>1. /\ UNCHANGED <<pc, req, used, armed, expired, head, tail>>
        /\ timer = "running" /\ timer' = "off" /\ pending' = pending \cup {"timer"}
    BY <1>2 DEF TimerFires, ring, reading
  <2>2. IdleWakeups' <= IdleWakeups
    BY <2>1 DEF IdleWakeups, serial_has_input
  <2> QED
    BY <2>1, <2>2 DEF serial_has_input
<1> QED
  BY <1>1, <1>2

(* A pass that would end the poll still would when there is more to read.   *)
LEMMA StillEnds ==
  ASSUME TypeOK, UNCHANGED <<req, expired>>, serial_has_input => serial_has_input', Ends
  PROVE  Ends'
<1>1. req.others \in {0, 1}
  BY DEF TypeOK
<1> QED
  BY <1>1 DEF Ends, readiness
(* The comparisons that the steps below come to.                            *)
LEMMA Fewer ==
  ASSUME NEW l \in Nat, NEW m \in Nat, NEW r \in Int
  PROVE  /\ m <= l => /\ 3 * m + 6 <= 3 * l + 6 /\ 2 <= 3 * l + 6
                      /\ 3 * m + 4 < 3 * l + 5
                      /\ r + 2 * m + 3 <= r + 2 * l + 3 /\ r + 1 <= r + 2 * l + 3
         /\ l = 1 + m => 3 * m + 6 < 3 * l + 4 /\ r + 2 * m + 3 < r + 2 * l + 2
         /\ r + 1 < r + 2 * l + 2
         /\ 3 * m + 4 \in Int /\ 3 * m + 6 \in Int
         /\ r + 1 \in Int /\ r + 2 * m + 3 \in Int
OBVIOUS

(* What a step other than the thread's leaves it to do.                     *)
LEMMA OthersKeepLeft ==
  ASSUME TypeOK, pc # "idle", SerialPublish \/ TimerFires
  PROVE  StepsLeft' <= StepsLeft
<1>1. /\ pc' = pc /\ req' = req /\ used' = used /\ expired' = expired
      /\ serial_has_input => serial_has_input'
      /\ IdleWakeups' <= IdleWakeups
  BY OthersAddNothing
<1>2. IdleWakeups \in Nat /\ IdleWakeups' \in Nat
  BY DEF IdleWakeups
<1>3. Room' = Room /\ Room \in Int
  BY <1>1 DEF Room, TypeOK
<1>4. pc \in Polls \cup Reads
  BY DEF TypeOK
<1>5. CASE pc = "poll_scan"
  <2>1. StepsLeft' = IF Ends' THEN 2 ELSE 3 * IdleWakeups' + 6
    BY <1>1, <1>5 DEF StepsLeft, Ends
  <2>2. StepsLeft = IF Ends THEN 2 ELSE 3 * IdleWakeups + 6
    BY <1>5, LeftAt
  <2>3. Ends => Ends'
    BY <1>1, StillEnds
  <2>4. 3 * IdleWakeups' + 6 <= 3 * IdleWakeups + 6 /\ 2 <= 3 * IdleWakeups + 6
    BY <1>1, <1>2, <1>3, Fewer
  <2> QED
    BY <2>1, <2>2, <2>3, <2>4
<1>6. CASE pc = "read_check"
  <2>1. StepsLeft' = IF serial_has_input' THEN Room + 1 ELSE Room + 2 * IdleWakeups' + 3
    BY <1>1, <1>3, <1>6 DEF StepsLeft, Room
  <2>2. StepsLeft = IF serial_has_input THEN Room + 1 ELSE Room + 2 * IdleWakeups + 3
    BY <1>6, LeftAt
  <2>3. /\ Room + 2 * IdleWakeups' + 3 <= Room + 2 * IdleWakeups + 3
        /\ Room + 1 <= Room + 2 * IdleWakeups + 3
    BY <1>1, <1>2, <1>3, Fewer
  <2> QED
    BY <1>1, <1>3, <2>1, <2>2, <2>3
<1>7. CASE pc \in {"poll_stop", "poll_arm", "poll_wait"}
  <2>1. StepsLeft' = CASE pc = "poll_stop" -> 1
                       [] pc = "poll_arm" -> 3 * IdleWakeups' + 5
                       [] pc = "poll_wait" -> 3 * IdleWakeups' + 4
    BY <1>1, <1>7 DEF StepsLeft
  <2> QED
    BY <1>1, <1>2, <1>7, <2>1, LeftAt
<1>8. CASE pc \in {"read_wait", "read_load", "read_advance", "read_drain"}
  <2>1. StepsLeft' = CASE pc = "read_wait" -> Room + 2 * IdleWakeups' + 2
                       [] pc = "read_load" -> Room
                       [] pc = "read_advance" -> Room - 1
                       [] pc = "read_drain" -> Room + 1
    BY <1>1, <1>3, <1>8 DEF StepsLeft, Room
  <2> QED
    BY <1>1, <1>2, <1>3, <1>8, <2>1, LeftAt
<1> QED
  BY <1>4, <1>5, <1>6, <1>7, <1>8 DEF Polls, Reads

(* A step of a poll leaves fewer.                                           *)
LEMMA PollLeavesFewer ==
  ASSUME TypeOK, TimerInv, PollScan \/ PollStop \/ PollArm \/ PollArmFails \/ PollWait
  PROVE  StepsLeft' \in Int /\ StepsLeft' < StepsLeft
<1>1. IdleWakeups \in Nat /\ IdleWakeups' \in Nat
  BY DEF IdleWakeups
<1>2. CASE PollScan
  <2>1. /\ pc = "poll_scan" /\ UNCHANGED <<head, tail, pending, timer, req, armed>>
        /\ pc' = IF Ends THEN IF armed THEN "poll_stop" ELSE "idle"
                 ELSE IF req.timeout = "finite" /\ ~armed THEN "poll_arm"
                 ELSE "poll_wait"
    BY <1>2 DEF PollScan, Ends, ring
  <2>2. CASE Ends
    <3>1. StepsLeft' = IF armed THEN 1 ELSE 0
      BY <2>1, <2>2 DEF StepsLeft
    <3> QED
      BY <2>1, <2>2, <3>1, LeftAt
  <2>3. CASE ~Ends
    <3>1. pc' \in {"poll_arm", "poll_wait"}
      BY <2>1, <2>3
    <3>2. IdleWakeups' = IdleWakeups
      BY <2>1, <3>1 DEF IdleWakeups, Polls, serial_has_input
    <3>3. StepsLeft' = IF pc' = "poll_arm" THEN 3 * IdleWakeups' + 5 ELSE 3 * IdleWakeups' + 4
      BY <3>1 DEF StepsLeft
    <3> QED
      BY <1>1, <2>1, <2>3, <3>2, <3>3, LeftAt
  <2> QED
    BY <2>2, <2>3
<1>3. CASE PollStop
  <2>1. pc = "poll_stop" /\ StepsLeft' = 0
    BY <1>3 DEF PollStop, StepsLeft
  <2> QED
    BY <2>1, LeftAt
<1>4. CASE PollArm
  <2>1. /\ pc = "poll_arm" /\ pc' = "poll_wait" /\ armed' /\ UNCHANGED <<head, tail, pending>>
    BY <1>4 DEF PollArm, ring
  <2>2. IdleWakeups' <= IdleWakeups
    BY <2>1 DEF IdleWakeups, Polls, serial_has_input
  <2>3. StepsLeft' = 3 * IdleWakeups' + 4
    BY <2>1 DEF StepsLeft
  <2>4. StepsLeft = 3 * IdleWakeups + 5
    BY <2>1, LeftAt
  <2>5. 3 * IdleWakeups' + 4 < 3 * IdleWakeups + 5 /\ 3 * IdleWakeups' + 4 \in Int
    BY <1>1, <2>2, 0 \in Int, Fewer
  <2> QED
    BY <2>3, <2>4, <2>5
<1>5. CASE PollArmFails
  <2>1. pc = "poll_arm" /\ StepsLeft' = 0
    BY <1>5 DEF PollArmFails, StepsLeft
  <2> QED
    BY <1>1, <2>1, LeftAt
<1>6. CASE PollWait
  <2>1. /\ pc = "poll_wait" /\ pc' = "poll_scan" /\ pending # {} /\ pending' = {}
        /\ UNCHANGED <<head, tail, timer, req>>
        /\ expired' = (expired \/ (armed /\ "timer" \in pending))
        /\ armed' = (armed /\ "timer" \notin pending)
    BY <1>6 DEF PollWait, ring
  <2>2. StepsLeft = 3 * IdleWakeups + 4
    BY <2>1, LeftAt
  <2>3. StepsLeft' = IF Ends' THEN 2 ELSE 3 * IdleWakeups' + 6
    BY <2>1 DEF StepsLeft, Ends
  <2>4. CASE Ends'
    BY <1>1, <2>2, <2>3, <2>4
  <2>5. CASE ~Ends'
    <3>1. ~serial_has_input
      <4>1. req.stdin /\ req.others \in {0, 1}
        BY <2>1 DEF TimerInv, TypeOK
      <4>2. serial_has_input => readiness' > 0
        BY <2>1, <4>1 DEF readiness, serial_has_input
      <4> QED
        BY <2>5, <4>2 DEF Ends
    <3>2. ~(armed /\ "timer" \in pending)
      <4>1. ~expired'
        BY <2>5 DEF Ends
      <4> QED
        BY <2>1, <4>1
    <3>3. armed' <=> armed
      BY <2>1, <3>2
    <3>4. IdleWakeups = 1 + (IF timer = "running" /\ ~armed THEN 1 ELSE 0)
      BY <2>1, <3>1, <3>2 DEF IdleWakeups, Polls
    <3>5. IdleWakeups' = IF timer = "running" /\ ~armed THEN 1 ELSE 0
      BY <2>1, <3>3 DEF IdleWakeups, Polls
    <3>6. IdleWakeups = 1 + IdleWakeups'
      BY <3>4, <3>5
    <3>7. 3 * IdleWakeups' + 6 < 3 * IdleWakeups + 4 /\ 3 * IdleWakeups' + 6 \in Int
      BY <1>1, <3>6, 0 \in Int, Fewer
    <3> QED
      BY <2>2, <2>3, <2>5, <3>7
  <2> QED
    BY <2>4, <2>5
<1> QED
  BY <1>2, <1>3, <1>4, <1>5, <1>6

(* A step of a read leaves fewer.                                           *)
LEMMA ReadLeavesFewer ==
  ASSUME TypeOK, WaitInv, ReadCheck \/ ReadWait \/ ReadLoad \/ ReadAdvance \/ ReadDrain
  PROVE  StepsLeft' \in Int /\ StepsLeft' < StepsLeft
<1>1. /\ IdleWakeups \in Nat /\ IdleWakeups' \in Nat
      /\ used \in Nat /\ req.capacity \in Nat /\ Room \in Int
  BY DEF IdleWakeups, TypeOK, Room
<1>2. CASE ReadCheck
  <2>1. /\ pc = "read_check" /\ pc' = IF serial_has_input THEN "read_load" ELSE "read_wait"
        /\ UNCHANGED <<head, tail, pending, timer, req, used>>
    BY <1>2 DEF ReadCheck, ring, reading
  <2>2. IdleWakeups' = IdleWakeups
    BY <2>1 DEF IdleWakeups, Polls, serial_has_input
  <2>3. StepsLeft' = IF serial_has_input THEN Room ELSE Room + 2 * IdleWakeups' + 2
    BY <2>1 DEF StepsLeft, Room
  <2> QED
    BY <1>1, <2>1, <2>2, <2>3, LeftAt
<1>3. CASE ReadWait
  <2>1. /\ pc = "read_wait" /\ pc' = "read_check" /\ pending # {} /\ pending' = {}
        /\ UNCHANGED <<head, tail, timer, req, used>>
    BY <1>3 DEF ReadWait, ReadWaitsThen, ring, reading
  <2>2. StepsLeft' = IF serial_has_input THEN Room + 1 ELSE Room + 2 * IdleWakeups' + 3
    BY <2>1 DEF StepsLeft, Room, serial_has_input
  <2>3. ~serial_has_input => IdleWakeups = 1 + IdleWakeups'
    BY <2>1 DEF IdleWakeups, Polls, serial_has_input
  <2>4. StepsLeft = Room + 2 * IdleWakeups + 2
    BY <2>1, LeftAt
  <2>5. /\ Room + 1 < Room + 2 * IdleWakeups + 2 /\ Room + 1 \in Int
        /\ Room + 2 * IdleWakeups' + 3 \in Int
        /\ ~serial_has_input =>
             Room + 2 * IdleWakeups' + 3 < Room + 2 * IdleWakeups + 2
    BY <1>1, <2>3, Fewer
  <2> QED
    BY <2>2, <2>4, <2>5
<1>4. CASE ReadLoad
  <2>1. pc = "read_load" /\ pc' = "read_advance" /\ UNCHANGED <<req, used>>
    BY <1>4 DEF ReadLoad
  <2>2. StepsLeft' = Room - 1
    BY <2>1 DEF StepsLeft, Room
  <2> QED
    BY <1>1, <2>1, <2>2, LeftAt
<1>5. CASE ReadAdvance
  <2>1. pc = "read_advance" /\ pc' = "read_drain" /\ req' = req /\ used' = used + 1
    BY <1>5 DEF ReadAdvance
  <2>2. StepsLeft' = 3 * (req.capacity - (used + 1)) + 1
    BY <2>1 DEF StepsLeft
  <2>3. StepsLeft' = Room - 2
    BY <1>1, <2>2 DEF Room
  <2> QED
    BY <1>1, <2>1, <2>3, LeftAt
<1>6. CASE ReadDrain
  <2>1. pc = "read_drain" /\ pc' \in {"read_load", "idle"} /\ UNCHANGED <<req, used>>
    BY <1>6 DEF ReadDrain, reading
  <2>2. StepsLeft' = IF pc' = "read_load" THEN Room ELSE 0
    BY <2>1 DEF StepsLeft, Room
  <2>3. 0 <= Room
    BY <1>1, <2>1 DEF WaitInv, Room
  <2> QED
    BY <1>1, <2>1, <2>2, <2>3, LeftAt
<1> QED
  BY <1>2, <1>3, <1>4, <1>5, <1>6

(* StepsLeft is a number.                                                   *)
LEMMA LeftIsInt == TypeOK => StepsLeft \in Int
<1> SUFFICES ASSUME TypeOK PROVE StepsLeft \in Int
  OBVIOUS
<1>1. IdleWakeups \in Nat
  BY DEF IdleWakeups
<1>2. Room \in Int
  BY DEF TypeOK, Room
<1>3. pc \in {"idle"} \cup Polls \cup Reads
  BY DEF TypeOK
<1>4. CASE pc = "idle" \/ pc \in Polls
  BY <1>1, <1>4, LeftAt DEF Polls
<1>5. CASE pc \in Reads
  BY <1>1, <1>2, <1>5, LeftAt DEF Reads
<1> QED
  BY <1>3, <1>4, <1>5

(* While a call goes on, something is left of it.                           *)
LEMMA SomethingLeft ==
  ASSUME TypeOK, WaitInv, pc # "idle"
  PROVE  StepsLeft \in Int /\ 0 < StepsLeft
<1>1. IdleWakeups \in Nat
  BY DEF IdleWakeups
<1>2. /\ Room \in Int
      /\ pc \in {"read_check", "read_wait", "read_load", "read_advance"} => 2 < Room
      /\ pc = "read_drain" => 0 <= Room
  <2>1. used \in Nat /\ req.capacity \in Nat
    BY DEF TypeOK
  <2> QED
    BY <2>1 DEF Room, WaitInv
<1>3. pc \in Polls \cup Reads
  BY DEF TypeOK
<1>4. CASE pc \in Polls
  BY <1>1, <1>4, LeftAt DEF Polls
<1>5. CASE pc \in Reads
  BY <1>1, <1>2, <1>5, LeftAt DEF Reads
<1> QED
  BY <1>3, <1>4, <1>5

(* The console's invariants together.                                       *)
LEMMA WholeInvariant ==
  Init /\ [][Next]_vars => [](ConsoleInv /\ TimerInv /\ WaitInv)
<1>1. ConsoleInv /\ TimerInv /\ WaitInv /\ [Next]_vars
        => (ConsoleInv /\ TimerInv /\ WaitInv)'
  BY ConsoleStep, TimerStep, WaitStep DEF ConsoleInv
<1>2. Init => ConsoleInv /\ TimerInv /\ WaitInv
  BY ConsoleStart, TimerStart, WaitStart
<1> QED
  BY <1>1, <1>2, PTL

(* A poll with a timeout never waits without a timer that will wake it,     *)
(* whatever an earlier poll left behind (ruby_syscall_poll.c:602-607,       *)
(* 666-682).                                                                *)
THEOREM TimerWakesThePoll == Spec => []TimedWaitEnds
<1>1. WaitInv => TimedWaitEnds
  BY DEF WaitInv, TimedWaitEnds, Polls
<1> QED
  BY <1>1, WholeInvariant, PTL DEF Spec

(* Whatever the user types and whenever timers fire, each step of the       *)
(* thread leaves fewer: for every ring and every buffer, a poll takes at    *)
(* most 12 steps and a read three for each character there is room for and  *)
(* 7 more (ruby_syscall_poll.c:355-357, 382-394, 664-690).                  *)
THEOREM NoCallTurnsForEver == Spec => CallsAreShort
<1> DEFINE Short == pc # "idle" => /\ 0 < StepsLeft /\ StepsLeft' <= StepsLeft
                                   /\ pc' # pc => StepsLeft' < StepsLeft
<1>1. ConsoleInv /\ TimerInv /\ WaitInv /\ [Next]_vars => Short
  <2> SUFFICES ASSUME ConsoleInv, TimerInv, WaitInv, [Next]_vars, pc # "idle" PROVE Short
    OBVIOUS
  <2>1. TypeOK
    BY DEF ConsoleInv
  <2>2. StepsLeft \in Int /\ 0 < StepsLeft
    BY <2>1, SomethingLeft
  <2>3. CASE SerialPublish \/ TimerFires
    <3>1. pc' = pc
      BY <2>3 DEF SerialPublish, TimerFires
    <3>2. StepsLeft' <= StepsLeft
      BY <2>1, <2>3, OthersKeepLeft
    <3> QED
      BY <2>2, <3>1, <3>2
  <2>4. CASE Thread
    <3>1. StepsLeft' \in Int /\ StepsLeft' < StepsLeft
      BY <2>1, <2>4, PollLeavesFewer, ReadLeavesFewer DEF Thread
    <3> QED
      BY <2>2, <3>1
  <2>5. CASE UNCHANGED vars
    <3>1. StepsLeft' = StepsLeft /\ pc' = pc
      BY <2>5 DEF vars, ring, polling, reading, StepsLeft, readiness, IdleWakeups,
                  serial_has_input
    <3> QED
      BY <2>2, <3>1
  <2>6. ~Calls
    BY DEF Calls, PollStart, ReadStart, ReadStartsAt
  <2> QED
    BY <2>3, <2>4, <2>5, <2>6 DEF Next
<1>2. [](ConsoleInv /\ TimerInv /\ WaitInv) /\ [][Next]_vars => [][Short]_vars
  <2>1. ConsoleInv /\ TimerInv /\ WaitInv /\ [Next]_vars => [Short]_vars
    BY <1>1
  <2> QED
    BY <2>1, PTL
<1> QED
  BY <1>2, WholeInvariant, PTL DEF Spec, CallsAreShort
-----------------------------------------------------------------------------
(* Liveness.  The fairness of Spec with the guards written out where WF_    *)
(* has ENABLED: a thread inside a call can take a step unless it waits and  *)
(* has no notification, and a timer can fire when it runs.                  *)
Runnable == pc # "idle" /\ (pc \in {"poll_wait", "read_wait"} => pending # {})

FairThread == []<>~Runnable \/ []<><<Thread>>_vars
FairTimer  == []<>~(timer = "running") \/ []<><<TimerFires>>_vars

FairSpec == Init /\ [][Next]_vars /\ FairThread /\ FairTimer

(* That the guards are right, which only TLC can tell.                      *)
GuardsEnable == /\ Runnable => ENABLED <<Thread>>_vars
                /\ timer = "running" => ENABLED <<TimerFires>>_vars

LEMMA FairnessOfSpec == Spec /\ []GuardsEnable => FairSpec
BY PTL DEF Spec, FairSpec, FairThread, FairTimer, GuardsEnable

(* A poll with a timeout, and one that takes at most k more steps.          *)
TimedPoll == pc \in Polls /\ req.timeout = "finite"
Below(k)  == TimedPoll /\ StepsLeft <= k

(* The others leave such a poll as it is, and let the thread go on.         *)
LEMMA OthersWait ==
  ASSUME ConsoleInv, TimerInv, WaitInv, [Next]_vars, ~Thread, TimedPoll
  PROVE  /\ TimedPoll' /\ StepsLeft' <= StepsLeft
         /\ Runnable => Runnable'
         /\ TimerFires => Runnable'
<1>1. TypeOK /\ pc # "idle"
  BY DEF ConsoleInv, TimedPoll, Polls
<1>2. SerialPublish \/ TimerFires \/ UNCHANGED vars
  BY <1>1 DEF Next, Calls, PollStart, ReadStart, ReadStartsAt
<1>3. pc' = pc /\ req' = req /\ pending \subseteq pending'
  BY <1>2 DEF SerialPublish, TimerFires, vars
<1>4. Runnable => Runnable'
  BY <1>3 DEF Runnable
<1>5. TimerFires => Runnable'
  BY <1>1 DEF TimerFires, Runnable
<1>6. StepsLeft' <= StepsLeft
  <2>1. CASE SerialPublish \/ TimerFires
    BY <1>1, <2>1, OthersKeepLeft
  <2>2. CASE UNCHANGED vars
    <3>1. StepsLeft' = StepsLeft
      BY <2>2 DEF vars, ring, polling, reading, StepsLeft, readiness, IdleWakeups,
                  serial_has_input
    <3> QED
      BY <1>1, <3>1, LeftIsInt
  <2> QED
    BY <1>2, <2>1, <2>2
<1> QED
  BY <1>3, <1>4, <1>5, <1>6 DEF TimedPoll

(* Its own step ends it or brings it nearer to its end.                     *)
LEMMA ThreadNearer ==
  ASSUME ConsoleInv, TimerInv, WaitInv, Thread, TimedPoll
  PROVE  pc' = "idle" \/ (TimedPoll' /\ StepsLeft' < StepsLeft)
<1>1. TypeOK
  BY DEF ConsoleInv
<1>2. PollScan \/ PollStop \/ PollArm \/ PollArmFails \/ PollWait
  BY DEF TimedPoll, Polls, Thread, ReadCheck, ReadWait, ReadWaitsThen, ReadLoad,
         ReadAdvance, ReadDrain
<1>3. StepsLeft' < StepsLeft
  BY <1>1, <1>2, PollLeavesFewer
<1>4. pc' \in Polls \cup {"idle"} /\ req' = req
  BY <1>2 DEF PollScan, PollStop, PollArm, PollArmFails, PollWait, Polls
<1> QED
  BY <1>3, <1>4 DEF TimedPoll

(* What a step does to a poll that takes at most k more.                    *)
Nearer(k, j) ==
  Below(k) => IF Thread THEN pc' = "idle" \/ Below(j)' ELSE Below(k)'

LEMMA StepNearer ==
  ASSUME ConsoleInv, TimerInv, WaitInv, [Next]_vars, NEW k \in Nat, NEW j \in Nat, k = j + 1
  PROVE  Nearer(k, j)
<1> SUFFICES ASSUME Below(k)
             PROVE  IF Thread THEN pc' = "idle" \/ Below(j)' ELSE Below(k)'
  BY DEF Nearer
<1>1. TimedPoll /\ StepsLeft \in Int /\ StepsLeft <= k
  BY LeftIsInt DEF Below, ConsoleInv
<1>2. StepsLeft' \in Int
  <2>1. TypeOK'
    BY ConsoleStep DEF ConsoleInv
  <2>2. (TypeOK => StepsLeft \in Int)'
    BY LeftIsInt, PTL
  <2> QED
    BY <2>1, <2>2
<1>3. CASE Thread
  <2>1. pc' = "idle" \/ (TimedPoll' /\ StepsLeft' < StepsLeft)
    BY <1>1, <1>3, ThreadNearer
  <2>2. StepsLeft' < StepsLeft => StepsLeft' <= j
    BY <1>1, <1>2
  <2> QED
    BY <1>3, <2>1, <2>2 DEF Below
<1>4. CASE ~Thread
  <2>1. TimedPoll' /\ StepsLeft' <= StepsLeft
    BY <1>1, <1>4, OthersWait
  <2>2. StepsLeft' <= k
    BY <1>1, <1>2, <2>1
  <2> QED
    BY <1>4, <2>1, <2>2 DEF Below
<1> QED
  BY <1>3, <1>4

(* A poll with a timeout has at most 12 steps to take, and comes to each of *)
(* them.                                                                    *)
LEMMA FairPollsEnd == FairSpec => FinitePollReturns
<1> DEFINE I     == ConsoleInv /\ TimerInv /\ WaitInv
           Ended == pc = "idle"
<1>1. Init /\ [][Next]_vars => []I
  BY WholeInvariant
<1>2. I /\ TimedPoll /\ [Next]_vars /\ ~Thread =>
        TimedPoll' /\ (Runnable => Runnable') /\ (TimerFires => Runnable')
  BY OthersWait
<1>3. I /\ TimedPoll => Runnable \/ timer = "running"
  BY DEF WaitInv, TimedPoll, Polls, Runnable
<1>4. (<<Thread>>_vars => Thread) /\ (<<TimerFires>>_vars => TimerFires)
  OBVIOUS
<1>5. I /\ [Next]_vars =>
        /\ Nearer(1, 0) /\ Nearer(2, 1) /\ Nearer(3, 2) /\ Nearer(4, 3)
        /\ Nearer(5, 4) /\ Nearer(6, 5) /\ Nearer(7, 6) /\ Nearer(8, 7)
        /\ Nearer(9, 8) /\ Nearer(10, 9) /\ Nearer(11, 10) /\ Nearer(12, 11)
  BY StepNearer
<1>6. I /\ TimedPoll => Below(12)
  <2> SUFFICES ASSUME I, TimedPoll PROVE StepsLeft <= 12
    BY DEF Below
  <2>1. IdleWakeups \in 0 .. 2
    BY DEF IdleWakeups
  <2> QED
    BY <2>1, LeftAt DEF TimedPoll, Polls
<1>7. I => ~Below(0)
  <2> SUFFICES ASSUME I, Below(0) PROVE FALSE
    OBVIOUS
  <2>1. TypeOK /\ pc # "idle" /\ StepsLeft <= 0
    BY DEF ConsoleInv, Below, TimedPoll, Polls
  <2> QED
    BY <2>1, SomethingLeft
<1> DEFINE B12 == Below(12)
           B11 == Below(11)
           B10 == Below(10)
           B9 == Below(9)
           B8 == Below(8)
           B7 == Below(7)
           B6 == Below(6)
           B5 == Below(5)
           B4 == Below(4)
           B3 == Below(3)
           B2 == Below(2)
           B1 == Below(1)
           B0 == Below(0)
<1>8. I /\ [Next]_vars =>
        /\ B12 => TimedPoll /\ (Thread => Ended' \/ B11') /\ (~Thread => B12')
        /\ B11 => TimedPoll /\ (Thread => Ended' \/ B10') /\ (~Thread => B11')
        /\ B10 => TimedPoll /\ (Thread => Ended' \/ B9') /\ (~Thread => B10')
        /\ B9 => TimedPoll /\ (Thread => Ended' \/ B8') /\ (~Thread => B9')
        /\ B8 => TimedPoll /\ (Thread => Ended' \/ B7') /\ (~Thread => B8')
        /\ B7 => TimedPoll /\ (Thread => Ended' \/ B6') /\ (~Thread => B7')
        /\ B6 => TimedPoll /\ (Thread => Ended' \/ B5') /\ (~Thread => B6')
        /\ B5 => TimedPoll /\ (Thread => Ended' \/ B4') /\ (~Thread => B5')
        /\ B4 => TimedPoll /\ (Thread => Ended' \/ B3') /\ (~Thread => B4')
        /\ B3 => TimedPoll /\ (Thread => Ended' \/ B2') /\ (~Thread => B3')
        /\ B2 => TimedPoll /\ (Thread => Ended' \/ B1') /\ (~Thread => B2')
        /\ B1 => TimedPoll /\ (Thread => Ended' \/ B0') /\ (~Thread => B1')
  BY <1>5 DEF Nearer, Below
<1> HIDE DEF I, Ended, B12, B11, B10, B9, B8, B7, B6, B5, B4, B3, B2, B1, B0
<1>9. I => (TimedPoll => B12) /\ ~B0
  BY <1>6, <1>7 DEF B12, B0, Below
<1>10. FairSpec => (TimedPoll ~> Ended)
  BY <1>1, <1>2, <1>3, <1>4, <1>8, <1>9, PTL DEF FairSpec, FairThread, FairTimer
<1> QED
  BY <1>10 DEF Ended, TimedPoll, FinitePollReturns

(* With the fairness of the thread and of timers, a poll with a timeout     *)
(* ends, for every ring and whatever the user types                         *)
(* (ruby_syscall_poll.c:602-607).                                           *)
THEOREM TimedPollsEnd == Spec /\ []GuardsEnable => FinitePollReturns
BY FairnessOfSpec, FairPollsEnd, PTL
=============================================================================
