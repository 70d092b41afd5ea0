----------------------------- MODULE CharDevice -----------------------------
(***************************************************************************)
(* What readers of the console rely on: a character device.  Characters     *)
(* arrive one by one; a read hands over at least one, in the order of       *)
(* arrival, blocks as long as there is none, and does not block longer.     *)
(***************************************************************************)
EXTENDS Naturals, Sequences

VARIABLES
  arrived,     \* how many characters have arrived, numbered from 1
  delivered,   \* those handed to the reader
  reading,     \* whether a read is in progress
  got          \* how many characters it has handed over so far

deviceVars == <<arrived, delivered, reading, got>>

DeviceInit == arrived = 0 /\ delivered = <<>> /\ reading = FALSE /\ got = 0

Arrive ==
  /\ arrived' = arrived + 1
  /\ UNCHANGED <<delivered, reading, got>>

Begin ==
  /\ ~reading
  /\ reading' = TRUE
  /\ UNCHANGED <<arrived, delivered, got>>

Deliver ==
  /\ reading
  /\ Len(delivered) < arrived
  /\ delivered' = Append(delivered, Len(delivered) + 1)
  /\ got' = got + 1
  /\ UNCHANGED <<arrived, reading>>

Finish ==
  /\ reading
  /\ got > 0
  /\ reading' = FALSE
  /\ got' = 0
  /\ UNCHANGED <<arrived, delivered>>

DeviceNext == Arrive \/ Begin \/ Deliver \/ Finish

DeviceSafety == DeviceInit /\ [][DeviceNext]_deviceVars

Spec == DeviceSafety /\ WF_deviceVars(Deliver \/ Finish)
=============================================================================
