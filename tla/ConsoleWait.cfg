SPECIFICATION Spec
CONSTANTS
  RingSize = 3
  Capacities = {1, 2}
  MaxTyped = 6
INVARIANTS
  TypeOK
  InOrder
  NoLostWakeup
  LoadsOnlyWhatArrived
  TimedWaitEnds
PROPERTIES
  ExpiryRechecks
  CallsAreShort
  FinitePollReturns
  InputEndsWait
  IsCharDevice
CHECK_DEADLOCK FALSE
