SPECIFICATION Spec
CONSTANTS
  RingSize = 3
  Capacities = {1, 2}
  MaxTyped = 6
PROPERTY
  PositiveWaitsItsTime
CHECK_DEADLOCK FALSE
