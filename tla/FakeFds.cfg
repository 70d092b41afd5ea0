SPECIFICATION Spec
CONSTANTS
  FAKE_EVENTFD_BASE = 10
  FAKE_EVENTFD_COUNT = 2
  FAKE_EPOLL_BASE = 12
  FAKE_EPOLL_COUNT = 1
  FAKE_EPOLL_WATCH_COUNT = 2
  CounterModulus = 4
  ValueSize = 2
  Values = {0, 1, 3}
  Counts = {0, 1, 2, 4}
  MaxBuffers = 2
INVARIANTS TypeOK WatchesUnique WatchedIsReported
PROPERTIES TakesWhatItHands IsEventSpace
