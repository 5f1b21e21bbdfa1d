SPECIFICATION FairSpec
CONSTANTS
  Fds = {5}
  MaxFd = 1
  IdleSlots = 1
  MaxRequests = 1
  Workers = {w1, w2}
  MaxConns = 2
  MaxSends = 1
  MaxStalls = 1
  Replies = {"file", "empty"}
  SlowWorkers = TRUE
INVARIANTS
  TimerLive
PROPERTIES
  EveryConnectionEnds
