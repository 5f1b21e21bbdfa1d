SPECIFICATION FairSpec
CONSTANTS
  Fds = {5, 6}
  MaxFd = 8
  IdleSlots = 1
  MaxRequests = 2
  Workers = {w1}
  MaxConns = 2
  MaxSends = 0
  MaxStalls = 0
  Replies = {"file"}
  SlowWorkers = FALSE
PROPERTIES
  BacklogDrained
