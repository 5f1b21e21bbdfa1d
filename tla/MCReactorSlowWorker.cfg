SPECIFICATION Spec
CONSTANTS
  Fds = {5}
  MaxFd = 8
  IdleSlots = 1
  MaxRequests = 2
  Workers = {w1}
  MaxConns = 2
  MaxSends = 1
  MaxStalls = 0
  Replies = {"file"}
  SlowWorkers = TRUE
INVARIANTS
  WritableMeansProcessed
