SPECIFICATION Spec
CONSTANTS
  Fds = {5, 6}
  MaxFd = 8
  IdleSlots = 1
  MaxRequests = 2
  Workers = {w1, w2}
  MaxConns = 2
  MaxSends = 2
  MaxStalls = 0
  Replies = {"file", "error"}
  SlowWorkers = FALSE
SYMMETRY WorkerSymmetry
INVARIANTS
  OneOwner
  WritableMeansProcessed
  UserCountExact
  TimerOwnsConnection
