SPECIFICATION FairSpec
CONSTANTS
  Workers = {w1, w2, w3}
  MaxRequests = 1
  NullRequests = {2}
  MaxAppends = 4
  MaxSignals = 2
\* The pool is destroyed.
CHECK_DEADLOCK FALSE
INVARIANTS
  TypeOK
  SemaphoreCoversQueue
  TakersFindWork
  FifoOnce
PROPERTIES
  EveryRequestProcessed
