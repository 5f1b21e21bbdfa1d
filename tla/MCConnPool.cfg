SPECIFICATION FairSpec
CONSTANTS
  Threads = {t1, t2, t3, t4}
  MaxConn = 2
  MaxSignals = 2
INVARIANTS EachConnectionOnce ReserveCovers WorkersServed PopFindsConnection
PROPERTY SomebodyServed
\* pop_front() of an empty list ends the process.
CHECK_DEADLOCK FALSE
