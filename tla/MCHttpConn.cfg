SPECIFICATION FairSpec
CONSTANTS
  READ_BUFFER_SIZE = 14
  Files <- MCFiles
  Stat <- MCStat
  HeaderLen = 3
  ErrorLen = 3
  Requests <- MCRequests
  MaxConns = 2
  MaxAsks = 2
\* The connections are spent.
CHECK_DEADLOCK FALSE
INVARIANTS
  Understood
  FormReadsItsBody
  TerminatorInBuffer
  ClientGetsPrefix
  FileReplyExact
  MappingsBounded
PROPERTIES
  ImplementsSlot
  RequestAnswered
