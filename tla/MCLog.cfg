SPECIFICATION FairSpec
CONSTANTS
  Writers = {w1, w2}
  m_split_lines = 2
  max_queue_size = 1
  file_name = "ServerLog"
  HasSlash = FALSE
  MaxLines = 4
  MaxDay = 1
INVARIANTS EachLineOnce FileBound SoleWriterLosesNothing SoleWriterFilesAreDated
PROPERTY QueuedLineWritten
\* The calls are spent.
CHECK_DEADLOCK FALSE
