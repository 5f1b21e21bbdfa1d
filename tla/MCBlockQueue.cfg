SPECIFICATION FairSpec
CONSTANTS
  Items = {a, b}
  NoItem = NoItem
  Consumers = {c1, c2}
  m_max_size = 3
INVARIANTS SleepersHaveNothing IndicesAgree
PROPERTIES ImplementsFifo FullDrains
