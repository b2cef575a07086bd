SPECIFICATION FairSpec
CONSTANTS
  r1 = r1
  Receivers <- MCReceivers
  Modes <- MCModes
  InputSizes = {9}
  BlockSize = 2
  BufBlocks = 4
  Page = 2
  MinBlocks = 1
  InitialSize = 1
  MaxSize = 2
  LeastSize = 1
  Growth = 1
  FecSize = 2
  QueueSize = 2
  RetriesUntilDrop = 0
  MaxRequests = 1
INVARIANTS TypeOK MemoryIntact MessagesIntact
CHECK_DEADLOCK FALSE
PROPERTIES TransferEnds
