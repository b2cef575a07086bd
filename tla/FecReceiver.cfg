SPECIFICATION FairSpec
CONSTANTS
  GF_BITS = 3
  UNROLL = 2
  NrSlices = 3
  LastSlice = 3
  SliceBlocks = 2
  MAX_SLICE_SIZE = 2
  Stripes = 2
  Redundancy = 1
  NR_BLOCKS = 3
  Memory = 6
  Window = 2
  Modes = {FALSE,TRUE}
  FecInOrder = TRUE
INVARIANTS TypeOK BlockSpaceConserved FecCountsAgree HandedOverInOrderIntact AckMeansComplete SlotsTurn FecQueueExact MemoryConserved FieldArithmetic ErasuresRepaired
PROPERTIES FinishedIsHandedOver SearchEnds ImplementsMulticast
CHECK_DEADLOCK FALSE
