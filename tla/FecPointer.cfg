SPECIFICATION Spec
CONSTANTS
  GF_BITS = 2
  UNROLL = 2
  NrSlices = 4
  LastSlice = 5
  SliceBlocks = 2
  MAX_SLICE_SIZE = 2
  Stripes = 1
  Redundancy = 1
  NR_BLOCKS = 3
  Memory = 10
  Window = 2
  Modes = {TRUE}
  FecInOrder = TRUE
INVARIANTS DroppedOnlyWhenBehind
CHECK_DEADLOCK FALSE
