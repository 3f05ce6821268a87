SPECIFICATION Spec
CONSTANTS
  mode = mode
  uplink = uplink
  Capacity = 3
  MaxSequence = 7
  MaxAppends = 8
  Entries <- MCEntries
  Buffers <- MCBuffers
INVARIANTS
  GapsAreVisible
  SkipsOnlyOverwritten
PROPERTIES
  WindowSpec
  CatchesUp
