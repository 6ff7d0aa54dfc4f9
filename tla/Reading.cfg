SPECIFICATION MCSpec
CONSTANTS
  Sources <- SmallCords
  Kinds = {"chunks", "bytes", "cursor", "reader"}
  FlatSizes = {4}
  MaxCapacity = 2
  MaxHeight = 2
  MaxInline = 1
  MaxBytesToCopy = 2
VIEW Position
CHECK_DEADLOCK FALSE
INVARIANTS ChunkAtPosition ReadsCounted ReadTreesValid
PROPERTY ReadsInOrder
