\* take_append_buffer on a cord whose tree keeps a node that another cord shares.
SPECIFICATION MCSpec
CONSTANTS
  Handles = {1, 2}
  Workloads <- ExtractWorkloads
  FlatSizes = {2}
  MaxCapacity = 2
  MaxHeight = 2
  MaxInline = 1
  MaxBytesToCopy = 1
  GrowthDivisor = 2
  BufferSizes = {2}
  MinCapacities = {1}
VIEW Canonical
CHECK_DEADLOCK FALSE
INVARIANT NoDangling
