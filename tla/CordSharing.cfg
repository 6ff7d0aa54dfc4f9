SPECIFICATION MCSpec
CONSTANTS
  Handles = {1, 2}
  Workloads <- SharingWorkloads
  FlatSizes = {3}
  MaxCapacity = 2
  MaxHeight = 1
  MaxInline = 2
  MaxBytesToCopy = 2
  GrowthDivisor = 2
  BufferSizes = {2}
  MinCapacities = {1}
VIEW Canonical
CHECK_DEADLOCK FALSE
INVARIANTS CountsExact
PROPERTIES ValueSemantics
