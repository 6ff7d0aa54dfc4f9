SPECIFICATION MCSpec
CONSTANTS
  Handles = {1, 2}
  Workloads <- DeepWorkloads
  FlatSizes = {1}
  MaxCapacity = 2
  MaxHeight = 2
  MaxInline = 1
  MaxBytesToCopy = 1
  GrowthDivisor = 2
  BufferSizes = {}
  MinCapacities = {1}
VIEW Canonical
CHECK_DEADLOCK FALSE
INVARIANTS TreesValid HeightBounded
PROPERTIES ValueSemantics
