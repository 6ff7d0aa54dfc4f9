SPECIFICATION MCSpec
CONSTANTS
  Handles = {1, 2}
  Workloads <- CallWorkloads
  FlatSizes = {2}
  MaxCapacity = 2
  MaxHeight = 1
  MaxInline = 1
  MaxBytesToCopy = 2
  GrowthDivisor = 2
  BufferSizes = {}
  MinCapacities = {1}
VIEW Canonical
CHECK_DEADLOCK FALSE
INVARIANTS CountsExact TreesValid
PROPERTIES SharedImmutable ValueSemantics
