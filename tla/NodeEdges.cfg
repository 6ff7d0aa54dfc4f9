SPECIFICATION Spec
CONSTANTS
  Capacity = 3
  e1 = e1
  e2 = e2
  e3 = e3
  Edges <- ThreeEdges
  Null = Null
INVARIANTS WindowIntact WritesInBounds
PROPERTIES CallsReturn EdgeListKept
