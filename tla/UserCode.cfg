SPECIFICATION MCSpec
CONSTANTS
  UserOwners = {u1, u2}
  GlobalOwners = {g}
  Leaves = {l1, l2}
  Vars = {x, y, z}
  NoNode = NoNode
  MaxEdges = 3
  ChunkSize = 3
  Rooms = {1, 2, 4}
  Given <- TwoBytes
  SinkBound = 6
  InlineCapacity = 1
  SizeClasses = {2, 3, 5}
  Hints = {0, 1, 2, 3, 4, 5, 6, 7, 8, 9, 10, 11, 12}
  NoHint = NoHint
  SequenceBound = 16
SYMMETRY Symmetry
CHECK_DEADLOCK FALSE
INVARIANTS OwnersKept BytesKept SequenceKept
