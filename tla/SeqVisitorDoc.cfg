SPECIFICATION VisitSpec
CONSTANTS
  InlineCapacity = 1
  SizeClasses = {2, 3, 5}
  Hints = {0, 1, 2, 3, 4, 5, 6, 7, 8, 9, 10, 11, 12}
  NoHint = NoHint
  SequenceBound = 16
CHECK_DEADLOCK FALSE
INVARIANT ChunkedLikeFrom
