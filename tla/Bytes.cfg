SPECIFICATION MCSpec
CONSTANTS
  Slots = {1, 2}
  Word = 2
  Byte = {0, 1, 2}
  Pointers = {1, 3}
  Inputs <- SomeInputs
  MaxHaystack = 6
  MaxShort = 3
  Searches <- SomeSearches
  Block = 2
  Requests <- AllRequests
  BlockSizes <- AllBlocks
CHECK_DEADLOCK FALSE
INVARIANTS InlineFaithful WordsDecide SearchAnswers LayoutMatches LeastClass BlockRespected
PROPERTY EverySearchEnds
