\* What the documentation says of small requests.
SPECIFICATION SizingSpec
CONSTANTS
  Requests <- AllRequests
  BlockSizes <- AllBlocks
CHECK_DEADLOCK FALSE
INVARIANT SmallRequestsLikeDefault
