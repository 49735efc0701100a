CONSTANTS
  None = None
  Maximum = 4
  Sizes = {1, 2, 3, 4, 5}
  Sections <- MCSections
  Diffs <- MCDiffs
  MaxFiles = 5
  EmptyCatch = 4
  LlmRule = 9
  Replies <- MCReplies
  MaxConcurrency = 2
SPECIFICATION FairReview
INVARIANTS
  ReviewTypeOK
  PackedInOrder
  ChunksBounded
  NoNeedlessSplit
  ScanIndependentOfArrival
  AllOrNothing
  ScanIsWhole
  CacheReordersNothing
PROPERTIES
  ReviewEnds
CHECK_DEADLOCK FALSE
