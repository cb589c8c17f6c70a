\* anything may be cut off, twice
SPECIFICATION FairSpec
CONSTANTS
  w1 = w1
  w2 = w2
  RegionId = region
  Sectors = {s1}
  Blocks <- MCBlocks
  BlockWords = 4
  ChunkWords = 2
  ExtReplies <- MCExtReplies
  OutCap = 2
  InCap = 5
  Upsets = {"abort", "interrupt", "late"}
  MaxUpsets = 2
INVARIANT TypeOK
INVARIANT InSync
INVARIANT UndisturbedResultsAreTrue
INVARIANT LeftoversBounded
INVARIANT FramingSurvives
PROPERTY CommandReturns
