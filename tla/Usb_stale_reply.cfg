\* a reply left in the pipe
SPECIFICATION Spec
CONSTANTS
  w1 = w1
  w2 = w2
  RegionId = region
  Sectors = {s1, s2}
  Blocks <- MCBlocks
  BlockWords = 4
  ChunkWords = 2
  ExtReplies <- MCExtReplies
  OutCap = 3
  InCap = 4
  Upsets = {"interrupt"}
  MaxUpsets = 1
INVARIANT ReturnsWhatWasAsked
