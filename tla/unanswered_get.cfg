CONSTANTS
  DsTags = {1}
  BlockTags = {0, 1}
  Data = {a}
  None = None
  NumWorkers = 1
  MsgSize <- UniformSizes
  CacheSize = 3
  Word = 16
  ChanCap = 1
  OnlyStored = FALSE
SPECIFICATION FairSpec
PROPERTIES
  EveryFetchReturns
CHECK_DEADLOCK FALSE
