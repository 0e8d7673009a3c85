CONSTANTS
  DsTags = {1, 2}
  BlockTags = {0, 1}
  Data = {a}
  None = None
  NumWorkers = 2
  MsgSize <- MixedSizes
  CacheSize = 3
  Word = 16
  ChanCap = 1
  OnlyStored = TRUE
SPECIFICATION FairSpec
INVARIANTS
  BytesExact
  CrashOnlyIfMisconfigured
PROPERTIES
  EveryFetchReturns
  StopEndsEveryWorker
