CONSTANTS
  DsTags = {1}
  BlockTags = {0, 1, 2}
  Data = {a, b}
  None = None
  NumWorkers = 2
  MsgSize <- UniformSizes
  CacheSize = 7
  Word = 16
  ChanCap = 2
  OnlyStored = TRUE
SYMMETRY Symmetry
SPECIFICATION Spec
INVARIANTS
  TypeOK
  Coherent
  ReplyMatchesRequest
  NothingAfterFinish
  WithinCapacity

PROPERTIES
  ImplementsStore
