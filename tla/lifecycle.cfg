CONSTANTS
  NumWorkers = 2
  Blocks = {0, 1}
  Capacity = 1
  Runs = 2
  Scripts <- SomeScripts
  None = None
SPECIFICATION FairSpec
INVARIANTS
  TypeOK
  RunsStayApart
  NothingUnread
  EveryRankReadsItsWrites
  WorkersOnlyAnswer
PROPERTIES
  EveryRankEnds
